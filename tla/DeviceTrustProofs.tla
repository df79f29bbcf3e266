------------------------- MODULE DeviceTrustProofs -------------------------
(***************************************************************************)
(* Proofs about DeviceTrust, for any devices, codes, tokens and limits.    *)
(* The index of tokens and the pending codes are each coherent because the *)
(* other is: a code only ever names a device that was never paired, so     *)
(* confirming it cannot displace a token.  PairingBook adds to the checked *)
(* invariants what freshness of identifiers gives.                         *)
(***************************************************************************)
EXTENDS DeviceTrust, TLAPS

\* Devices in use and devices of issued tokens were all named.
NameBook ==
    /\ \A d \in Device : state[d] # "unknown" => d \in named
    /\ \A t \in Token : issued[t] # None => issued[t] \in named

PairingBook == TypeOK /\ TokenBook /\ CodeBook /\ NameBook /\ OnePairingPerDevice

-----------------------------------------------------------------------------

\* A clean-up only drops entries.
LEMMA KeptEntries ==
  ASSUME TypeOK
  PROVE  /\ Kept \in [Pin -> Entry \cup {None}]
         /\ \A p \in Pin : Kept[p] # None => Kept[p] = pending[p]
BY DEF TypeOK, Kept

\* So the pending codes stay coherent when the devices do not change.
LEMMA KeptCodeBook ==
  ASSUME TypeOK, CodeBook, pending' = Kept, UNCHANGED <<state, named, issued>>
  PROVE  CodeBook'
BY KeptEntries DEF CodeBook

\* The session of a token is valid exactly when the token is indexed: the search through all
\* devices, and with it the REVOKED_DEVICE answer, is never reached.
LEMMA ValidIsIndexed ==
  ASSUME TypeOK, TokenBook, NEW t \in Token
  PROVE  Valid(t) <=> index[t] # None
<1>1. CASE index[t] # None
  BY <1>1 DEF TypeOK, TokenBook, Valid, Holder
<1>2. CASE index[t] = None
  <2>1. \A d \in Device : token[d] # t
    <3>1. SUFFICES ASSUME NEW d \in Device, token[d] = t PROVE FALSE
      OBVIOUS
    <3>2. t # None
      BY PairingAssumption
    <3>3. state[d] = "active"
      BY <3>1, <3>2 DEF TokenBook
    <3>4. QED
      BY <3>1, <3>3, <1>2, PairingAssumption DEF TokenBook
  <2>2. Holder(t) = None
    BY <1>2, <2>1 DEF Holder
  <2>3. QED
    BY <1>2, <2>2 DEF Valid
<1>3. QED
  BY <1>1, <1>2

-----------------------------------------------------------------------------

LEMMA InitBook == Init => PairingBook
BY PairingAssumption
DEF Init, PairingBook, TypeOK, TrustState, TokenBook, CodeBook, NameBook,
    OnePairingPerDevice, Nobody

LEMMA InitiateBook ==
  ASSUME PairingBook, NEW d \in Device, NEW p \in Pin, InitiatePairing(d, p)
  PROVE  PairingBook'
<1> DEFINE entry == [device |-> d, attempts |-> 0, expired |-> FALSE]
<1> USE DEF PairingBook
<1>1. entry \in Entry /\ entry # None
  <2>1. entry \in Entry
    BY DEF Entry
  <2>2. None \notin Entry
    BY PairingAssumption
  <2>3. QED
    BY <2>1, <2>2
<1>2. TypeOK'
  BY <1>1, KeptEntries DEF TypeOK, TrustState, InitiatePairing
<1>3. state[d] = "unknown" /\ \A t \in Token : issued[t] # d
  BY PairingAssumption DEF NameBook, InitiatePairing, TypeOK
<1>4. TokenBook'
  BY <1>3 DEF TokenBook, TypeOK, InitiatePairing
<1>5. CodeBook'
  <2>1. \A q \in Pin : pending'[q] = IF q = p THEN entry ELSE Kept[q]
    BY KeptEntries DEF InitiatePairing
  <2>2. \A q \in Pin : q # p /\ pending'[q] # None
                         => pending'[q] = pending[q] /\ pending[q] # None
    BY <2>1, KeptEntries
  <2>3. entry.device = d /\ entry.attempts = 0
    OBVIOUS
  <2>4. state'[d] = "pending" /\ d \in named' /\ named \subseteq named'
    BY DEF InitiatePairing, TypeOK
  <2>5. \A q \in Pin : pending[q] # None => pending[q].device # d
    BY DEF CodeBook, InitiatePairing
  <2>6. \A c \in Device : c # d => state'[c] = state[c]
    BY DEF InitiatePairing, TypeOK
  <2>7. \A q \in Pin : pending[q] # None => pending[q].device \in Device
    BY DEF TypeOK, Entry
  <2>8. issued' = issued
    BY DEF InitiatePairing
  <2>9. \A q \in Pin : pending'[q] # None =>
           /\ state'[pending'[q].device] \in {"pending", "revoked"}
           /\ pending'[q].device \in named'
           /\ pending'[q].attempts = 0
           /\ \A t \in Token : issued'[t] # pending'[q].device
    <3>1. SUFFICES ASSUME NEW q \in Pin, pending'[q] # None
                   PROVE  /\ state'[pending'[q].device] \in {"pending", "revoked"}
                          /\ pending'[q].device \in named'
                          /\ pending'[q].attempts = 0
                          /\ \A t \in Token : issued'[t] # pending'[q].device
      OBVIOUS
    <3>2. CASE q = p
      BY <3>2, <2>1, <2>3, <2>4, <2>8, <1>3
    <3>3. CASE q # p
      BY <3>1, <3>3, <2>2, <2>4, <2>5, <2>6, <2>7, <2>8 DEF CodeBook
    <3>4. QED
      BY <3>2, <3>3
  <2>10. \A q, r \in Pin : /\ pending'[q] # None
                           /\ pending'[r] # None
                           /\ pending'[q].device = pending'[r].device
                           => q = r
    BY <2>1, <2>2, <2>3, <2>5 DEF CodeBook
  <2>11. QED
    BY <2>9, <2>10 DEF CodeBook
<1>6. NameBook'
  BY DEF NameBook, TypeOK, InitiatePairing
<1>7. OnePairingPerDevice'
  BY DEF OnePairingPerDevice, InitiatePairing
<1>8. QED
  BY <1>2, <1>4, <1>5, <1>6, <1>7

LEMMA WornBook ==
  ASSUME PairingBook, NEW p \in Pin, ConfirmWorn(p)
  PROVE  PairingBook'
<1> DEFINE d == Kept[p].device
<1> USE DEF PairingBook
<1>1. Kept[p] = pending[p] /\ pending[p] # None /\ d \in Device
  BY KeptEntries DEF ConfirmWorn, TypeOK, Entry
<1>2. /\ state[d] \in {"pending", "revoked"}
      /\ state' = [state EXCEPT ![d] = IF @ = "pending" THEN "unknown" ELSE @]
  BY <1>1 DEF CodeBook, ConfirmWorn
<1>3. /\ \A c \in Device : c # d => state'[c] = state[c]
      /\ state'[d] # "active" /\ state'[d] \in TrustState
  BY <1>1, <1>2 DEF TypeOK, TrustState
<1>4. TypeOK'
  BY <1>2, <1>3, KeptEntries DEF TypeOK, ConfirmWorn
<1>5. TokenBook'
  BY <1>1, <1>2, <1>3 DEF TokenBook, TypeOK, ConfirmWorn
<1>6. CodeBook'
  <2>1. \A q \in Pin : pending'[q] # None
                         => q # p /\ pending'[q] = pending[q] /\ pending[q] # None
    BY KeptEntries DEF ConfirmWorn
  <2>2. \A q \in Pin : q # p /\ pending[q] # None
                         => pending[q].device # d /\ pending[q].device \in Device
    BY <1>1 DEF CodeBook, TypeOK, Entry
  <2>3. UNCHANGED <<named, issued>>
    BY DEF ConfirmWorn
  <2>4. \A q \in Pin : pending'[q] # None => state'[pending'[q].device] = state[pending[q].device]
    BY <2>1, <2>2, <1>3
  <2>5. QED
    BY <2>1, <2>3, <2>4 DEF CodeBook
<1>7. NameBook'
  BY <1>1, <1>2, <1>3 DEF NameBook, ConfirmWorn
<1>8. OnePairingPerDevice'
  BY DEF OnePairingPerDevice, ConfirmWorn
<1>9. QED
  BY <1>4, <1>5, <1>6, <1>7, <1>8

LEMMA PairBook ==
  ASSUME PairingBook, NEW p \in Pin, NEW t \in Token, ConfirmPairing(p, t)
  PROVE  PairingBook'
<1> DEFINE d == Kept[p].device
<1> USE DEF PairingBook
<1>1. /\ Kept[p] = pending[p] /\ pending[p] # None /\ d \in Device /\ d # None
      /\ t # None /\ issued[t] = None
  BY KeptEntries, PairingAssumption DEF ConfirmPairing, FreshToken, TypeOK, Entry
<1>2. /\ state[d] \in {"pending", "revoked"} /\ d \in named
      /\ \A u \in Token : issued[u] # d
  BY <1>1 DEF CodeBook
<1>3. /\ state' = [state EXCEPT ![d] = "active"]
      /\ token' = [token EXCEPT ![d] = t]
      /\ index' = [index EXCEPT ![t] = d]
      /\ issued' = [issued EXCEPT ![t] = d]
      /\ pending' = [Kept EXCEPT ![p] = None]
      /\ recent' = TRUE /\ named' = named
  BY DEF ConfirmPairing
<1>4. TypeOK'
  BY <1>1, <1>3, KeptEntries DEF TypeOK, TrustState
<1>5. TokenBook'
  <2>1. index[t] = None
    <3>1. SUFFICES ASSUME index[t] # None PROVE FALSE
      OBVIOUS
    <3>2. index[t] \in Device /\ state[index[t]] = "active" /\ token[index[t]] = t
      BY <3>1 DEF TypeOK, TokenBook
    <3>3. issued[t] = index[t]
      BY <3>2 DEF TokenBook
    <3>4. QED
      BY <3>1, <3>3, <1>1
  <2>2. \A c \in Device : token[c] # t
    BY <1>1, <2>1, PairingAssumption DEF TokenBook
  <2>3. \A u \in Token : index[u] # d
    BY <1>1, <1>2 DEF TokenBook
  <2>4. \A u \in Token : index'[u] # None => state'[index'[u]] = "active" /\ token'[index'[u]] = u
    BY <1>1, <1>3, <2>3 DEF TokenBook, TypeOK
  <2>5. \A c \in Device : IF state'[c] = "active"
                         THEN token'[c] # None /\ index'[token'[c]] = c /\ issued'[token'[c]] = c
                         ELSE token'[c] = None
    <3>1. SUFFICES ASSUME NEW c \in Device
                   PROVE  IF state'[c] = "active"
                          THEN token'[c] # None /\ index'[token'[c]] = c /\ issued'[token'[c]] = c
                          ELSE token'[c] = None
      OBVIOUS
    <3>2. CASE c = d
      BY <3>2, <1>1, <1>3 DEF TypeOK
    <3>3. CASE c # d
      BY <3>3, <1>1, <1>3, <2>2 DEF TokenBook, TypeOK
    <3>4. QED
      BY <3>2, <3>3
  <2>6. QED
    BY <2>4, <2>5 DEF TokenBook
<1>6. CodeBook'
  <2>1. \A q \in Pin : pending'[q] # None
                         => q # p /\ pending'[q] = pending[q] /\ pending[q] # None
    BY <1>3, KeptEntries
  <2>2. \A q \in Pin : q # p /\ pending[q] # None
                         => pending[q].device # d /\ pending[q].device \in Device
    BY <1>1 DEF CodeBook, TypeOK, Entry
  <2>3. \A q \in Pin : pending'[q] # None =>
           /\ state'[pending'[q].device] = state[pending[q].device]
           /\ \A u \in Token : issued'[u] = issued[u] \/ issued'[u] # pending'[q].device
    BY <2>1, <2>2, <1>3 DEF TypeOK
  <2>4. QED
    BY <2>1, <2>3, <1>3 DEF CodeBook
<1>7. NameBook'
  BY <1>2, <1>3 DEF NameBook, TypeOK
<1>8. OnePairingPerDevice'
  BY <1>1, <1>2, <1>3 DEF OnePairingPerDevice, TypeOK
<1>9. QED
  BY <1>4, <1>5, <1>6, <1>7, <1>8

LEMMA RevokeBook ==
  ASSUME PairingBook, NEW d \in Device, RevokeDevice(d)
  PROVE  PairingBook'
<1> USE DEF PairingBook
<1>1. TypeOK'
  BY DEF RevokeDevice, Unindexed, TypeOK, TrustState
<1>2. /\ state' = [state EXCEPT ![d] = "revoked"]
      /\ token' = [token EXCEPT ![d] = None]
      /\ UNCHANGED <<pending, named, issued>>
  BY DEF RevokeDevice
<1>3. TokenBook'
  <2>1. CASE token[d] = None
    <3>1. index' = index /\ \A t \in Token : index[t] # d
      BY <2>1, PairingAssumption DEF RevokeDevice, TokenBook
    <3>2. QED
      BY <2>1, <3>1, <1>2 DEF TokenBook, TypeOK
  <2>2. CASE token[d] # None
    <3>1. token[d] \in Token /\ index' = [index EXCEPT ![token[d]] = None]
      BY <2>2 DEF RevokeDevice, Unindexed, TypeOK
    <3>2. \A t \in Token : t # token[d] => index[t] # d
      BY PairingAssumption DEF TokenBook
    <3>3. \A c \in Device : c # d /\ token[c] # None => token[c] # token[d]
      BY <2>2 DEF TokenBook
    <3>4. \A t \in Token : index'[t] # None => state'[index'[t]] = "active" /\ token'[index'[t]] = t
      BY <3>1, <3>2, <1>2 DEF TokenBook, TypeOK
    <3>5. \A c \in Device : IF state'[c] = "active"
                         THEN token'[c] # None /\ index'[token'[c]] = c /\ issued'[token'[c]] = c
                         ELSE token'[c] = None
      BY <3>1, <3>3, <1>2 DEF TokenBook, TypeOK
    <3>6. QED
      BY <3>4, <3>5 DEF TokenBook
  <2>3. QED
    BY <2>1, <2>2
<1>4. CodeBook'
  <2>1. \A q \in Pin : pending[q] # None => pending[q].device \in Device
    BY DEF TypeOK, Entry
  <2>2. \A c \in Device : state'[c] = state[c] \/ state'[c] = "revoked"
    BY <1>2 DEF TypeOK
  <2>3. QED
    BY <1>2, <2>1, <2>2 DEF CodeBook
<1>5. NameBook'
  BY <1>2 DEF NameBook, TypeOK, RevokeDevice
<1>6. OnePairingPerDevice'
  BY <1>2 DEF OnePairingPerDevice
<1>7. QED
  BY <1>1, <1>3, <1>4, <1>5, <1>6

\* Operations that at most clean the pending codes up.
LEMMA CleanupBook ==
  ASSUME PairingBook, pending' = Kept, recent' = TRUE,
         UNCHANGED <<state, token, index, named, issued>>
  PROVE  PairingBook'
<1> USE DEF PairingBook
<1>1. TypeOK'
  BY KeptEntries DEF TypeOK
<1>2. CodeBook'
  BY KeptCodeBook
<1>3. TokenBook' /\ NameBook' /\ OnePairingPerDevice'
  BY DEF TokenBook, NameBook, OnePairingPerDevice
<1>4. QED
  BY <1>1, <1>2, <1>3

LEMMA ExpireBook ==
  ASSUME PairingBook, NEW p \in Pin, CodeExpires(p)
  PROVE  PairingBook'
<1> USE DEF PairingBook
<1>1. pending[p] \in Entry
  BY DEF TypeOK, CodeExpires
<1>2. /\ pending' = [pending EXCEPT ![p] = [pending[p] EXCEPT !.expired = TRUE]]
      /\ UNCHANGED <<state, token, index, recent, named, issued>>
  BY DEF CodeExpires
<1>3. \A q \in Pin : pending'[q] # None =>
         /\ pending[q] # None
         /\ pending'[q].device = pending[q].device
         /\ pending'[q].attempts = pending[q].attempts
  BY <1>1, <1>2 DEF TypeOK, Entry, CodeExpires
<1>4. TypeOK'
  BY <1>1, <1>2 DEF TypeOK, Entry
<1>5. CodeBook'
  BY <1>2, <1>3 DEF CodeBook
<1>6. TokenBook' /\ NameBook' /\ OnePairingPerDevice'
  BY <1>2 DEF TokenBook, NameBook, OnePairingPerDevice
<1>7. QED
  BY <1>4, <1>5, <1>6

LEMMA RestartBook ==
  ASSUME PairingBook, Restart
  PROVE  PairingBook'
BY PairingAssumption
DEF PairingBook, Restart, TypeOK, TrustState, TokenBook, CodeBook, NameBook,
    OnePairingPerDevice, Nobody

LEMMA StepBook ==
  ASSUME PairingBook, [Next]_vars
  PROVE  PairingBook'
<1>1. CASE \E d \in Device, p \in Pin : InitiatePairing(d, p)
  BY <1>1, InitiateBook
<1>2. CASE \E p \in Pin : ConfirmUnknown(p)
  BY <1>2, CleanupBook DEF ConfirmUnknown
<1>3. CASE \E p \in Pin : ConfirmWorn(p)
  BY <1>3, WornBook
<1>4. CASE \E p \in Pin, t \in Token : ConfirmPairing(p, t)
  BY <1>4, PairBook
<1>5. CASE \E d \in Device : RevokeDevice(d)
  BY <1>5, RevokeBook
<1>6. CASE \E t \in Token : RevokeOwn(t)
  <2>1. PICK t \in Token : RevokeOwn(t)
    BY <1>6
  <2>2. index[t] # None
    BY <2>1, ValidIsIndexed DEF RevokeOwn, PairingBook
  <2>3. Holder(t) \in Device
    BY <2>2 DEF Holder, PairingBook, TypeOK
  <2>4. QED
    BY <2>1, <2>3, RevokeBook DEF RevokeOwn
<1>7. CASE GetPairedDevices
  BY <1>7, CleanupBook DEF GetPairedDevices
<1>8. CASE \E p \in Pin : CodeExpires(p)
  BY <1>8, ExpireBook
<1>9. CASE CleanupDue \/ UNCHANGED vars
  <2>1. recent' \in BOOLEAN /\ UNCHANGED <<state, token, pending, index, named, issued>>
    BY <1>9 DEF CleanupDue, vars, PairingBook, TypeOK
  <2>2. TypeOK'
    BY <2>1 DEF PairingBook, TypeOK
  <2>3. TokenBook' /\ CodeBook'
    BY <2>1 DEF PairingBook, TokenBook, CodeBook
  <2>4. NameBook' /\ OnePairingPerDevice'
    BY <2>1 DEF PairingBook, NameBook, OnePairingPerDevice
  <2>5. QED
    BY <2>2, <2>3, <2>4 DEF PairingBook
<1>10. CASE Restart
  BY <1>10, RestartBook
<1>11. QED
  BY <1>1, <1>2, <1>3, <1>4, <1>5, <1>6, <1>7, <1>8, <1>9, <1>10 DEF Next

\* The inductive invariant: types, both books, and the freshness of names.
THEOREM PairingHolds == Spec => []PairingBook
<1>1. PairingBook /\ [Next]_vars => PairingBook'
  BY StepBook
<1>2. QED
  BY InitBook, <1>1, PTL DEF Spec

\* The index names exactly the current tokens of active devices (validateSessionToken).
THEOREM TokensMatchDevices == Spec => []TokenBook
<1>1. PairingBook => TokenBook
  BY DEF PairingBook
<1>2. QED
  BY PairingHolds, <1>1, PTL

\* An accepted code names a known device that was never paired (confirmPairing).
THEOREM CodesNameNewDevices == Spec => []CodeBook
<1>1. PairingBook => CodeBook
  BY DEF PairingBook
<1>2. QED
  BY PairingHolds, <1>1, PTL

\* No device receives two tokens.
THEOREM PairedOnce == Spec => []OnePairingPerDevice
<1>1. PairingBook => OnePairingPerDevice
  BY DEF PairingBook
<1>2. QED
  BY PairingHolds, <1>1, PTL

\* Only a confirmation indexes a token, and only one that was never issued.
LEMMA OnlyFreshIndexed ==
  ASSUME PairingBook, [Next]_vars, NEW t \in Token, issued[t] # None, index[t] = None
  PROVE  index'[t] = None
<1>1. CASE \E p \in Pin, u \in Token : ConfirmPairing(p, u)
  BY <1>1 DEF ConfirmPairing, FreshToken, PairingBook, TypeOK
<1>2. CASE \E d \in Device : RevokeDevice(d)
  BY <1>2 DEF RevokeDevice, Unindexed, PairingBook, TypeOK
<1>3. CASE \E u \in Token : RevokeOwn(u)
  BY <1>3 DEF RevokeOwn, RevokeDevice, Unindexed, PairingBook, TypeOK
<1>4. CASE Restart
  BY <1>4 DEF Restart, Nobody
<1>5. CASE UNCHANGED index
  BY <1>5
<1>6. QED
  BY <1>1, <1>2, <1>3, <1>4, <1>5
  DEF Next, vars, InitiatePairing, ConfirmUnknown, ConfirmWorn, GetPairedDevices,
      CodeExpires, CleanupDue

\* A session that has ended never comes back.
THEOREM EndedSessionsStayEnded == Spec => SessionsEndForGood
<1> DEFINE Ended == \A t \in Token : issued[t] # None /\ ~Valid(t) => ~Valid(t)'
<1>1. PairingBook /\ PairingBook' /\ [Next]_vars => [Ended]_vars
  <2>1. SUFFICES ASSUME PairingBook, PairingBook', [Next]_vars, NEW t \in Token,
                        issued[t] # None, ~Valid(t)
                 PROVE  ~Valid(t)'
    OBVIOUS
  <2>2. index[t] = None
    BY <2>1, ValidIsIndexed DEF PairingBook
  <2>3. index'[t] = None
    BY <2>1, <2>2, OnlyFreshIndexed
  <2>4. \A d \in Device : token'[d] # t
    BY <2>1, <2>3, PairingAssumption DEF PairingBook, TokenBook
  <2>5. Holder(t)' = None
    BY <2>3, <2>4 DEF Holder
  <2>6. QED
    BY <2>5 DEF Valid
<1>2. QED
  BY PairingHolds, <1>1, PTL DEF Spec, SessionsEndForGood

\* Types are kept, of devices, codes, tokens and the counters of the clean-up.
THEOREM PairingTypes == Spec => []TypeOK
<1>1. PairingBook => TypeOK
  BY DEF PairingBook
<1>2. QED
  BY PairingHolds, <1>1, PTL

\* Index, codes and tokens agree, whatever collides, expires, is cleaned up or is revoked.
THEOREM PairingsAreAccounted == Spec => []PairingsAccounted
<1>1. PairingBook => PairingsAccounted
  BY DEF PairingBook, PairingsAccounted
<1>2. QED
  BY PairingHolds, <1>1, PTL
=============================================================================
