---------------------------- MODULE DeviceTrust ----------------------------
(***************************************************************************)
(* Pairing of companion devices: src/security/deviceTrust.ts, as the       *)
(* routes of src/server/routes.ts call it.                                 *)
(*                                                                         *)
(* Every operation is synchronous and is one action, the opportunistic     *)
(* clean-up of old pairing codes at its start included.  Nothing that a    *)
(* route reads before its await is used after it, so a request is one step.*)
(*                                                                         *)
(* Device identifiers and tokens are fresh for ever, also over a restart   *)
(* (time and random bits); pairing codes are six digits and may be drawn   *)
(* again while an earlier one is pending.  Time appears as the moments     *)
(* when a code's five minutes and the clean-up's ten seconds are over.     *)
(***************************************************************************)
EXTENDS Naturals, FiniteSets

CONSTANTS Device, Pin, Token, None,
          MaxPairingAttempts,   \* 5 in the code
          CleanupSize           \* pending codes that force a clean-up, 20

Entry == [device : Device, attempts : Nat, expired : BOOLEAN]

ASSUME PairingAssumption ==
    /\ None \notin Device \cup Token \cup Entry
    /\ MaxPairingAttempts \in Nat \ {0}
    /\ CleanupSize \in Nat
    /\ IsFiniteSet(Pin)

VARIABLES
    state,      \* trustState of each device, "unknown" when not in the map
    token,      \* sessionToken of each device
    pending,    \* pendingPairingCodes
    index,      \* sessionTokenIndex
    recent,     \* less than ten seconds since the last clean-up
    named,      \* history: device identifiers drawn so far
    issued      \* history: the device each token was issued to

vars == <<state, token, pending, index, recent, named, issued>>

TrustState == {"unknown", "pending", "active", "revoked"}

TypeOK ==
    /\ state \in [Device -> TrustState]
    /\ token \in [Device -> Token \cup {None}]
    /\ pending \in [Pin -> Entry \cup {None}]
    /\ index \in [Token -> Device \cup {None}]
    /\ recent \in BOOLEAN
    /\ named \in SUBSET Device
    /\ issued \in [Token -> Device \cup {None}]

Nobody == [t \in Token |-> None]

Init ==
    /\ state = [d \in Device |-> "unknown"]
    /\ token = [d \in Device |-> None]
    /\ pending = [p \in Pin |-> None]
    /\ index = Nobody
    /\ recent = FALSE
    /\ named = {}
    /\ issued = Nobody

-----------------------------------------------------------------------------
(* cleanupExpired() *)

Worn(entry) == entry.expired \/ entry.attempts > MaxPairingAttempts

Skipped == recent /\ Cardinality({p \in Pin : pending[p] # None}) < CleanupSize

\* pendingPairingCodes after the clean-up that starts an operation.
Kept == [p \in Pin |->
           IF ~Skipped /\ pending[p] # None /\ Worn(pending[p]) THEN None ELSE pending[p]]

\* The entry with this confirmation counted.
Tried(p) == [Kept[p] EXCEPT !.attempts = @ + 1]

-----------------------------------------------------------------------------
\* Mutant: the token is the time only, and two may be equal.
TimestampToken(t) == index[t] = None

FreshToken(t) == issued[t] = None

\* The device validateSessionToken() finds, by the index or else by search.
Holder(t) ==
    IF index[t] # None THEN index[t]
    ELSE IF \E d \in Device : token[d] = t
         THEN CHOOSE d \in Device : token[d] = t
         ELSE None

Valid(t) == /\ Holder(t) # None
            /\ state[Holder(t)] = "active"
            /\ token[Holder(t)] = t

-----------------------------------------------------------------------------
InitiatePairing(d, p) ==
    /\ d \notin named
    /\ state' = [state EXCEPT ![d] = "pending"]
    /\ pending' = [Kept EXCEPT ![p] = [device |-> d, attempts |-> 0, expired |-> FALSE]]
    /\ recent' = TRUE
    /\ named' = named \cup {d}
    /\ UNCHANGED <<token, index, issued>>

\* A code nobody is waiting for, or one of a wrong format.
ConfirmUnknown(p) ==
    /\ Kept[p] = None
    /\ pending' = Kept
    /\ recent' = TRUE
    /\ UNCHANGED <<state, token, index, named, issued>>

\* A code past its attempts or its time is dropped, with the device that waits for it.
ConfirmWorn(p) ==
    /\ Kept[p] # None
    /\ Worn(Tried(p))
    /\ pending' = [Kept EXCEPT ![p] = None]
    /\ state' = [state EXCEPT ![Kept[p].device] = IF @ = "pending" THEN "unknown" ELSE @]
    /\ recent' = TRUE
    /\ UNCHANGED <<token, index, named, issued>>

\* Mutant: a code is good until it expires.
PairKeepingCode(p, t) ==
    /\ Kept[p] # None
    /\ ~Worn(Tried(p))
    /\ FreshToken(t)
    /\ state' = [state EXCEPT ![Kept[p].device] = "active"]
    /\ token' = [token EXCEPT ![Kept[p].device] = t]
    /\ index' = [index EXCEPT ![t] = Kept[p].device]
    /\ issued' = [issued EXCEPT ![t] = Kept[p].device]
    /\ pending' = [Kept EXCEPT ![p] = Tried(p)]
    /\ recent' = TRUE
    /\ UNCHANGED named

\* "Device not found" cannot be answered: CodeBook, below.
ConfirmPairing(p, t) ==
    /\ Kept[p] # None
    /\ ~Worn(Tried(p))
    /\ FreshToken(t)
    /\ state' = [state EXCEPT ![Kept[p].device] = "active"]
    /\ token' = [token EXCEPT ![Kept[p].device] = t]
    /\ index' = [index EXCEPT ![t] = Kept[p].device]
    /\ issued' = [issued EXCEPT ![t] = Kept[p].device]
    /\ pending' = [Kept EXCEPT ![p] = None]
    /\ recent' = TRUE
    /\ UNCHANGED named

\* Mutant: a revoked token leaves a mark in the index.
IndexMarked(t) == [index EXCEPT ![t] = "revoked"]

Unindexed(t) == [index EXCEPT ![t] = None]

\* revokeDevice(): of any device the host's user names ...
RevokeDevice(d) ==
    /\ state[d] # "unknown"
    /\ index' = IF token[d] = None THEN index ELSE Unindexed(token[d])
    /\ state' = [state EXCEPT ![d] = "revoked"]
    /\ token' = [token EXCEPT ![d] = None]
    /\ UNCHANGED <<pending, recent, named, issued>>

\* ... or of the paired device that asks for it with its own token.
RevokeOwn(t) ==
    /\ Valid(t)
    /\ RevokeDevice(Holder(t))

GetPairedDevices ==
    /\ pending' = Kept
    /\ recent' = TRUE
    /\ UNCHANGED <<state, token, index, named, issued>>

-----------------------------------------------------------------------------
CodeExpires(p) ==
    /\ pending[p] # None
    /\ ~pending[p].expired
    /\ pending' = [pending EXCEPT ![p].expired = TRUE]
    /\ UNCHANGED <<state, token, index, recent, named, issued>>

CleanupDue ==
    /\ recent
    /\ recent' = FALSE
    /\ UNCHANGED <<state, token, pending, index, named, issued>>

\* Nothing is persisted: a restarted server knows no device.
Restart ==
    /\ state' = [d \in Device |-> "unknown"]
    /\ token' = [d \in Device |-> None]
    /\ pending' = [p \in Pin |-> None]
    /\ index' = Nobody
    /\ recent' = FALSE
    /\ UNCHANGED <<named, issued>>

Next ==
    \/ \E d \in Device, p \in Pin : InitiatePairing(d, p)
    \/ \E p \in Pin : ConfirmUnknown(p)
    \/ \E p \in Pin : ConfirmWorn(p)
    \/ \E p \in Pin, t \in Token : ConfirmPairing(p, t)
    \/ \E d \in Device : RevokeDevice(d)
    \/ \E t \in Token : RevokeOwn(t)
    \/ GetPairedDevices
    \/ \E p \in Pin : CodeExpires(p)
    \/ CleanupDue
    \/ Restart

Spec == Init /\ [][Next]_vars

-----------------------------------------------------------------------------
(* Properties *)

\* The index and the device records tell the same: a token is indexed exactly while it is the
\* current token of an active device.  validateSessionToken() relies on it, and it makes its
\* REVOKED_DEVICE answer unreachable.
TokenBook ==
    /\ \A t \in Token : index[t] # None => /\ state[index[t]] = "active"
                                           /\ token[index[t]] = t
    /\ \A d \in Device : IF state[d] = "active"
                         THEN token[d] # None /\ index[token[d]] = d /\ issued[token[d]] = d
                         ELSE token[d] = None

\* A pending code names a known device that was never paired, each code its own, and has not
\* been tried before: whichever codes collide, expire or are cleaned up, confirmPairing()
\* finds the device of the code it accepts (line 102 is unreachable).
CodeBook ==
    /\ \A p \in Pin : pending[p] # None =>
         /\ state[pending[p].device] \in {"pending", "revoked"}
         /\ pending[p].device \in named
         /\ pending[p].attempts = 0
         /\ \A t \in Token : issued[t] # pending[p].device
    /\ \A p, q \in Pin : /\ pending[p] # None
                         /\ pending[q] # None
                         /\ pending[p].device = pending[q].device
                         => p = q

\* A pairing hands out one token only: however a code is confirmed, repeated, drawn again or
\* left over from a revoked device, no device ever receives a second token.
OnePairingPerDevice ==
    \A t, u \in Token : issued[t] # None /\ issued[t] = issued[u] => t = u

\* Index, codes and tokens tell one story of every pairing, whatever collides, expires, is cleaned
\* up or is revoked.
PairingsAccounted == TokenBook /\ CodeBook /\ OnePairingPerDevice

\* A session that has ended, by revocation or restart, never comes back: a token handed out
\* earlier and refused now is refused for ever.
SessionsEndForGood ==
    [][\A t \in Token : issued[t] # None /\ ~Valid(t) => ~Valid(t)']_vars

\* Documented (docs/PHASE_11_RELEASE_CANDIDATE_REPORT.md:65): "Device access revocation takes
\* effect immediately."  A device the host has revoked does not gain access afterwards.
RevokedStaysRevoked ==
    [][\A d \in Device : state[d] = "revoked" => state'[d] # "active"]_vars

=============================================================================
