--------------------------- MODULE LocalPartsProofs ---------------------------
(***************************************************************************)
(* Proofs about the parts that keep the owner's own things, one section    *)
(* for each of the seven modules.  They share the choice of the first      *)
(* entry that matches, and hold for any skills, versions, manifests,       *)
(* memories, prompts, windows, refreshes, requests and limits.             *)
(***************************************************************************)
EXTENDS SkillLibrary, SkillTrust, MemoryStore, MediaCapture, DesktopVision, KingdomReads, AppUpdates,
        TLAPS, WellFoundedInduction

-----------------------------------------------------------------------------
(* What Array.find comes to first. *)

\* The first of several positions is one of them, and none of them precedes it.
LEMMA EarliestIsFirst ==
  ASSUME NEW S, S \subseteq Nat, S # {}
  PROVE  Earliest(S) \in S /\ \A j \in S : Earliest(S) <= j
<1>1. \E i \in S : \A j \in S : ~(<<j, i>> \in OpToRel(<, Nat))
  BY WFMin, NatLessThanWellFounded, Zenon
<1>2. \A i, j \in S : ~(<<j, i>> \in OpToRel(<, Nat)) => i <= j
  BY DEF OpToRel
<1>3. \E i \in S : \A j \in S : i <= j
  BY <1>1, <1>2, Zenon
<1>4. QED
  BY <1>3, Zenon DEF Earliest

\* There is only one such position.
LEMMA EarliestIs ==
  ASSUME NEW S, S \subseteq Nat, NEW i \in S, \A j \in S : i <= j
  PROVE  Earliest(S) = i
<1>1. Earliest(S) \in S /\ Earliest(S) <= i
  BY EarliestIsFirst
<1>2. i <= Earliest(S) /\ i \in Nat /\ Earliest(S) \in Nat
  BY <1>1
<1>3. QED
  BY <1>1, <1>2

-----------------------------------------------------------------------------
(* The versions of a skill (SkillLibrary). *)

\* The last of several positions, of which there are finitely many, is one of them.
LEMMA LatestIsLast ==
  ASSUME NEW n \in Nat, NEW S, S \subseteq 1 .. n, S # {}
  PROVE  Latest(S) \in S /\ \A j \in S : j <= Latest(S)
<1> DEFINE T == {n - i : i \in S}
<1>1. T \subseteq Nat /\ T # {}
  <2>1. \A i \in S : n - i \in Nat
    OBVIOUS
  <2>2. QED
    BY <2>1
<1>2. Earliest(T) \in T /\ \A k \in T : Earliest(T) <= k
  BY <1>1, EarliestIsFirst
<1>3. PICK i \in S : Earliest(T) = n - i
  BY <1>2
<1>4. \A j \in S : n - j \in T
  OBVIOUS
<1> HIDE DEF T
<1>5. \A j \in S : n - i <= n - j
  BY <1>2, <1>3, <1>4
<1>6. \A j \in S : j <= i
  BY <1>5
<1>7. QED
  BY <1>6, Zenon DEF Latest

Version == [number : Nat, status : Status]

LibraryInv == LibraryTypeOK /\ ActiveVersionShown

\* What the types of the library say of its entries.
LEMMA LibraryTypes ==
  LibraryTypeOK =>
     /\ library \in Seq(Version) /\ Len(library) \in Nat /\ DOMAIN library = 1 .. Len(library)
     /\ \A i \in DOMAIN library : i \in Nat /\ library[i] \in Version
     /\ base \in DOMAIN library \cup {None} /\ candidate \in DOMAIN library \cup {None}
<1> SUFFICES ASSUME LibraryTypeOK
             PROVE  /\ library \in Seq(Version) /\ Len(library) \in Nat /\ DOMAIN library = 1 .. Len(library)
                    /\ \A i \in DOMAIN library : i \in Nat /\ library[i] \in Version
  BY DEF LibraryTypeOK
<1>1. library \in Seq(Version)
  BY DEF LibraryTypeOK, Version
<1> HIDE DEF Version
<1>2. QED
  BY <1>1

\* The version that is looked up as active is, if there is one.
LEMMA ActiveIsActive ==
  ASSUME LibraryInv, Active # None
  PROVE  Active \in DOMAIN library /\ library[Active].status = "ACTIVE"
<1>1. Entries("ACTIVE") \subseteq Nat /\ Entries("ACTIVE") # {}
  BY LibraryTypes DEF LibraryInv, Entries, Active
<1>2. Active \in Entries("ACTIVE")
  BY <1>1, EarliestIsFirst DEF Active
<1>3. QED
  BY <1>2 DEF Entries

\* A promotion finds an entry of the candidate's number.
LEMMA PromotedEntry ==
  ASSUME LibraryInv, candidate # None
  PROVE  Promoted \in DOMAIN library /\ library[Promoted].number = library[candidate].number
<1>1. candidate \in Numbered(library[candidate].number)
  BY DEF LibraryInv, LibraryTypeOK, Numbered
<1>2. Numbered(library[candidate].number) \subseteq Nat
  BY LibraryTypes DEF LibraryInv, Numbered
<1>3. Promoted \in Numbered(library[candidate].number)
  BY <1>1, <1>2, EarliestIsFirst DEF Promoted
<1>4. QED
  BY <1>3 DEF Numbered

\* A change of status of one entry: which entries are active afterwards.
LEMMA OneStatus ==
  ASSUME NEW book \in Seq(Version), NEW i \in DOMAIN book, NEW status \in Status
  PROVE  /\ [book EXCEPT ![i].status = status] \in Seq(Version)
         /\ DOMAIN [book EXCEPT ![i].status = status] = DOMAIN book
         /\ Len([book EXCEPT ![i].status = status]) = Len(book)
         /\ [book EXCEPT ![i].status = status][i].status = status
         /\ [book EXCEPT ![i].status = status][i].number = book[i].number
         /\ \A j \in DOMAIN book : j # i => [book EXCEPT ![i].status = status][j] = book[j]
<1> DEFINE changed == [book[i] EXCEPT !.status = status]
<1>1. changed \in Version /\ changed.status = status /\ changed.number = book[i].number
  <2>1. book[i] \in Version
    OBVIOUS
  <2>2. QED
    BY <2>1 DEF Version
<1>2. [book EXCEPT ![i].status = status] = [book EXCEPT ![i] = changed]
  OBVIOUS
<1> HIDE DEF changed
<1>3. QED
  BY <1>1, <1>2

Demotion ==
  /\ Demoted \in Seq(Version) /\ DOMAIN Demoted = DOMAIN library /\ Len(Demoted) = Len(library)
  /\ \A i \in DOMAIN library : i # Active => Demoted[i] = library[i]
  /\ Active # None => Demoted[Active].status = "DEPRECATED"

\* What was active is deprecated, and nothing else changes.
LEMMA DemotedEntries == LibraryInv => Demotion
<1> SUFFICES ASSUME LibraryInv PROVE Demotion
  OBVIOUS
<1>1. library \in Seq(Version)
  BY LibraryTypes DEF LibraryInv
<1>2. CASE Active = None
  BY <1>1, <1>2 DEF Demotion, Demoted
<1>3. CASE Active # None
  <2>1. Active \in DOMAIN library /\ "DEPRECATED" \in Status
    BY <1>3, ActiveIsActive DEF Status
  <2>2. Demoted = [library EXCEPT ![Active].status = "DEPRECATED"]
    BY <1>3 DEF Demoted
  <2> DEFINE demoted == [library EXCEPT ![Active].status = "DEPRECATED"]
  <2>3. /\ demoted \in Seq(Version) /\ DOMAIN demoted = DOMAIN library /\ Len(demoted) = Len(library)
        /\ demoted[Active].status = "DEPRECATED"
        /\ \A j \in DOMAIN library : j # Active => demoted[j] = library[j]
    BY <1>1, <2>1, OneStatus
  <2> HIDE DEF demoted
  <2>4. QED
    BY <2>2, <2>3 DEF Demotion, demoted
<1>4. QED
  BY <1>2, <1>3

\* What comes back after a rollback was registered by the number that is promoted.
ComesBackByNumber ==
    \A i \in DOMAIN library :
       library[i].status = "ROLLED_BACK" /\ library'[i].status = "ACTIVE" =>
          candidate # None /\ library[candidate].number = library[i].number

\* What becomes active takes the place of what was looked up as active.
TakesItsPlace ==
    \A i \in DOMAIN library :
       library[i].status # "ACTIVE" /\ library'[i].status = "ACTIVE" =>
          /\ Active # None => library'[Active].status # "ACTIVE"
          /\ \A j \in DOMAIN library \ {i} :
                library'[j].status = "ACTIVE" => library[j].status = "ACTIVE"

\* Every operation keeps the invariant; what was rolled back returns only by its number; and what
\* becomes active replaces what was.
LEMMA LibraryStep ==
  ASSUME LibraryInv, [LibraryNext]_libraryVars
  PROVE  LibraryInv' /\ ComesBackByNumber /\ TakesItsPlace
<1> DEFINE Kept == LibraryInv' /\ ComesBackByNumber /\ TakesItsPlace
<1>0. /\ library \in Seq(Version) /\ Len(library) \in Nat /\ Len(library) <= MaxEntries
      /\ DOMAIN library = 1 .. Len(library)
      /\ \A i \in DOMAIN library : i \in Nat /\ library[i] \in Version
      /\ base \in DOMAIN library \cup {None} /\ candidate \in DOMAIN library \cup {None}
      /\ base # None => library[base].status \in {"ACTIVE", "ROLLED_BACK"}
  BY LibraryTypes DEF LibraryInv, LibraryTypeOK, ActiveVersionShown
<1>1. ASSUME NEW number \in Nat, NEW status \in Status, Len(library) < MaxEntries,
             library' = Append(library, [number |-> number, status |-> status]),
             base' = base, candidate' \in {candidate, Len(library')}
      PROVE  Kept
  <2> DEFINE added == [number |-> number, status |-> status]
  <2>1. added \in Version
    BY DEF Version
  <2>2. library' = Append(library, added)
    BY <1>1
  <2> HIDE DEF added
  <2>3. /\ library' \in Seq(Version) /\ Len(library') = Len(library) + 1
        /\ DOMAIN library' = 1 .. (Len(library) + 1)
        /\ \A i \in DOMAIN library : i \in DOMAIN library' /\ library'[i] = library[i]
    BY <1>0, <2>1, <2>2
  <2>4. base' \in DOMAIN library' \cup {None} /\ candidate' \in DOMAIN library' \cup {None}
    BY <1>0, <1>1, <2>3
  <2>5. LibraryTypeOK'
    BY <1>0, <1>1, <2>3, <2>4, LibraryAssumption DEF LibraryTypeOK, Version
  <2>6. ActiveVersionShown'
    BY <1>0, <1>1, <2>3 DEF ActiveVersionShown
  <2>7. ComesBackByNumber /\ TakesItsPlace
    BY <2>3 DEF ComesBackByNumber, TakesItsPlace
  <2>8. QED
    BY <2>5, <2>6, <2>7 DEF LibraryInv
<1>2. ASSUME NEW number \in Numbers, NEW status \in {"CANDIDATE", "APPROVED", "ACTIVE"},
             RegisterSkill(number, status)
      PROVE  Kept
  <2>1. number \in Nat /\ status \in Status
    BY <1>2, LibraryAssumption DEF Status
  <2>2. /\ Len(library) < MaxEntries /\ base' = base /\ candidate' \in {candidate, Len(library')}
        /\ library' = Append(library, [number |-> number, status |-> status])
    BY <1>2 DEF RegisterSkill
  <2>3. QED
    BY <1>1, <2>1, <2>2
<1>3. CASE ProposeCandidateVersion
  <2>1. library[Active].number + 1 \in Nat
    BY <1>0, <1>3, ActiveIsActive DEF ProposeCandidateVersion, Version
  <2>2. /\ Len(library) < MaxEntries /\ base' = base /\ candidate' \in {candidate, Len(library')}
        /\ library' = Append(library, [number |-> library[Active].number + 1, status |-> "CANDIDATE"])
    BY <1>3 DEF ProposeCandidateVersion
  <2>3. "CANDIDATE" \in Status
    BY DEF Status
  <2>4. QED
    BY <1>1, <2>1, <2>2, <2>3
<1>4. CASE OpenScreen
  <2>1. library' = library /\ base' = Active /\ candidate' = None
    BY <1>4 DEF OpenScreen
  <2>2. Active # None => Active \in DOMAIN library /\ library[Active].status = "ACTIVE"
    BY ActiveIsActive
  <2>3. LibraryTypeOK' /\ ActiveVersionShown'
    BY <2>1, <2>2 DEF LibraryInv, LibraryTypeOK, ActiveVersionShown
  <2>4. QED
    BY <2>1, <2>3 DEF LibraryInv, ComesBackByNumber, TakesItsPlace
<1>5. CASE PromoteCandidate
  <2>1. Promoted \in DOMAIN library /\ library[Promoted].number = library[candidate].number
    BY <1>5, PromotedEntry DEF PromoteCandidate
  <2> DEFINE book == Demoted
  <2>2. /\ book \in Seq(Version) /\ DOMAIN book = DOMAIN library /\ Len(book) = Len(library)
        /\ \A i \in DOMAIN library : i # Active => book[i] = library[i]
        /\ Active # None => book[Active].status = "DEPRECATED"
        /\ "ACTIVE" \in Status
    BY DemotedEntries DEF Demotion, Status
  <2>3. library' = [book EXCEPT ![Promoted].status = "ACTIVE"] /\ base' = Promoted /\ candidate' = None
        /\ candidate # None
    BY <1>5 DEF PromoteCandidate
  <2> HIDE DEF book
  <2>4. /\ library' \in Seq(Version) /\ DOMAIN library' = DOMAIN library /\ Len(library') = Len(library)
        /\ library'[Promoted].status = "ACTIVE"
        /\ \A j \in DOMAIN library : j # Promoted => library'[j] = book[j]
    BY <2>1, <2>2, <2>3, OneStatus
  <2>5. Active # None => Active \in DOMAIN library /\ library[Active].status = "ACTIVE"
    BY ActiveIsActive
  <2>6. \A j \in DOMAIN library :
           j # Promoted /\ library'[j].status = "ACTIVE" => j # Active /\ library[j].status = "ACTIVE"
    <3>1. \A j \in DOMAIN library : j = Active => j # None
      BY <1>0, LibraryAssumption
    <3>2. QED
      BY <2>2, <2>4, <3>1
  <2>7. LibraryTypeOK'
    BY <1>0, <2>1, <2>3, <2>4 DEF LibraryTypeOK, Version
  <2>8. ActiveVersionShown'
    BY <2>3, <2>4 DEF ActiveVersionShown
  <2>9. ComesBackByNumber
    BY <2>1, <2>3, <2>6 DEF ComesBackByNumber
  <2>10. TakesItsPlace
    BY <2>5, <2>6 DEF TakesItsPlace
  <2>11. QED
    BY <2>7, <2>8, <2>9, <2>10 DEF LibraryInv
<1>6. CASE RollbackSkill
  <2> DEFINE retired == [library EXCEPT ![Active].status = "ROLLED_BACK"]
  <2>1. Active \in DOMAIN library /\ library[Active].status = "ACTIVE" /\ "ROLLED_BACK" \in Status
    BY <1>6, ActiveIsActive DEF RollbackSkill, Status
  <2>2. /\ retired \in Seq(Version) /\ DOMAIN retired = DOMAIN library /\ Len(retired) = Len(library)
        /\ retired[Active].status = "ROLLED_BACK"
        /\ \A j \in DOMAIN library : j # Active => retired[j] = library[j]
    BY <1>0, <2>1, OneStatus
  <2>3. /\ candidate' = candidate
        /\ IF Predecessors = {} THEN library' = retired /\ base' = base
           ELSE /\ library' = [retired EXCEPT ![Latest(Predecessors)].status = "ACTIVE"]
                /\ base' = Latest(Predecessors)
    BY <1>6 DEF RollbackSkill
  <2> HIDE DEF retired
  <2>4. \A j \in DOMAIN library :
           retired[j].status = "ACTIVE" => j # Active /\ library[j].status = "ACTIVE"
    BY <2>2
  <2>5. CASE Predecessors = {}
    <3>1. library' = retired /\ base' = base /\ candidate' = candidate
      BY <2>3, <2>5
    <3>2. LibraryTypeOK'
      BY <1>0, <2>2, <3>1 DEF LibraryTypeOK, Version
    <3>3. ActiveVersionShown'
      BY <1>0, <2>2, <3>1 DEF ActiveVersionShown
    <3>4. ComesBackByNumber /\ TakesItsPlace
      BY <2>4, <3>1 DEF ComesBackByNumber, TakesItsPlace
    <3>5. QED
      BY <3>2, <3>3, <3>4 DEF LibraryInv
  <2>6. CASE Predecessors # {}
    <3>1. Predecessors \subseteq 1 .. Len(library)
      BY <1>0 DEF Predecessors, Entries
    <3>2. Latest(Predecessors) \in Predecessors
      BY <1>0, <2>6, <3>1, LatestIsLast
    <3> DEFINE previous == Latest(Predecessors)
    <3>3. /\ previous \in DOMAIN library /\ previous # Active
          /\ library[previous].status \in {"DEPRECATED", "APPROVED"} /\ "ACTIVE" \in Status
      BY <1>0, <2>1, <3>2 DEF Predecessors, Entries, Status
    <3>4. library' = [retired EXCEPT ![previous].status = "ACTIVE"] /\ base' = previous
          /\ candidate' = candidate
      BY <2>3, <2>6
    <3> HIDE DEF previous
    <3>5. /\ library' \in Seq(Version) /\ DOMAIN library' = DOMAIN library
          /\ Len(library') = Len(library) /\ library'[previous].status = "ACTIVE"
          /\ \A j \in DOMAIN library : j # previous => library'[j] = retired[j]
      BY <2>2, <3>3, <3>4, OneStatus
    <3>6. \A j \in DOMAIN library :
             j # previous /\ library'[j].status = "ACTIVE" => j # Active /\ library[j].status = "ACTIVE"
      BY <2>4, <3>5
    <3>7. LibraryTypeOK'
      BY <1>0, <3>3, <3>4, <3>5 DEF LibraryTypeOK, Version
    <3>8. ActiveVersionShown'
      BY <3>4, <3>5 DEF ActiveVersionShown
    <3>9. ComesBackByNumber /\ TakesItsPlace
      BY <2>1, <3>3, <3>6 DEF ComesBackByNumber, TakesItsPlace
    <3>10. QED
      BY <3>7, <3>8, <3>9 DEF LibraryInv
  <2>7. QED
    BY <2>5, <2>6
<1>7. CASE UNCHANGED libraryVars
  BY <1>7
  DEF libraryVars, LibraryInv, LibraryTypeOK, ActiveVersionShown, ComesBackByNumber, TakesItsPlace
<1>8. QED
  BY <1>2, <1>3, <1>4, <1>5, <1>6, <1>7 DEF LibraryNext

\* The version that the screen took for the active one is active or was rolled back unnoticed; what
\* becomes active by promotion or rollback replaces what was, so that only a registration makes a
\* second version active; and a version that was rolled back returns only by a promotion of its
\* number: skillManager, SkillsApp.
THEOREM VersionsAreHonest == LibrarySpec => VersionsHonest
<1>1. LibraryInit => LibraryInv
  BY LibraryAssumption DEF LibraryInit, LibraryInv, LibraryTypeOK, ActiveVersionShown
<1>2. LibraryInv /\ [LibraryNext]_libraryVars => LibraryInv'
  BY LibraryStep
<1>3. LibraryInv /\ [LibraryNext]_libraryVars
      => [\A i \in DOMAIN library :
          library[i].status = "ROLLED_BACK" /\ library'[i].status = "ACTIVE" =>
             candidate # None /\ library[candidate].number = library[i].number]_libraryVars
  BY LibraryStep DEF ComesBackByNumber
<1>4. LibraryInv /\ [LibraryNext]_libraryVars
      => [\A i \in DOMAIN library :
          library[i].status # "ACTIVE" /\ library'[i].status = "ACTIVE" =>
             /\ Active # None => library'[Active].status # "ACTIVE"
             /\ \A j \in DOMAIN library \ {i} :
                   library'[j].status = "ACTIVE" => library[j].status = "ACTIVE"]_libraryVars
  BY LibraryStep DEF TakesItsPlace
<1>5. LibraryInv => LibraryTypeOK /\ ActiveVersionShown
  BY DEF LibraryInv
<1>6. QED
  BY <1>1, <1>2, <1>3, <1>4, <1>5, PTL
  DEF LibrarySpec, VersionsHonest, NewcomerReplaces, RolledBackReturnsByNumber

-----------------------------------------------------------------------------
(* The trust of skills (SkillTrust). *)

\* What is added behind the others is not the first.
LEMMA FirstStays ==
  ASSUME NEW S, S \subseteq Nat, S # {}, NEW T, T \subseteq Nat, S \subseteq T,
         \A t \in T \ S : \A i \in S : i <= t
  PROVE  Earliest(T) = Earliest(S)
<1>1. Earliest(S) \in S /\ \A j \in S : Earliest(S) <= j
  BY EarliestIsFirst
<1>2. Earliest(S) \in T /\ \A j \in T : Earliest(S) <= j
  BY <1>1
<1>3. QED
  BY <1>2, EarliestIs

Manifest == [version : SkillVersion, trust : TrustState]

\* What a registration does: one manifest more at the end, the others where they were.
LEMMA RegisteredLast ==
  ASSUME TrustTypeOK, NEW s \in Skill, NEW v \in SkillVersion, NEW trust \in TrustState,
         Register(s, v, trust)
  PROVE  /\ TrustTypeOK'
         /\ \A q \in Skill :
               /\ \A i \in DOMAIN manifests[q] :
                     i \in DOMAIN manifests'[q] /\ manifests'[q][i] = manifests[q][i]
               /\ \A i \in DOMAIN manifests'[q] \ DOMAIN manifests[q] :
                     /\ \A j \in DOMAIN manifests[q] : j <= i
                     /\ manifests'[q][i].version = v
                     /\ manifests'[q][i].trust = trust
               /\ DOMAIN manifests[q] \subseteq Nat /\ DOMAIN manifests'[q] \subseteq Nat
<1> DEFINE filed == [version |-> v, trust |-> trust]
<1>1. filed \in Manifest /\ filed.version = v /\ filed.trust = trust
  BY DEF Manifest
<1>2. manifests' = [manifests EXCEPT ![s] = Append(manifests[s], filed)]
  BY DEF Register, Filed
<1> HIDE DEF filed
<1>3. manifests \in [Skill -> Seq(Manifest)]
  BY DEF TrustTypeOK, Manifest
<1>4. manifests' \in [Skill -> Seq(Manifest)]
  BY <1>1, <1>2, <1>3
<1>5. ASSUME NEW q \in Skill
      PROVE  /\ \A i \in DOMAIN manifests[q] :
                   i \in DOMAIN manifests'[q] /\ manifests'[q][i] = manifests[q][i]
             /\ \A i \in DOMAIN manifests'[q] \ DOMAIN manifests[q] :
                   (\A j \in DOMAIN manifests[q] : j <= i) /\ manifests'[q][i] = filed
             /\ DOMAIN manifests[q] \subseteq Nat /\ DOMAIN manifests'[q] \subseteq Nat
  <2>1. manifests[q] \in Seq(Manifest)
    BY <1>3
  <2>2. CASE q = s
    <3>1. manifests'[q] = Append(manifests[q], filed)
      BY <1>2, <1>3, <2>2
    <3>2. QED
      BY <1>1, <2>1, <3>1
  <2>3. CASE q # s
    <3>1. manifests'[q] = manifests[q]
      BY <1>2, <1>3, <2>3
    <3>2. QED
      BY <2>1, <3>1
  <2>4. QED
    BY <2>2, <2>3
<1>6. QED
  BY <1>1, <1>4, <1>5 DEF TrustTypeOK, Manifest

\* The first of several manifests is the same after an import, or it is the imported one, which is
\* not trusted.
LEMMA ImportUntrusted ==
  ASSUME TrustTypeOK, NEW s \in Skill, NEW v \in SkillVersion, Register(s, v, "UNTRUSTED"),
         NEW q \in Skill, NEW S, S \subseteq DOMAIN manifests[q],
         NEW T, T \subseteq DOMAIN manifests'[q], T \cap DOMAIN manifests[q] = S
  PROVE  T # {} /\ Trusted(manifests'[q][Earliest(T)].trust)
         <=> S # {} /\ Trusted(manifests[q][Earliest(S)].trust)
<1>1. /\ \A i \in DOMAIN manifests[q] :
            i \in DOMAIN manifests'[q] /\ manifests'[q][i] = manifests[q][i]
      /\ \A i \in DOMAIN manifests'[q] \ DOMAIN manifests[q] :
            /\ \A j \in DOMAIN manifests[q] : j <= i
            /\ manifests'[q][i].trust = "UNTRUSTED"
      /\ DOMAIN manifests[q] \subseteq Nat /\ DOMAIN manifests'[q] \subseteq Nat
  BY RegisteredLast DEF TrustState
<1>2. CASE S # {}
  <2>1. Earliest(T) = Earliest(S)
    BY <1>1, <1>2, FirstStays
  <2>2. Earliest(S) \in S
    BY <1>1, <1>2, EarliestIsFirst
  <2>3. manifests'[q][Earliest(S)] = manifests[q][Earliest(S)]
    BY <1>1, <2>2
  <2>4. QED
    BY <1>2, <2>1, <2>3
<1>3. CASE S = {} /\ T # {}
  <2>1. Earliest(T) \in T
    BY <1>1, <1>3, EarliestIsFirst
  <2>2. manifests'[q][Earliest(T)].trust = "UNTRUSTED"
    BY <1>1, <1>3, <2>1
  <2>3. QED
    BY <1>3, <2>2 DEF Trusted
<1>4. QED
  BY <1>2, <1>3

\* An imported manifest is filed as untrusted, behind any that was already there.
LEMMA ImportDecidesNothing ==
  ASSUME TrustTypeOK, NEW s \in Skill, NEW v \in SkillVersion, ImportManifest(s, v)
  PROVE  Executable' = Executable
<1>1. Register(s, v, "UNTRUSTED")
  BY DEF ImportManifest
<1>2. \A i, q : i \in DOMAIN manifests[q] /\ q \in Skill =>
         i \in DOMAIN manifests'[q] /\ manifests'[q][i] = manifests[q][i]
  BY <1>1, RegisteredLast DEF TrustState
<1>3. ASSUME NEW q \in Skill, NEW u \in SkillVersion
      PROVE  Of(q, u)' # {} /\ Trusted(manifests'[q][Earliest(Of(q, u)')].trust)
             <=> Of(q, u) # {} /\ Trusted(manifests[q][Earliest(Of(q, u))].trust)
  <2>1. /\ Of(q, u) \subseteq DOMAIN manifests[q] /\ Of(q, u)' \subseteq DOMAIN manifests'[q]
        /\ Of(q, u)' \cap DOMAIN manifests[q] = Of(q, u)
    BY <1>2 DEF Of
  <2>2. QED
    BY <1>1, <2>1, ImportUntrusted
<1>4. ASSUME NEW need \in Skill \X SkillVersion PROVE Met(need)' <=> Met(need)
  <2>1. need[1] \in Skill
    OBVIOUS
  <2>2. /\ Sufficient(need) \subseteq DOMAIN manifests[need[1]]
        /\ Sufficient(need)' \subseteq DOMAIN manifests'[need[1]]
        /\ Sufficient(need)' \cap DOMAIN manifests[need[1]] = Sufficient(need)
    BY <1>2, <2>1 DEF Sufficient
  <2>3. QED
    BY <1>1, <2>1, <2>2, ImportUntrusted DEF Met
<1>5. ASSUME NEW e \in Skill \X SkillVersion
      PROVE  ValidateSkillExecution(e[1], e[2], TRUE)' <=> ValidateSkillExecution(e[1], e[2], TRUE)
  <2>1. e[1] \in Skill /\ e[2] \in SkillVersion
    OBVIOUS
  <2>2. Needs[e[1]] \subseteq Skill \X SkillVersion
    BY <2>1, NeedsAssumption
  <2>3. QED
    BY <1>3, <1>4, <2>1, <2>2 DEF ValidateSkillExecution
<1>6. QED
  BY <1>5 DEF Executable

\* A version that is known keeps its trust, whatever is registered for it.
LEMMA KnownKeepTrust ==
  ASSUME TrustTypeOK, NEW s \in Skill, NEW v \in SkillVersion, NEW trust \in TrustState,
         RegisterAuthoritatively(s, v, trust), Of(s, v) # {}
  PROVE  TrustOf(s, v)' = TrustOf(s, v)
<1>1. /\ \A i \in DOMAIN manifests[s] :
            i \in DOMAIN manifests'[s] /\ manifests'[s][i] = manifests[s][i]
      /\ \A i \in DOMAIN manifests'[s] \ DOMAIN manifests[s] :
            \A j \in DOMAIN manifests[s] : j <= i
      /\ DOMAIN manifests[s] \subseteq Nat /\ DOMAIN manifests'[s] \subseteq Nat
  BY RegisteredLast DEF RegisterAuthoritatively
<1>2. /\ Of(s, v) \subseteq Of(s, v)' /\ Of(s, v) \subseteq Nat /\ Of(s, v)' \subseteq Nat
      /\ \A t \in Of(s, v)' \ Of(s, v) : \A i \in Of(s, v) : i <= t
  BY <1>1 DEF Of
<1>3. Earliest(Of(s, v)') = Earliest(Of(s, v)) /\ Earliest(Of(s, v)) \in Of(s, v)
  BY <1>2, FirstStays, EarliestIsFirst
<1>4. manifests'[s][Earliest(Of(s, v))] = manifests[s][Earliest(Of(s, v))]
  BY <1>1, <1>3 DEF Of
<1>5. QED
  BY <1>2, <1>3, <1>4 DEF TrustOf

\* Every operation keeps the types.
LEMMA TrustTypes == TrustTypeOK /\ [TrustNext]_manifests => TrustTypeOK'
<1> SUFFICES ASSUME TrustTypeOK, [TrustNext]_manifests PROVE TrustTypeOK'
  OBVIOUS
<1>1. ASSUME NEW s \in Skill, NEW v \in SkillVersion, NEW trust \in TrustState,
             Register(s, v, trust)
      PROVE  TrustTypeOK'
  BY <1>1, RegisteredLast
<1>2. ASSUME NEW s \in Skill, NEW v \in SkillVersion, NEW trust \in TrustState,
             SetSkillTrustState(s, v, trust)
      PROVE  TrustTypeOK'
  <2> DEFINE first == Earliest(Of(s, v))
             changed == [manifests[s][first] EXCEPT !.trust = trust]
  <2>1. manifests[s] \in Seq(Manifest)
    BY DEF TrustTypeOK, Manifest
  <2>2. Of(s, v) \subseteq DOMAIN manifests[s] /\ DOMAIN manifests[s] \subseteq Nat
    BY <2>1 DEF Of
  <2>3. first \in DOMAIN manifests[s]
    <3>1. Of(s, v) # {} /\ Of(s, v) \subseteq Nat
      BY <1>2, <2>2 DEF SetSkillTrustState
    <3>2. first \in Of(s, v)
      BY <3>1, EarliestIsFirst
    <3>3. QED
      BY <2>2, <3>2
  <2>4. changed \in Manifest
    <3>1. manifests[s][first] \in Manifest
      BY <2>1, <2>3
    <3>2. QED
      BY <3>1 DEF Manifest
  <2>5. manifests' = [manifests EXCEPT ![s] = [manifests[s] EXCEPT ![first] = changed]]
    BY <1>2 DEF SetSkillTrustState
  <2> HIDE DEF first, changed
  <2>6. [manifests[s] EXCEPT ![first] = changed] \in Seq(Manifest)
    BY <2>1, <2>3, <2>4
  <2>7. QED
    BY <2>5, <2>6 DEF TrustTypeOK, Manifest
<1>3. CASE UNCHANGED manifests
  BY <1>3 DEF TrustTypeOK
<1>4. QED
  BY <1>1, <1>2, <1>3 DEF TrustNext, ImportManifest, RegisterAuthoritatively, TrustState

\* An import never changes what may be executed, and registering a version again never changes its
\* trust: importManifest and registerAuthoritatively of trustedSkillEngine.
THEOREM RegistrationIsNoDecision == TrustSpec => RegistrationDecidesNothing
<1>1. TrustInit => TrustTypeOK
  BY DEF TrustInit, TrustTypeOK
<1>2. TrustTypeOK /\ [TrustNext]_manifests
      => [\A s \in Skill, v \in SkillVersion :
             /\ ImportManifest(s, v) => Executable' = Executable
             /\ \A trust \in TrustState :
                   RegisterAuthoritatively(s, v, trust) /\ Of(s, v) # {} =>
                      TrustOf(s, v)' = TrustOf(s, v)]_manifests
  BY ImportDecidesNothing, KnownKeepTrust
<1>3. QED
  BY <1>1, <1>2, TrustTypes, PTL DEF TrustSpec, RegistrationDecidesNothing

-----------------------------------------------------------------------------
(* Memories and facts (MemoryStore). *)

MemoryInv == MemoryTypeOK /\ VersionsAccounted

\* An entry passes only to what is trusted as much, and its version only grows.
Succeeds(m, book) ==
    entries[m] # None =>
        /\ book[m] # None
        /\ TrustRanks[book[m].trust] >= TrustRanks[entries[m].trust]
        /\ book[m].version >= entries[m].version

\* The ranks of the levels are numbers.
LEMMA RanksAreNumbers == \A trust \in Levels : TrustRanks[trust] \in Nat
BY MemoryAssumption DEF TrustRanks

\* A lifecycle changes nothing else.
LEMMA MarkedEntries ==
  ASSUME MemoryTypeOK, NEW m \in Memory, NEW lifecycle \in {"DELETED", "SUPERSEDED"}
  PROVE  /\ Marked(m, lifecycle) \in [Memory -> EntryRecord \cup {None}]
         /\ \A n \in Memory :
               /\ Marked(m, lifecycle)[n] = None <=> entries[n] = None
               /\ entries[n] # None => /\ Marked(m, lifecycle)[n].version = entries[n].version
                                       /\ Marked(m, lifecycle)[n].trust = entries[n].trust
BY MemoryAssumption DEF MemoryTypeOK, Marked, EntryRecord

\* What a record does to the entries of a book, which is the store or the store with a marked entry.
LEMMA RecordedEntries ==
  ASSUME MemoryInv, NEW m \in Memory, NEW trust \in Levels,
         NEW book \in [Memory -> EntryRecord \cup {None}],
         \A n \in Memory : /\ book[n] = None <=> entries[n] = None
                           /\ entries[n] # None => /\ book[n].version = entries[n].version
                                                   /\ book[n].trust = entries[n].trust,
         Record(book, m, trust)
  PROVE  /\ MemoryInv'
         /\ \A n \in Memory : Succeeds(n, entries')
<1>1. CASE MayWrite(book, m, trust)
  <2> DEFINE version == IF book[m] = None THEN 1 ELSE book[m].version + 1
  <2>1. version \in 1 .. MaxVersion /\ (entries[m] # None => version = entries[m].version + 1)
    BY <1>1, MemoryAssumption DEF Record, EntryRecord, MemoryInv, MemoryTypeOK
  <2>2. Entry(trust, version) \in EntryRecord
    BY <2>1 DEF Entry, EntryRecord
  <2>3. Entry(trust, version).trust = trust /\ Entry(trust, version).version = version
    BY DEF Entry
  <2>4. /\ entries' \in [Memory -> EntryRecord \cup {None}]
        /\ entries'[m] = Entry(trust, version)
        /\ \A n \in Memory \ {m} : entries'[n] = book[n]
        /\ sent' \subseteq sent \cup {<<m, version>>}
    <3>1. Written(book, m, trust) = [book EXCEPT ![m] = Entry(trust, version)]
      BY DEF Written
    <3>2. entries' = [book EXCEPT ![m] = Entry(trust, version)]
      BY <1>1, <3>1 DEF Record
    <3>3. Written(book, m, trust)[m].version = version
      BY <2>3, <3>1
    <3>4. sent' \subseteq sent \cup {<<m, version>>}
      BY <1>1, <3>3 DEF Record
    <3>5. QED
      BY <2>2, <3>2, <3>4
  <2> HIDE DEF version
  <2>5. Succeeds(m, entries')
    BY <1>1, <2>1, <2>2, <2>3, <2>4, MemoryAssumption DEF MayWrite, Succeeds, MemoryInv, MemoryTypeOK, EntryRecord
  <2>6. \A n \in Memory : Succeeds(n, entries')
    <3> SUFFICES ASSUME NEW n \in Memory \ {m} PROVE Succeeds(n, entries')
      BY <2>5
    <3>1. entries[n] # None => entries[n] \in EntryRecord
      BY DEF MemoryInv, MemoryTypeOK
    <3>2. QED
      BY <2>4, <3>1, RanksAreNumbers DEF Succeeds, EntryRecord
  <2>7. MemoryTypeOK'
    BY <2>1, <2>4 DEF Record, knowledge, MemoryInv, MemoryTypeOK
  <2>8. \A s \in sent' : entries'[s[1]] # None /\ s[2] <= entries'[s[1]].version
    <3>1. ASSUME NEW s \in sent PROVE entries'[s[1]] # None /\ s[2] <= entries'[s[1]].version
      <4>1. /\ s[1] \in Memory /\ s[2] \in Nat
            /\ entries[s[1]] # None /\ s[2] <= entries[s[1]].version
        BY <3>1 DEF MemoryInv, MemoryTypeOK, VersionsAccounted
      <4>2. entries[s[1]] \in EntryRecord
        BY <4>1 DEF MemoryInv, MemoryTypeOK
      <4>3. entries'[s[1]] # None /\ entries'[s[1]].version >= entries[s[1]].version
        BY <2>6, <4>1 DEF Succeeds
      <4>4. entries'[s[1]] \in EntryRecord
        BY <2>4, <4>1, <4>3
      <4>5. QED
        BY <4>1, <4>2, <4>3, <4>4 DEF EntryRecord
    <3>2. entries'[m] # None /\ version <= entries'[m].version
      BY <2>1, <2>2, <2>3, <2>4, MemoryAssumption
    <3>3. QED
      BY <2>4, <3>1, <3>2
  <2>9. VersionsAccounted'
    BY <2>8 DEF Record, knowledge, MemoryInv, VersionsAccounted, Brought
  <2>10. QED
    BY <2>6, <2>7, <2>9 DEF MemoryInv
<1>2. CASE ~MayWrite(book, m, trust)
  <2>1. entries' = book /\ sent' = sent /\ UNCHANGED <<connected, facts, corrections, restored>>
    BY <1>2 DEF Record, knowledge
  <2>2. \A n \in Memory : Succeeds(n, entries')
    <3> SUFFICES ASSUME NEW n \in Memory, entries[n] # None PROVE Succeeds(n, entries')
      BY DEF Succeeds
    <3>1. entries[n] \in EntryRecord
      BY DEF MemoryInv, MemoryTypeOK
    <3>2. entries[n].trust \in Levels /\ entries[n].version \in Nat
      BY <3>1 DEF EntryRecord
    <3>3. QED
      BY <2>1, <3>2, RanksAreNumbers DEF Succeeds
  <2>3. MemoryTypeOK'
    BY <2>1 DEF MemoryInv, MemoryTypeOK
  <2>4. \A s \in sent' : entries'[s[1]] # None /\ s[2] <= entries'[s[1]].version
    BY <2>1 DEF MemoryInv, MemoryTypeOK, VersionsAccounted
  <2>5. VersionsAccounted'
    BY <2>1, <2>4 DEF MemoryInv, VersionsAccounted, Brought
  <2>6. QED
    BY <2>2, <2>3, <2>5 DEF MemoryInv
<1>3. QED
  BY <1>1, <1>2

\* What leaves the entries alone leaves them as trusted as they were.
LEMMA UntouchedSucceed ==
  ASSUME MemoryInv, entries' = entries
  PROVE  \A n \in Memory : Succeeds(n, entries')
<1> SUFFICES ASSUME NEW n \in Memory, entries[n] # None PROVE Succeeds(n, entries')
  BY DEF Succeeds
<1>1. entries[n] \in EntryRecord
  BY DEF MemoryInv, MemoryTypeOK
<1>2. entries[n].trust \in Levels /\ entries[n].version \in Nat
  BY <1>1 DEF EntryRecord
<1>3. QED
  BY <1>2, RanksAreNumbers DEF Succeeds

\* What changes only the user's knowledge keeps what is said of the entries.
LEMMA KnowledgeStep ==
  ASSUME MemoryInv, UNCHANGED <<entries, sent>>, connected' \in BOOLEAN,
         facts' \in [Fact -> 0 .. MaxVersion], restored' \in [Fact -> 0 .. MaxVersion],
         corrections' \in [Fact -> 0 .. MaxVersion],
         \A f \in Fact : facts'[f] <= corrections'[f] + Brought(f)'
  PROVE  MemoryInv' /\ \A n \in Memory : Succeeds(n, entries')
BY UntouchedSucceed DEF MemoryInv, MemoryTypeOK, VersionsAccounted

\* Every operation of the two stores keeps the invariant, and no entry passes to what is trusted less.
LEMMA MemoryStep ==
  ASSUME MemoryInv, [MemoryNext]_memoryVars
  PROVE  MemoryInv' /\ \A n \in Memory : Succeeds(n, entries')
<1> DEFINE Kept == MemoryInv' /\ \A n \in Memory : Succeeds(n, entries')
<1>0. /\ facts \in [Fact -> 0 .. MaxVersion] /\ restored \in [Fact -> 0 .. MaxVersion]
      /\ corrections \in [Fact -> 0 .. MaxVersion] /\ connected \in BOOLEAN
      /\ \A f \in Fact : facts[f] <= corrections[f] + Brought(f)
  BY DEF MemoryInv, MemoryTypeOK, VersionsAccounted
<1>1. ASSUME NEW m \in Memory, NEW trust \in Levels, RecordMemory(m, trust) PROVE Kept
  <2>1. entries \in [Memory -> EntryRecord \cup {None}]
    BY DEF MemoryInv, MemoryTypeOK
  <2>2. QED
    BY <1>1, <2>1, RecordedEntries DEF RecordMemory
<1>2. ASSUME NEW m \in Memory, NEW trust \in Levels, NEW old \in Memory,
             SupersedeMemory(old, m, trust)
      PROVE  Kept
  <2> DEFINE book == Marked(old, "SUPERSEDED")
  <2>1. /\ book \in [Memory -> EntryRecord \cup {None}]
        /\ \A n \in Memory : /\ book[n] = None <=> entries[n] = None
                             /\ entries[n] # None => /\ book[n].version = entries[n].version
                                                     /\ book[n].trust = entries[n].trust
    BY MarkedEntries DEF MemoryInv
  <2>2. Record(book, m, trust)
    BY <1>2 DEF SupersedeMemory
  <2> HIDE DEF book
  <2>3. QED
    BY <2>1, <2>2, RecordedEntries
<1>3. ASSUME NEW m \in Memory, DeleteMemory(m) PROVE Kept
  <2>1. /\ entries' \in [Memory -> EntryRecord \cup {None}]
        /\ \A n \in Memory : /\ entries'[n] = None <=> entries[n] = None
                             /\ entries[n] # None => /\ entries'[n].version = entries[n].version
                                                     /\ entries'[n].trust = entries[n].trust
    BY <1>3, MarkedEntries DEF MemoryInv, DeleteMemory
  <2>2. UNCHANGED <<connected, sent, facts, corrections, restored>>
    BY <1>3 DEF DeleteMemory, knowledge
  <2>3. MemoryTypeOK'
    BY <2>1, <2>2 DEF MemoryInv, MemoryTypeOK
  <2>4. \A s \in sent' : entries'[s[1]] # None /\ s[2] <= entries'[s[1]].version
    BY <2>1, <2>2 DEF MemoryInv, MemoryTypeOK, VersionsAccounted
  <2>5. \A n \in Memory : Succeeds(n, entries')
    <3> SUFFICES ASSUME NEW n \in Memory, entries[n] # None PROVE Succeeds(n, entries')
      BY DEF Succeeds
    <3>1. entries[n] \in EntryRecord
      BY DEF MemoryInv, MemoryTypeOK
    <3>2. entries[n].trust \in Levels /\ entries[n].version \in Nat
      BY <3>1 DEF EntryRecord
    <3>3. QED
      BY <2>1, <3>2, RanksAreNumbers DEF Succeeds
  <2>6. QED
    BY <1>0, <2>2, <2>3, <2>4, <2>5 DEF MemoryInv, VersionsAccounted, Brought
<1>4. CASE LinkChanges
  BY <1>0, <1>4, KnowledgeStep DEF LinkChanges, knowledge, Brought
<1>5. ASSUME NEW f \in Fact, AddConfirmedFact(f) PROVE Kept
  BY <1>0, <1>5, KnowledgeStep, MemoryAssumption DEF AddConfirmedFact, Brought
<1>6. ASSUME NEW f \in Fact, CorrectFact(f) PROVE Kept
  BY <1>0, <1>6, KnowledgeStep, MemoryAssumption DEF CorrectFact, Brought
<1>7. ASSUME NEW f \in Fact, ForgetMemory(f) PROVE Kept
  BY <1>0, <1>7, KnowledgeStep, MemoryAssumption DEF ForgetMemory, Brought
<1>8. ASSUME NEW backup \in Backups, RestoreKnowledgeBackup(backup) PROVE Kept
  <2>1. /\ facts' = [f \in Fact |-> IF backup[f] > 0 THEN backup[f] ELSE facts[f]]
        /\ restored' = [f \in Fact |-> IF backup[f] > restored[f] THEN backup[f] ELSE restored[f]]
        /\ UNCHANGED <<entries, connected, sent, corrections>>
    BY <1>8 DEF RestoreKnowledgeBackup
  <2>2. \A f \in Fact : backup[f] \in 0 .. MaxVersion
    BY DEF Backups
  <2>3. \A f \in Fact : facts'[f] <= corrections'[f] + Brought(f)'
    BY <1>0, <2>1, <2>2, MemoryAssumption DEF Brought
  <2>4. facts' \in [Fact -> 0 .. MaxVersion] /\ restored' \in [Fact -> 0 .. MaxVersion]
    BY <1>0, <2>1, <2>2
  <2>5. QED
    BY <1>0, <2>1, <2>3, <2>4, KnowledgeStep
<1>9. CASE UNCHANGED memoryVars
  BY <1>0, <1>9, KnowledgeStep DEF memoryVars, Brought
<1>10. QED
  BY <1>1, <1>2, <1>3, <1>4, <1>5, <1>6, <1>7, <1>8, <1>9 DEF MemoryNext

\* What is remembered is overwritten only by what is trusted as much, with a version that grows; no
\* version was sent that is not there; and whatever versions a restore brings, the audit accounts for
\* those beyond: recordMemory, supersedeMemory, correctFact, restoreKnowledgeBackup.
THEOREM MemoryIsAccountable == MemorySpec => MemoryAccountable
<1>1. MemoryInit => MemoryInv
  BY MemoryAssumption
  DEF MemoryInit, MemoryInv, MemoryTypeOK, VersionsAccounted, Brought
<1>2. MemoryInv /\ [MemoryNext]_memoryVars => MemoryInv'
  BY MemoryStep
<1>3. MemoryInv /\ [MemoryNext]_memoryVars
      => [\A m \in Memory :
             entries[m] # None =>
                /\ entries'[m] # None
                /\ TrustRanks[entries'[m].trust] >= TrustRanks[entries[m].trust]
                /\ entries'[m].version >= entries[m].version]_memoryVars
  BY MemoryStep DEF Succeeds
<1>4. MemoryInv => MemoryTypeOK /\ VersionsAccounted
  BY DEF MemoryInv
<1>5. QED
  BY <1>1, <1>2, <1>3, <1>4, PTL DEF MemorySpec, MemoryAccountable

-----------------------------------------------------------------------------
(* Captures and the panel that owns them (MediaCapture). *)

PromptRecord ==
    [at : {"free", "asked", "live", "stopped"}, by : Controller \cup {None},
     generation : Nat \cup {None}]

ControllerRecord == [disposed : BOOLEAN, generation : Nat, stream : Prompt \cup {None}]

PanelRecord ==
    [mounts : 0 .. MaxMounts, mounted : BOOLEAN, hidden : BOOLEAN, frame : BOOLEAN, kind : Kind,
     state : {"idle", "requesting", "active", "denied", "unsupported"}]

LiveIsCurrent == \A p \in Prompt : prompts[p].at = "live" => prompts[p].by = Current

StreamsAreLive ==
    \A c \in Controller, p \in Prompt :
        controllers[c].stream = p => prompts[p].at = "live" /\ prompts[p].by = c

\* A prompt was asked by a controller that was mounted, in a generation that it had.
Dated(p) ==
    prompts[p].at # "free" =>
        /\ prompts[p].by \in 1 .. panel.mounts
        /\ prompts[p].generation \in Nat
        /\ prompts[p].generation <= controllers[prompts[p].by].generation

PromptsAreDated == \A p \in Prompt : Dated(p)

OldOnesAreDisposed ==
    /\ \A c \in 1 .. panel.mounts : controllers[c].disposed <=> ~(panel.mounted /\ c = Current)
    /\ \A c \in Controller : c > panel.mounts => ~controllers[c].disposed
    /\ panel.mounted => panel.mounts >= 1

\* A prompt whose answer will count.
Listening(p) == prompts[p].at = "asked" /\ Awaited(p)

ListenersRequest ==
    \A p \in Prompt : Listening(p) =>
        panel.mounted /\ ~panel.hidden /\ prompts[p].by = Current /\ panel.state = "requesting"

OneListener == \A p, q \in Prompt : Listening(p) /\ Listening(q) => p = q

CaptureInv ==
    /\ CaptureTypeOK /\ NoStrayTrack /\ PanelTruthful
    /\ LiveIsCurrent /\ StreamsAreLive /\ PromptsAreDated
    /\ OldOnesAreDisposed /\ ListenersRequest /\ OneListener

\* The type invariant, by the records it is made of.
LEMMA CaptureTypes ==
  CaptureTypeOK <=> /\ prompts \in [Prompt -> PromptRecord]
             /\ controllers \in [Controller -> ControllerRecord]
             /\ panel \in PanelRecord
BY DEF CaptureTypeOK, PromptRecord, ControllerRecord, PanelRecord

\* The mounted panel has a controller that is not disposed.
LEMMA CurrentController ==
  ASSUME CaptureInv, panel.mounted
  PROVE  Current \in Controller /\ Current \in 1 .. panel.mounts /\ ~controllers[Current].disposed
BY CaptureAssumption, CaptureTypes DEF CaptureInv, OldOnesAreDisposed, PanelRecord, Controller, Current

\* A step after which the prompt is what it was, or stopped, and does not run.
Quieted(p) ==
    /\ prompts'[p].at # "live"
    /\ prompts'[p].by = prompts[p].by
    /\ prompts'[p].generation = prompts[p].generation
    /\ prompts'[p].at \in {prompts[p].at, "stopped"}
    /\ prompts'[p].at # "free" => prompts[p].at # "free"

\* Whatever runs is stopped; nothing else about the prompts changes.
LEMMA SilencedPrompts ==
  ASSUME CaptureInv, panel.mounted
  PROVE  /\ Silenced(Current) \in [Prompt -> PromptRecord]
         /\ \A p \in Prompt :
               /\ Silenced(Current)[p].at # "live"
               /\ Silenced(Current)[p].by = prompts[p].by
               /\ Silenced(Current)[p].generation = prompts[p].generation
               /\ Silenced(Current)[p].at \in {prompts[p].at, "stopped"}
               /\ Silenced(Current)[p].at # "free" => prompts[p].at # "free"
<1>1. prompts \in [Prompt -> PromptRecord]
  BY CaptureTypes DEF CaptureInv
<1>2. \A p \in Prompt : prompts[p].at = "live" => controllers[Current].stream = p
  BY DEF CaptureInv, NoStrayTrack
<1>3. \A p \in Prompt : controllers[Current].stream = p => prompts[p].at = "live"
  BY CurrentController DEF CaptureInv, StreamsAreLive
<1>4. ASSUME NEW p \in Prompt
      PROVE  /\ Silenced(Current)[p] \in PromptRecord
             /\ Silenced(Current)[p].at # "live"
             /\ Silenced(Current)[p].by = prompts[p].by
             /\ Silenced(Current)[p].generation = prompts[p].generation
             /\ Silenced(Current)[p].at \in {prompts[p].at, "stopped"}
             /\ Silenced(Current)[p].at # "free" => prompts[p].at # "free"
  <2>1. prompts[p] \in PromptRecord
    BY <1>1
  <2>2. CASE p = controllers[Current].stream
    <3>1. Silenced(Current)[p] = [prompts[p] EXCEPT !.at = "stopped"]
      BY <2>2 DEF Silenced
    <3>2. prompts[p].at = "live"
      BY <1>3, <2>2
    <3>3. QED
      BY <2>1, <3>1, <3>2 DEF PromptRecord
  <2>3. CASE p # controllers[Current].stream
    <3>1. Silenced(Current)[p] = prompts[p]
      BY <2>3 DEF Silenced
    <3>2. QED
      BY <1>2, <2>1, <2>3, <3>1
  <2>4. QED
    BY <2>2, <2>3
<1>5. QED
  BY <1>4 DEF Silenced

\* What a new generation of the mounted controller does: no controller holds a stream, and the
\* answer to no earlier prompt counts any more.
LEMMA ReleasedParts ==
  ASSUME CaptureInv, panel.mounted, NEW disposed \in BOOLEAN,
         controllers' = [controllers EXCEPT ![Current] =
                            [disposed |-> disposed, generation |-> controllers[Current].generation + 1,
                             stream |-> None]],
         panel'.mounts = panel.mounts, panel'.mounted = ~disposed
  PROVE  /\ controllers' \in [Controller -> ControllerRecord]
         /\ controllers'[Current].generation = controllers[Current].generation + 1
         /\ controllers'[Current].disposed = disposed
         /\ \A c \in Controller, p \in Prompt : controllers'[c].stream # p
         /\ OldOnesAreDisposed'
         /\ \A p \in Prompt : Quieted(p) => Dated(p)' /\ ~Listening(p)'
<1> DEFINE released == [disposed |-> disposed, generation |-> controllers[Current].generation + 1,
                        stream |-> None]
<1>1. /\ Current \in Controller /\ Current \in 1 .. panel.mounts
      /\ controllers \in [Controller -> ControllerRecord] /\ panel \in PanelRecord
  BY CurrentController, CaptureTypes DEF CaptureInv
<1>2. controllers[Current].generation \in Nat
  BY <1>1 DEF ControllerRecord
<1>3. /\ released \in ControllerRecord /\ released.disposed = disposed /\ released.stream = None
      /\ released.generation = controllers[Current].generation + 1
  BY <1>2 DEF ControllerRecord
<1>4. controllers' = [controllers EXCEPT ![Current] = released]
  OBVIOUS
<1> HIDE DEF released
<1>5. /\ controllers' \in [Controller -> ControllerRecord]
      /\ controllers'[Current] = released
      /\ \A c \in Controller : c # Current => controllers'[c] = controllers[c]
  BY <1>1, <1>3, <1>4
<1>6. Current' = Current
  BY DEF Current
<1>7. ASSUME NEW c \in Controller, NEW p \in Prompt PROVE controllers'[c].stream # p
  <2>1. CASE c = Current
    BY CaptureAssumption, <1>3, <1>5, <2>1
  <2>2. CASE c # Current
    <3>1. controllers[c].stream # p
      BY <2>2 DEF CaptureInv, StreamsAreLive, LiveIsCurrent
    <3>2. QED
      BY <1>5, <2>2, <3>1
  <2>3. QED
    BY <2>1, <2>2
<1>8. OldOnesAreDisposed'
  BY CaptureAssumption, <1>1, <1>3, <1>5, <1>6
  DEF CaptureInv, OldOnesAreDisposed, Controller, PanelRecord, Current, ControllerRecord
<1>9. ASSUME NEW p \in Prompt, Quieted(p) PROVE Dated(p)'
  <2>1. SUFFICES ASSUME prompts'[p].at # "free"
                 PROVE  /\ prompts'[p].by \in 1 .. panel'.mounts
                        /\ prompts'[p].generation \in Nat
                        /\ prompts'[p].generation <= controllers'[prompts'[p].by].generation
    BY DEF Dated
  <2>2. /\ prompts[p].by \in 1 .. panel.mounts /\ prompts[p].generation \in Nat
        /\ prompts[p].generation <= controllers[prompts[p].by].generation
    BY <1>9, <2>1 DEF CaptureInv, PromptsAreDated, Quieted, Dated
  <2>3. prompts[p].by \in Controller
    BY CaptureAssumption, <1>1, <2>2 DEF Controller, PanelRecord
  <2>4. controllers'[prompts[p].by].generation >= controllers[prompts[p].by].generation
        /\ controllers[prompts[p].by].generation \in Nat
        /\ controllers'[prompts[p].by].generation \in Nat
    <3>1. controllers[prompts[p].by] \in ControllerRecord
      BY <1>1, <2>3
    <3>2. CASE prompts[p].by = Current
      BY <1>2, <1>3, <1>5, <3>2
    <3>3. CASE prompts[p].by # Current
      BY <1>5, <2>3, <3>1, <3>3 DEF ControllerRecord
    <3>4. QED
      BY <3>2, <3>3
  <2>5. QED
    BY <1>9, <2>2, <2>4 DEF Quieted
<1>10. ASSUME NEW p \in Prompt, Quieted(p), Listening(p)' PROVE FALSE
  <2>1. /\ prompts'[p].at = "asked" /\ ~controllers'[prompts'[p].by].disposed
        /\ controllers'[prompts'[p].by].generation = prompts'[p].generation
    BY <1>10 DEF Listening, Awaited
  <2>2. prompts[p].at = "asked" /\ prompts'[p].by = prompts[p].by
        /\ prompts'[p].generation = prompts[p].generation
    BY <1>10, <2>1 DEF Quieted
  <2>3. prompts[p].by \in Controller /\ prompts[p].generation <= controllers[prompts[p].by].generation
    BY CaptureAssumption, <1>1, <2>2 DEF CaptureInv, PromptsAreDated, Dated, Controller, PanelRecord
  <2>4. CASE prompts[p].by = Current
    BY <1>2, <1>3, <1>5, <2>1, <2>2, <2>3, <2>4
  <2>5. CASE prompts[p].by # Current
    <3>1. Listening(p)
      BY <1>5, <2>1, <2>2, <2>3, <2>5 DEF Listening, Awaited
    <3>2. QED
      BY <2>5, <3>1 DEF CaptureInv, ListenersRequest
  <2>6. QED
    BY <2>4, <2>5
<1>11. QED
  BY <1>3, <1>5, <1>7, <1>8, <1>9, <1>10

\* When the mounted controller is released nothing runs and no answer counts any more.
LEMMA ReleasedInv ==
  ASSUME CaptureInv, panel.mounted, NEW disposed \in BOOLEAN,
         prompts' = Silenced(Current),
         controllers' = [controllers EXCEPT ![Current] =
                            [disposed |-> disposed, generation |-> controllers[Current].generation + 1,
                             stream |-> None]],
         panel' \in PanelRecord, panel'.mounts = panel.mounts, panel'.mounted = ~disposed,
         panel'.mounted => panel'.state \notin {"active", "requesting"} /\ ~panel'.frame
  PROVE  CaptureInv'
<1>1. prompts' \in [Prompt -> PromptRecord] /\ \A p \in Prompt : Quieted(p)
  BY SilencedPrompts DEF Quieted
<1>2. /\ controllers' \in [Controller -> ControllerRecord]
      /\ \A c \in Controller, p \in Prompt : controllers'[c].stream # p
      /\ OldOnesAreDisposed'
      /\ \A p \in Prompt : Quieted(p) => Dated(p)' /\ ~Listening(p)'
  BY ReleasedParts
<1>3. CaptureTypeOK'
  BY <1>1, <1>2 DEF CaptureTypeOK, PromptRecord, ControllerRecord, PanelRecord, Controller
<1>4. \A p \in Prompt : prompts'[p].at # "live"
  BY <1>1 DEF Quieted
<1>5. NoStrayTrack' /\ LiveIsCurrent' /\ PanelTruthful'
  BY <1>4 DEF NoStrayTrack, LiveIsCurrent, PanelTruthful
<1>6. StreamsAreLive'
  BY <1>2 DEF StreamsAreLive, Controller
<1>7. PromptsAreDated' /\ ListenersRequest' /\ OneListener'
  BY <1>1, <1>2 DEF PromptsAreDated, ListenersRequest, OneListener
<1>8. QED
  BY <1>2, <1>3, <1>5, <1>6, <1>7 DEF CaptureInv

\* A controller is what its fields are.
LEMMA RecordIsItsFields ==
  ASSUME NEW r \in ControllerRecord
  PROVE  r = [disposed |-> r.disposed, generation |-> r.generation, stream |-> r.stream]
BY DEF ControllerRecord

\* A controller that lets go of its stream enters another generation.
LEMMA ReleasedRecord ==
  ASSUME CaptureInv, panel.mounted
  PROVE  /\ Released(Current) = [disposed |-> FALSE, generation |-> controllers[Current].generation + 1,
                                 stream |-> None]
         /\ [Released(Current) EXCEPT !.disposed = TRUE] =
                [disposed |-> TRUE, generation |-> controllers[Current].generation + 1, stream |-> None]
<1> DEFINE later == controllers[Current].generation + 1
<1>1. controllers[Current] \in ControllerRecord /\ ~controllers[Current].disposed
  BY CurrentController, CaptureTypes DEF CaptureInv
<1>2. controllers[Current].disposed = FALSE
  BY Zenon, <1>1 DEF ControllerRecord
<1>3. later \in Nat
  BY <1>1 DEF ControllerRecord
<1>4. Released(Current) = [controllers[Current] EXCEPT !.generation = later, !.stream = None]
  BY DEF Released
<1> HIDE DEF later
<1>5. /\ Released(Current) \in ControllerRecord
      /\ Released(Current).generation = later /\ Released(Current).stream = None
      /\ Released(Current).disposed = controllers[Current].disposed
  BY <1>1, <1>3, <1>4 DEF ControllerRecord
<1>6. Released(Current) = [disposed |-> FALSE, generation |-> later, stream |-> None]
  BY Zenon, <1>2, <1>5, RecordIsItsFields
<1> DEFINE released == Released(Current)
           left == [released EXCEPT !.disposed = TRUE]
<1>7. released \in ControllerRecord /\ released.generation = later /\ released.stream = None
  BY <1>5
<1> HIDE DEF released
<1>8. /\ left \in ControllerRecord /\ left.generation = later /\ left.stream = None
      /\ left.disposed = TRUE
  BY <1>7 DEF ControllerRecord
<1> HIDE DEF left
<1>9. left = [disposed |-> TRUE, generation |-> later, stream |-> None]
  BY Zenon, <1>8, RecordIsItsFields
<1>10. QED
  BY Zenon, <1>6, <1>9 DEF left, released, later

\* stop(), a hidden page, or a track that ended: the panel is idle.
LEMMA StoppedInv ==
  ASSUME CaptureInv, panel.mounted, StopController(Current),
         panel' \in PanelRecord, panel'.mounts = panel.mounts, panel'.mounted,
         panel'.state \notin {"active", "requesting"}, ~panel'.frame
  PROVE  CaptureInv'
<1>1. controllers' = [controllers EXCEPT ![Current] =
          [disposed |-> FALSE, generation |-> controllers[Current].generation + 1, stream |-> None]]
  BY ReleasedRecord DEF StopController
<1>2. prompts' = Silenced(Current) /\ FALSE \in BOOLEAN
  BY DEF StopController
<1>3. panel'.mounted = ~FALSE
  BY DEF PanelRecord
<1>4. QED
  BY <1>1, <1>2, <1>3, ReleasedInv

\* What the panel shows when nothing is captured.
LEMMA IdlePanel ==
  ASSUME CaptureInv, panel.mounted
  PROVE  /\ Shows("idle") \in PanelRecord /\ Shows("idle").mounts = panel.mounts
         /\ Shows("idle").mounted /\ Shows("idle").state = "idle" /\ ~Shows("idle").frame
         /\ [Shows("idle") EXCEPT !.hidden = TRUE] =
                [panel EXCEPT !.state = "idle", !.frame = FALSE, !.hidden = TRUE]
<1>1. panel \in PanelRecord
  BY CaptureTypes DEF CaptureInv
<1>2. Shows("idle") = [panel EXCEPT !.state = "idle", !.frame = FALSE]
  BY <1>1 DEF Shows
<1>3. QED
  BY <1>1, <1>2 DEF PanelRecord

\* The stop button keeps the invariant.
LEMMA StopInv ==
  ASSUME CaptureInv, Stop
  PROVE  CaptureInv'
BY IdlePanel, StoppedInv DEF Stop

\* Hiding the page keeps the invariant.
LEMMA HideInv ==
  ASSUME CaptureInv, Hide
  PROVE  CaptureInv'
<1>1. panel \in PanelRecord
  BY CaptureTypes DEF CaptureInv
<1>2. CASE panel.mounted
  <2>1. StopController(Current) /\ panel' = [Shows("idle") EXCEPT !.hidden = TRUE]
    BY <1>2 DEF Hide
  <2>2. panel' = [panel EXCEPT !.state = "idle", !.frame = FALSE, !.hidden = TRUE]
    BY <1>2, <2>1, IdlePanel
  <2>3. /\ panel' \in PanelRecord /\ panel'.mounts = panel.mounts /\ panel'.mounted
        /\ panel'.state = "idle" /\ ~panel'.frame
    BY <1>1, <1>2, <2>2 DEF PanelRecord
  <2>4. QED
    BY <1>2, <2>1, <2>3, StoppedInv
<1>3. CASE ~panel.mounted
  <2>1. panel' = [panel EXCEPT !.hidden = TRUE] /\ UNCHANGED <<prompts, controllers>>
    BY <1>3 DEF Hide
  <2>2. /\ panel' \in PanelRecord /\ panel'.mounts = panel.mounts /\ panel'.mounted = panel.mounted
        /\ panel'.state = panel.state /\ panel'.frame = panel.frame
    BY <1>1, <2>1 DEF PanelRecord
  <2>3. CaptureTypeOK'
    BY <2>1, <2>2 DEF CaptureInv, CaptureTypeOK, PanelRecord
  <2>4. \A p \in Prompt : ~Listening(p)
    BY <1>3 DEF CaptureInv, ListenersRequest
  <2>5. \A p \in Prompt : ~Listening(p)'
    BY <2>1, <2>4 DEF Listening, Awaited
  <2>6. NoStrayTrack' /\ PanelTruthful' /\ LiveIsCurrent' /\ StreamsAreLive'
    BY <1>3, <2>1, <2>2 DEF CaptureInv, NoStrayTrack, PanelTruthful, LiveIsCurrent, StreamsAreLive, Current
  <2>7. PromptsAreDated' /\ OldOnesAreDisposed'
    BY <2>1, <2>2 DEF CaptureInv, PromptsAreDated, Dated, OldOnesAreDisposed, Current
  <2>8. QED
    BY <2>3, <2>5, <2>6, <2>7 DEF CaptureInv, ListenersRequest, OneListener
<1>4. QED
  BY <1>2, <1>3

\* A track that runs is always the mounted controller's, so the end of it stops the controller.
LEMMA TrackEndsInv ==
  ASSUME CaptureInv, NEW p \in Prompt, TrackEnds(p)
  PROVE  CaptureInv'
<1>1. prompts[p].at = "live"
  BY DEF TrackEnds
<1>2. panel.mounted /\ prompts[p].by = Current /\ controllers[Current].stream = p
  BY <1>1 DEF CaptureInv, NoStrayTrack, LiveIsCurrent
<1>3. StopController(Current) /\ panel' = Shows("idle")
  BY <1>2 DEF TrackEnds
<1>4. QED
  BY <1>2, <1>3, IdlePanel, StoppedInv

\* Unmounting the panel keeps the invariant.
LEMMA UnmountInv ==
  ASSUME CaptureInv, Unmount
  PROVE  CaptureInv'
<1>1. controllers' = [controllers EXCEPT ![Current] =
          [disposed |-> TRUE, generation |-> controllers[Current].generation + 1, stream |-> None]]
  BY ReleasedRecord DEF Unmount
<1>2. /\ panel' \in PanelRecord /\ panel'.mounts = panel.mounts /\ panel'.mounted = ~TRUE
      /\ ~panel'.mounted
  BY CaptureTypes DEF Unmount, CaptureInv, PanelRecord
<1>3. TRUE \in BOOLEAN /\ panel.mounted /\ prompts' = Silenced(Current)
  BY DEF Unmount
<1>4. QED
  BY <1>1, <1>2, <1>3, ReleasedInv

\* Mounting the panel, with a controller of its own, keeps the invariant.
LEMMA MountInv ==
  ASSUME CaptureInv, Mount
  PROVE  CaptureInv'
<1>1. panel \in PanelRecord /\ ~panel.mounted /\ panel.mounts < MaxMounts
  BY CaptureTypes DEF Mount, CaptureInv
<1>2. /\ panel' = [panel EXCEPT !.mounts = @ + 1, !.mounted = TRUE, !.state = "idle", !.kind = "camera",
                               !.frame = FALSE]
      /\ UNCHANGED <<prompts, controllers>>
  BY DEF Mount
<1>3. /\ panel' \in PanelRecord /\ panel'.mounts = panel.mounts + 1 /\ panel.mounts \in Nat
      /\ panel'.mounted /\ panel'.state = "idle" /\ ~panel'.frame
  <2>1. panel.mounts + 1 \in 0 .. MaxMounts /\ panel.mounts \in Nat
    BY CaptureAssumption, <1>1 DEF PanelRecord
  <2> DEFINE mounts == panel.mounts + 1
  <2>2. panel' = [panel EXCEPT !.mounts = mounts, !.mounted = TRUE, !.state = "idle", !.kind = "camera",
                               !.frame = FALSE]
    BY <1>2
  <2>3. mounts \in 0 .. MaxMounts /\ "camera" \in Kind
    BY CaptureAssumption, <2>1
  <2> HIDE DEF mounts
  <2>4. /\ panel' \in PanelRecord /\ panel'.mounts = mounts
        /\ panel'.mounted /\ panel'.state = "idle" /\ ~panel'.frame
    BY <1>1, <2>2, <2>3 DEF PanelRecord
  <2>5. QED
    BY <2>1, <2>4 DEF mounts
<1>4. CaptureTypeOK'
  BY <1>2, <1>3 DEF CaptureInv, CaptureTypeOK, PanelRecord
<1>5. \A p \in Prompt : prompts'[p].at # "live"
  BY <1>1, <1>2 DEF CaptureInv, NoStrayTrack
<1>6. \A p \in Prompt : ~Listening(p)'
  BY <1>1, <1>2 DEF CaptureInv, ListenersRequest, Listening, Awaited
<1>7. NoStrayTrack' /\ LiveIsCurrent' /\ PanelTruthful'
  BY <1>3, <1>5 DEF NoStrayTrack, LiveIsCurrent, PanelTruthful
<1>8. StreamsAreLive'
  BY <1>2 DEF CaptureInv, StreamsAreLive, Controller
<1>9. PromptsAreDated'
  BY <1>2, <1>3 DEF CaptureInv, PromptsAreDated, Dated
<1>10. OldOnesAreDisposed'
  BY CaptureAssumption, <1>1, <1>2, <1>3 DEF CaptureInv, OldOnesAreDisposed, Current, Controller
<1>11. QED
  BY <1>4, <1>6, <1>7, <1>8, <1>9, <1>10 DEF CaptureInv, ListenersRequest, OneListener

\* A kind the browser has no interface for: what ran is stopped, and the panel says so.
LEMMA UnsupportedInv ==
  ASSUME CaptureInv, NEW p \in Prompt, NEW kind \in Kind, Start(p, kind), kind \notin Supported
  PROVE  CaptureInv'
<1>1. controllers' = [controllers EXCEPT ![Current] =
          [disposed |-> FALSE, generation |-> controllers[Current].generation + 1, stream |-> None]]
  BY ReleasedRecord DEF Start
<1>2. prompts' = Silenced(Current) /\ panel.mounted /\ FALSE \in BOOLEAN
  BY DEF Start
<1>3. panel \in PanelRecord
  BY CaptureTypes DEF CaptureInv
<1>4. Shows("unsupported") = [panel EXCEPT !.state = "unsupported", !.frame = FALSE]
  BY <1>3 DEF Shows
<1>5. panel' = [[panel EXCEPT !.state = "unsupported", !.frame = FALSE] EXCEPT !.kind = kind]
  BY <1>4 DEF Start
<1>6. /\ panel' \in PanelRecord /\ panel'.mounts = panel.mounts /\ panel'.mounted = panel.mounted
      /\ panel'.state = "unsupported" /\ ~panel'.frame
  BY <1>3, <1>5 DEF PanelRecord
<1>7. panel'.mounted = ~FALSE
  BY <1>2, <1>3, <1>6 DEF PanelRecord
<1>8. QED
  BY <1>1, <1>2, <1>6, <1>7, ReleasedInv

\* A new prompt is the only one whose answer counts: the start that opened it began a generation.
LEMMA AskedInv ==
  ASSUME CaptureInv, NEW p \in Prompt, NEW kind \in Kind, Start(p, kind), kind \in Supported
  PROVE  CaptureInv'
<1> DEFINE later == controllers[Current].generation + 1
           asked == [at |-> "asked", by |-> Current, generation |-> later]
<1>1. /\ panel.mounted /\ ~panel.hidden /\ panel \in PanelRecord
      /\ Current \in Controller /\ Current \in 1 .. panel.mounts
      /\ controllers \in [Controller -> ControllerRecord]
  BY CurrentController, CaptureTypes DEF Start, CaptureInv
<1>2. controllers' = [controllers EXCEPT ![Current] =
          [disposed |-> FALSE, generation |-> controllers[Current].generation + 1, stream |-> None]]
  BY ReleasedRecord DEF Start
<1>3. Released(Current).generation = later
  BY <1>1, ReleasedRecord
<1>4. later \in Nat
  BY <1>1 DEF ControllerRecord
<1>5. prompts' = [Silenced(Current) EXCEPT ![p] = asked]
  BY <1>3 DEF Start
<1> HIDE DEF later
<1>6. /\ asked \in PromptRecord /\ asked.at = "asked" /\ asked.by = Current
      /\ asked.generation = later
  BY <1>1, <1>4 DEF PromptRecord
<1> HIDE DEF asked
<1>7. /\ prompts' \in [Prompt -> PromptRecord] /\ prompts'[p] = asked
      /\ \A q \in Prompt : q # p => Quieted(q)
  BY <1>1, <1>5, <1>6, SilencedPrompts DEF Quieted
<1>8. panel' = [[panel EXCEPT !.state = "requesting", !.frame = FALSE] EXCEPT !.kind = kind]
  <2>1. Shows("requesting") = [panel EXCEPT !.state = "requesting", !.frame = FALSE]
    BY <1>1 DEF Shows
  <2>2. QED
    BY <2>1 DEF Start
<1>9. /\ panel' \in PanelRecord /\ panel'.mounts = panel.mounts /\ panel'.mounted = panel.mounted
      /\ panel'.hidden = panel.hidden /\ panel'.state = "requesting" /\ ~panel'.frame
  BY <1>1, <1>8 DEF PanelRecord
<1>10. /\ controllers' \in [Controller -> ControllerRecord]
       /\ controllers'[Current].generation = later /\ controllers'[Current].disposed = FALSE
       /\ \A c \in Controller, q \in Prompt : controllers'[c].stream # q
       /\ OldOnesAreDisposed'
       /\ \A q \in Prompt : Quieted(q) => Dated(q)' /\ ~Listening(q)'
  <2>1. panel'.mounted = ~FALSE /\ FALSE \in BOOLEAN
    BY <1>1, <1>9 DEF PanelRecord
  <2>2. QED
    BY <1>1, <1>2, <1>9, <2>1, ReleasedParts DEF later
<1>11. CaptureTypeOK'
  BY <1>7, <1>9, <1>10 DEF CaptureTypeOK, PromptRecord, ControllerRecord, PanelRecord, Controller
<1>12. \A q \in Prompt : prompts'[q].at # "live"
  BY <1>6, <1>7 DEF Quieted
<1>13. Listening(p)'
  BY <1>6, <1>7, <1>10 DEF Listening, Awaited
<1>14. NoStrayTrack' /\ LiveIsCurrent' /\ PanelTruthful'
  BY <1>9, <1>12, <1>13 DEF NoStrayTrack, LiveIsCurrent, PanelTruthful, Listening
<1>15. StreamsAreLive'
  BY <1>10 DEF StreamsAreLive, Controller
<1>16. PromptsAreDated'
  <2>1. Dated(p)'
    BY <1>1, <1>4, <1>6, <1>7, <1>9, <1>10 DEF Dated
  <2>2. QED
    BY <1>7, <1>10, <2>1 DEF PromptsAreDated
<1>17. \A q \in Prompt : Listening(q)' => q = p
  BY <1>7, <1>10
<1>18. prompts'[p].by = Current' /\ panel'.mounted /\ ~panel'.hidden
  BY <1>1, <1>6, <1>7, <1>9 DEF Current
<1>19. ListenersRequest' /\ OneListener'
  BY <1>9, <1>17, <1>18 DEF ListenersRequest, OneListener
<1>20. QED
  BY <1>10, <1>11, <1>14, <1>15, <1>16, <1>19 DEF CaptureInv

\* What an answer does to the other prompts: nothing.
LEMMA AnsweredPrompt ==
  ASSUME CaptureInv, NEW p \in Prompt, prompts[p].at = "asked", NEW at \in {"live", "stopped"},
         prompts' = [prompts EXCEPT ![p].at = at]
  PROVE  /\ prompts' \in [Prompt -> PromptRecord]
         /\ prompts'[p].at = at
         /\ \A q \in Prompt : q # p => prompts'[q] = prompts[q]
         /\ \A q \in Prompt : /\ prompts'[q].by = prompts[q].by
                              /\ prompts'[q].generation = prompts[q].generation
                              /\ prompts'[q].at # "free" => prompts[q].at # "free"
BY CaptureTypes DEF CaptureInv, PromptRecord

\* A prompt that is answered without its stream being kept.
LEMMA DroppedInv ==
  ASSUME CaptureInv, NEW p \in Prompt, prompts[p].at = "asked",
         prompts' = [prompts EXCEPT ![p].at = "stopped"], UNCHANGED controllers,
         panel' \in PanelRecord, panel'.mounts = panel.mounts, panel'.mounted = panel.mounted,
         panel'.hidden = panel.hidden,
         \/ panel' = panel /\ ~Awaited(p)
         \/ panel'.state = "denied" /\ ~panel'.frame /\ Awaited(p)
  PROVE  CaptureInv'
<1>1. /\ prompts' \in [Prompt -> PromptRecord] /\ prompts'[p].at = "stopped"
      /\ \A q \in Prompt : q # p => prompts'[q] = prompts[q]
      /\ \A q \in Prompt : /\ prompts'[q].by = prompts[q].by
                           /\ prompts'[q].generation = prompts[q].generation
                           /\ prompts'[q].at # "free" => prompts[q].at # "free"
  BY AnsweredPrompt
<1>2. CaptureTypeOK'
  BY <1>1, CaptureTypes DEF CaptureInv, CaptureTypeOK, PromptRecord, PanelRecord
<1>3. \A q \in Prompt : prompts'[q].at = "live" <=> prompts[q].at = "live"
  BY <1>1
<1>4. NoStrayTrack' /\ LiveIsCurrent'
  BY <1>1, <1>3 DEF CaptureInv, NoStrayTrack, LiveIsCurrent, Current
<1>5. StreamsAreLive'
  BY <1>1, <1>3 DEF CaptureInv, StreamsAreLive
<1>6. PromptsAreDated' /\ OldOnesAreDisposed'
  BY <1>1 DEF CaptureInv, PromptsAreDated, Dated, OldOnesAreDisposed, Current
<1>7. \A q \in Prompt : Listening(q)' <=> Listening(q) /\ q # p
  BY <1>1 DEF Listening, Awaited
<1>8. CASE panel' = panel /\ ~Awaited(p)
  <2>1. \A q \in Prompt : Listening(q)' <=> Listening(q)
    BY <1>7, <1>8 DEF Listening
  <2>2. PanelTruthful'
    BY <1>3, <1>8, <2>1 DEF CaptureInv, PanelTruthful, Listening
  <2>3. ListenersRequest' /\ OneListener'
    BY <1>1, <1>8, <2>1 DEF CaptureInv, ListenersRequest, OneListener, Current
  <2>4. QED
    BY <1>2, <1>4, <1>5, <1>6, <2>2, <2>3 DEF CaptureInv
<1>9. CASE panel'.state = "denied" /\ ~panel'.frame /\ Awaited(p)
  <2>1. Listening(p) /\ panel.state = "requesting" /\ panel.mounted
    BY <1>9 DEF Listening, CaptureInv, ListenersRequest
  <2>2. \A q \in Prompt : ~Listening(q)'
    BY <1>7, <2>1 DEF CaptureInv, OneListener
  <2>3. \A q \in Prompt : prompts'[q].at # "live"
    BY <1>3, <2>1 DEF CaptureInv, PanelTruthful
  <2>4. PanelTruthful'
    BY <1>9, <2>3 DEF PanelTruthful
  <2>5. QED
    BY <1>2, <1>4, <1>5, <1>6, <2>2, <2>4 DEF CaptureInv, ListenersRequest, OneListener
<1>10. QED
  BY <1>8, <1>9

\* A refused prompt keeps the invariant, whether it is waited for or not.
LEMMA DeniedInv ==
  ASSUME CaptureInv, NEW p \in Prompt, Denied(p)
  PROVE  CaptureInv'
<1>1. panel \in PanelRecord
  BY CaptureTypes DEF CaptureInv
<1>2. CASE Awaited(p)
  <2>1. panel' = [panel EXCEPT !.state = "denied", !.frame = FALSE]
    BY <1>1, <1>2 DEF Denied, Shows
  <2>2. /\ panel' \in PanelRecord /\ panel'.mounts = panel.mounts /\ panel'.mounted = panel.mounted
        /\ panel'.hidden = panel.hidden /\ panel'.state = "denied" /\ ~panel'.frame
    BY <1>1, <2>1 DEF PanelRecord
  <2>3. QED
    BY <1>2, <2>2, DroppedInv DEF Denied
<1>3. CASE ~Awaited(p)
  <2>1. panel' = panel
    BY <1>3 DEF Denied
  <2>2. QED
    BY <1>1, <1>3, <2>1, DroppedInv DEF Denied
<1>4. QED
  BY <1>2, <1>3

\* A stream that is waited for runs as the mounted controller's; any other is stopped at once.
LEMMA GrantedInv ==
  ASSUME CaptureInv, NEW p \in Prompt, Granted(p)
  PROVE  CaptureInv'
<1>1. /\ panel \in PanelRecord /\ controllers \in [Controller -> ControllerRecord]
      /\ prompts[p].at = "asked"
  BY CaptureTypes DEF CaptureInv, Granted
<1>2. CASE ~Awaited(p)
  BY <1>1, <1>2, DroppedInv DEF Granted
<1>3. CASE Awaited(p)
  <2>1. /\ prompts' = [prompts EXCEPT ![p].at = "live"]
        /\ controllers' = [controllers EXCEPT ![prompts[p].by].stream = p]
        /\ panel' = Shows("active")
    BY <1>3 DEF Granted
  <2>2. /\ Listening(p) /\ panel.mounted /\ ~panel.hidden /\ prompts[p].by = Current
        /\ panel.state = "requesting"
    BY <1>1, <1>3 DEF Listening, CaptureInv, ListenersRequest
  <2>3. Current \in Controller /\ Current \in 1 .. panel.mounts
    BY <2>2, CurrentController
  <2>4. /\ prompts' \in [Prompt -> PromptRecord] /\ prompts'[p].at = "live"
        /\ \A q \in Prompt : q # p => prompts'[q] = prompts[q]
        /\ \A q \in Prompt : /\ prompts'[q].by = prompts[q].by
                             /\ prompts'[q].generation = prompts[q].generation
                             /\ prompts'[q].at # "free" => prompts[q].at # "free"
    BY <1>1, <2>1, AnsweredPrompt
  <2>5. /\ controllers' \in [Controller -> ControllerRecord]
        /\ controllers'[Current].stream = p
        /\ \A c \in Controller : c # Current => controllers'[c] = controllers[c]
        /\ \A c \in Controller : /\ controllers'[c].generation = controllers[c].generation
                                 /\ controllers'[c].disposed = controllers[c].disposed
    BY <1>1, <2>1, <2>2, <2>3 DEF ControllerRecord
  <2>6. \A q \in Prompt : prompts[q].at # "live"
    BY <2>2 DEF CaptureInv, PanelTruthful
  <2>7. \A q \in Prompt : prompts'[q].at = "live" <=> q = p
    BY <2>4, <2>6
  <2>8. panel' = [panel EXCEPT !.state = "active", !.frame = panel.frame]
    BY <1>1, <2>1 DEF Shows, PanelRecord
  <2>9. /\ panel' \in PanelRecord /\ panel'.mounts = panel.mounts /\ panel'.mounted = panel.mounted
        /\ panel'.hidden = panel.hidden /\ panel'.state = "active" /\ panel'.frame = panel.frame
    BY <1>1, <2>8 DEF PanelRecord
  <2>10. ~panel'.frame
    BY <2>2, <2>9 DEF CaptureInv, PanelTruthful
  <2>11. CaptureTypeOK'
    BY <2>4, <2>5, <2>9 DEF CaptureTypeOK, PromptRecord, ControllerRecord, PanelRecord, Controller
  <2>12. NoStrayTrack' /\ LiveIsCurrent' /\ PanelTruthful'
    BY <2>2, <2>4, <2>5, <2>7, <2>9, <2>10 DEF NoStrayTrack, LiveIsCurrent, PanelTruthful, Current
  <2>13. StreamsAreLive'
    <3>1. ASSUME NEW c \in Controller, NEW q \in Prompt, controllers'[c].stream = q
          PROVE  c = Current /\ q = p
      BY <2>5, <2>6, <3>1 DEF CaptureInv, StreamsAreLive
    <3>2. QED
      BY <2>2, <2>4, <3>1 DEF StreamsAreLive, Controller
  <2>14. PromptsAreDated'
    <3>1. ASSUME NEW q \in Prompt PROVE Dated(q)'
      <4>1. prompts[q].by \in 1 .. panel.mounts => prompts[q].by \in Controller
        BY CaptureAssumption, <1>1 DEF Controller, PanelRecord
      <4>2. QED
        BY <2>4, <2>5, <2>9, <4>1 DEF CaptureInv, PromptsAreDated, Dated
    <3>2. QED
      BY <3>1 DEF PromptsAreDated
  <2>15. OldOnesAreDisposed'
    BY CaptureAssumption, <1>1, <2>5, <2>9 DEF CaptureInv, OldOnesAreDisposed, Current, Controller, PanelRecord
  <2>16. \A q \in Prompt : ~Listening(q)'
    <3>1. ASSUME NEW q \in Prompt, Listening(q)' PROVE FALSE
      <4>1. q # p /\ prompts'[q] = prompts[q] /\ prompts[q].at = "asked"
        BY <2>4, <3>1 DEF Listening
      <4>2. prompts[q].by \in Controller
        BY CaptureAssumption, <1>1, <4>1 DEF CaptureInv, PromptsAreDated, Dated, Controller, PanelRecord
      <4>3. Listening(q)
        BY <2>5, <3>1, <4>1, <4>2 DEF Listening, Awaited
      <4>4. QED
        BY <2>2, <4>1, <4>3 DEF CaptureInv, OneListener
    <3>2. QED
      BY <3>1
  <2>17. QED
    BY <2>11, <2>12, <2>13, <2>14, <2>15, <2>16 DEF CaptureInv, ListenersRequest, OneListener
<1>4. QED
  BY <1>2, <1>3

\* Showing the page again keeps the invariant.
LEMMA RevealInv ==
  ASSUME CaptureInv, Reveal
  PROVE  CaptureInv'
<1>1. panel \in PanelRecord
  BY CaptureTypes DEF CaptureInv
<1>2. panel' = [panel EXCEPT !.hidden = FALSE] /\ UNCHANGED <<prompts, controllers>>
  BY DEF Reveal
<1>3. /\ panel' \in PanelRecord /\ panel'.mounts = panel.mounts /\ panel'.mounted = panel.mounted
      /\ panel'.state = panel.state /\ panel'.frame = panel.frame /\ panel'.kind = panel.kind
      /\ ~panel'.hidden /\ Current' = Current
  BY <1>1, <1>2 DEF PanelRecord, Current
<1>4. CaptureTypeOK'
  BY <1>2, <1>3 DEF CaptureInv, CaptureTypeOK, PanelRecord
<1>5. \A p \in Prompt : /\ prompts'[p] = prompts[p] /\ Awaited(p)' = Awaited(p)
                        /\ Listening(p)' = Listening(p)
  BY <1>2 DEF Listening, Awaited
<1>6. NoStrayTrack' /\ LiveIsCurrent' /\ StreamsAreLive' /\ PromptsAreDated' /\ OldOnesAreDisposed'
  BY <1>2, <1>3
  DEF CaptureInv, NoStrayTrack, LiveIsCurrent, StreamsAreLive, PromptsAreDated, Dated, OldOnesAreDisposed
<1>7. PanelTruthful' /\ ListenersRequest' /\ OneListener'
  BY <1>2, <1>3, <1>5 DEF CaptureInv, PanelTruthful, ListenersRequest, OneListener
<1>8. QED
  BY <1>4, <1>6, <1>7 DEF CaptureInv

\* A snapshot keeps the invariant.
LEMMA SnapshotInv ==
  ASSUME CaptureInv, Snapshot
  PROVE  CaptureInv'
<1>1. panel \in PanelRecord /\ panel.state = "active" /\ panel.kind # "microphone"
  BY CaptureTypes DEF CaptureInv, Snapshot
<1>2. panel' = [panel EXCEPT !.frame = TRUE] /\ UNCHANGED <<prompts, controllers>>
  BY DEF Snapshot
<1>3. /\ panel' \in PanelRecord /\ panel'.mounts = panel.mounts /\ panel'.mounted = panel.mounted
      /\ panel'.state = panel.state /\ panel'.kind = panel.kind /\ panel'.hidden = panel.hidden
      /\ Current' = Current
  BY <1>1, <1>2 DEF PanelRecord, Current
<1>4. CaptureTypeOK'
  BY <1>2, <1>3 DEF CaptureInv, CaptureTypeOK, PanelRecord
<1>5. \A p \in Prompt : /\ prompts'[p] = prompts[p] /\ Awaited(p)' = Awaited(p)
                        /\ Listening(p)' = Listening(p)
  BY <1>2 DEF Listening, Awaited
<1>6. NoStrayTrack' /\ LiveIsCurrent' /\ StreamsAreLive' /\ PromptsAreDated' /\ OldOnesAreDisposed'
  BY <1>2, <1>3
  DEF CaptureInv, NoStrayTrack, LiveIsCurrent, StreamsAreLive, PromptsAreDated, Dated, OldOnesAreDisposed
<1>7. PanelTruthful' /\ ListenersRequest' /\ OneListener'
  BY <1>1, <1>2, <1>3, <1>5 DEF CaptureInv, PanelTruthful, ListenersRequest, OneListener
<1>8. QED
  BY <1>4, <1>6, <1>7 DEF CaptureInv

\* The invariant holds before anything is mounted.
LEMMA InitialInv ==
  ASSUME CaptureInit
  PROVE  CaptureInv
<1>1. CaptureTypeOK
  BY CaptureAssumption DEF CaptureInit, CaptureTypeOK, Unasked
<1>2. \A p \in Prompt : prompts[p].at = "free" /\ ~Listening(p)
  BY DEF CaptureInit, Unasked, Listening
<1>3. \A c \in Controller, p \in Prompt : controllers[c].stream # p
  BY CaptureAssumption DEF CaptureInit
<1>4. /\ panel.mounts = 0 /\ ~panel.mounted
      /\ \A c \in Controller : ~controllers[c].disposed
  BY DEF CaptureInit
<1>5. OldOnesAreDisposed
  BY <1>4 DEF OldOnesAreDisposed, Controller
<1>6. QED
  BY <1>1, <1>2, <1>3, <1>4, <1>5
  DEF CaptureInv, NoStrayTrack, PanelTruthful, LiveIsCurrent, StreamsAreLive, PromptsAreDated, Dated,
      ListenersRequest, OneListener

\* Every step of panel, controllers and browser keeps the invariant.
LEMMA CaptureStep ==
  ASSUME CaptureInv, [CaptureNext]_captureVars
  PROVE  CaptureInv'
<1>1. CASE Mount
  BY <1>1, MountInv
<1>2. CASE Unmount
  BY <1>2, UnmountInv
<1>3. CASE Stop
  BY <1>3, StopInv
<1>4. CASE Hide
  BY <1>4, HideInv
<1>5. CASE Reveal
  BY <1>5, RevealInv
<1>6. CASE Snapshot
  BY <1>6, SnapshotInv
<1>7. CASE \E p \in Prompt, kind \in Kind : Start(p, kind)
  BY <1>7, UnsupportedInv, AskedInv
<1>8. CASE \E p \in Prompt : Granted(p)
  BY <1>8, GrantedInv
<1>9. CASE \E p \in Prompt : Denied(p)
  BY <1>9, DeniedInv
<1>10. CASE \E p \in Prompt : TrackEnds(p)
  BY <1>10, TrackEndsInv
<1>11. CASE UNCHANGED captureVars
  BY <1>11
  DEF captureVars, CaptureInv, CaptureTypeOK, NoStrayTrack, PanelTruthful, LiveIsCurrent, StreamsAreLive,
      PromptsAreDated, Dated, OldOnesAreDisposed, ListenersRequest, OneListener, Listening, Awaited,
      Current
<1>12. QED
  BY <1>1, <1>2, <1>3, <1>4, <1>5, <1>6, <1>7, <1>8, <1>9, <1>10, <1>11 DEF CaptureNext

\* However late the browser's prompts are answered, whatever camera, screen or microphone runs is the
\* stream the mounted panel can stop, on a visible page, and the panel shows what is captured
\* (mediaCapture.ts start, stop and dispose).
THEOREM CaptureStaysUnderControl ==
  CaptureSpec => []CaptureUnderControl
<1>1. CaptureInit => CaptureInv
  BY InitialInv
<1>2. CaptureInv /\ [CaptureNext]_captureVars => CaptureInv'
  BY CaptureStep
<1>3. CaptureInv => CaptureUnderControl
  BY DEF CaptureInv, CaptureUnderControl
<1>4. QED
  BY <1>1, <1>2, <1>3, PTL DEF CaptureSpec

-----------------------------------------------------------------------------
(* Desktop control (DesktopVision). *)

\* An elevation was asked for after the last emergency stop.
ElevatedSinceStop == expires # None => stops.before = stops.all

\* Every operation of the engine keeps both: only a stop makes an elevation older, and it drops it.
LEMMA VisionInductive ==
  VisionTypeOK /\ ElevatedSinceStop /\ [VisionNext]_visionVars => VisionTypeOK' /\ ElevatedSinceStop'
<1> SUFFICES ASSUME VisionTypeOK, ElevatedSinceStop, [VisionNext]_visionVars
             PROVE  VisionTypeOK' /\ ElevatedSinceStop'
  OBVIOUS
<1> USE VisionAssumption DEF VisionTypeOK, ElevatedSinceStop
<1>1. ASSUME NEW windows \in SUBSET Window, NEW invoice \in BOOLEAN, CaptureFrame(windows, invoice)
      PROVE  VisionTypeOK' /\ ElevatedSinceStop'
  BY <1>1 DEF CaptureFrame, Suggested
<1>2. CASE TriggerEmergencyStop
  BY <1>2 DEF TriggerEmergencyStop, Dropped
<1>3. CASE ResetEmergencyStop
  BY <1>3 DEF ResetEmergencyStop
<1>4. ASSUME NEW duration \in Duration, ElevatePrivileges(duration)
      PROVE  VisionTypeOK' /\ ElevatedSinceStop'
  BY <1>4 DEF ElevatePrivileges
<1>5. CASE DropPrivileges
  BY <1>5 DEF DropPrivileges
<1>6. ASSUME NEW root \in BOOLEAN, ExecuteControlAction(root)
      PROVE  VisionTypeOK' /\ ElevatedSinceStop'
  <2>1. expires' \in {expires, None}
    BY <1>6 DEF ExecuteControlAction, Elevation
  <2>2. log' \in Seq([root : BOOLEAN, status : {"EXECUTED", "BLOCKED_EMERGENCY_STOP"}])
    <3>1. \A status \in {"EXECUTED", "BLOCKED_EMERGENCY_STOP"} :
             Logged(root, status) \in Seq([root : BOOLEAN, status : {"EXECUTED", "BLOCKED_EMERGENCY_STOP"}])
      BY DEF Logged
    <3>2. log' = log \/ \E status \in {"EXECUTED", "BLOCKED_EMERGENCY_STOP"} : log' = Logged(root, status)
      BY <1>6 DEF ExecuteControlAction
    <3>3. QED
      BY <3>1, <3>2
  <2>3. QED
    BY <1>6, <2>1, <2>2 DEF ExecuteControlAction
<1>7. CASE ClockTicks
  BY <1>7 DEF ClockTicks
<1>8. CASE UNCHANGED visionVars
  BY <1>8 DEF visionVars
<1>9. QED
  BY <1>1, <1>2, <1>3, <1>4, <1>5, <1>6, <1>7, <1>8 DEF VisionNext

\* What a step adds to the log as executed with root privileges was executed under an elevation that
\* holds.
LEMMA RootStepsElevated ==
  ASSUME VisionTypeOK, ElevatedSinceStop, [VisionNext]_visionVars,
         NEW i \in DOMAIN log' \ DOMAIN log, log'[i].root, log'[i].status = "EXECUTED"
  PROVE  ~stopped /\ expires # None /\ clock <= expires /\ stops.before = stops.all
<1>0. log' # log
  OBVIOUS
<1>1. PICK root \in BOOLEAN : ExecuteControlAction(root)
  BY <1>0 DEF VisionNext, visionVars, CaptureFrame, TriggerEmergencyStop, ResetEmergencyStop,
         ElevatePrivileges, DropPrivileges, ClockTicks
<1>2. ASSUME NEW status, log' = Logged(root, status) PROVE log'[i] = [root |-> root, status |-> status]
  BY <1>2 DEF Logged, VisionTypeOK
<1>3. ~stopped /\ root /\ Elevation # None
  BY <1>1, <1>2 DEF ExecuteControlAction
<1>4. QED
  BY <1>3 DEF Elevation, Expired, VisionTypeOK, ElevatedSinceStop

\* Nothing is executed with root privileges but under an elevation that has not expired and was asked
\* for after the last emergency stop: executeControlAction, whatever was clicked in between.
THEOREM RootIsElevated == VisionSpec => RootNeedsFreshElevation
<1>1. ASSUME VisionInit PROVE VisionTypeOK /\ ElevatedSinceStop
  <2>1. clock \in 0 .. MaxClock
    BY <1>1, VisionAssumption DEF VisionInit
  <2>2. log \in Seq([root : BOOLEAN, status : {"EXECUTED", "BLOCKED_EMERGENCY_STOP"}])
    BY <1>1 DEF VisionInit
  <2>3. stops \in [all : Nat, before : Nat] /\ stops.before = stops.all
    BY <1>1 DEF VisionInit
  <2>4. QED
    BY <1>1, <2>1, <2>2, <2>3 DEF VisionInit, VisionTypeOK, ElevatedSinceStop
<1>2. VisionTypeOK /\ ElevatedSinceStop /\ [VisionNext]_visionVars
      => [\A i \in DOMAIN log' \ DOMAIN log :
             log'[i].root /\ log'[i].status = "EXECUTED" =>
                ~stopped /\ expires # None /\ clock <= expires /\ stops.before = stops.all]_visionVars
  BY RootStepsElevated
<1>3. QED
  BY <1>1, <1>2, VisionInductive, PTL DEF VisionSpec, RootNeedsFreshElevation

-----------------------------------------------------------------------------
(* The observations on the status panel (KingdomReads). *)

Observation == [state : {"observed", "unsupported", "stale", "unavailable"},
                taken : Nat \cup {None}, opened : Nat \cup {None}, received : Nat \cup {None}]

RefreshRecord ==
    [at : {"asked", "answered", "opened", "received"}, sent : Nat \cup {None}, fresh : BOOLEAN, got : Observation]

ReadsTypeOK ==
    /\ path \in Paths /\ now \in Nat /\ sample \in Nat /\ online \in BOOLEAN
    /\ refreshes \in [Refresh -> RefreshRecord \cup {None}]
    /\ view \in [held : Observation, current : BOOLEAN, rendered : Nat]

\* An observation was no older when the headers came than its age at the proxy and the fetch allow.
OpenedInTime(observation) ==
    /\ observation.opened \in Nat
    /\ path # "hierarchy" =>
          /\ observation.taken \in Nat
          /\ observation.opened - observation.taken <= RecentLimit + FetchLimit

\* What was received came after its headers, which came in time.
ReceivedFresh(observation) ==
    observation.state = "observed" /\ observation.received # None
    => OpenedInTime(observation) /\ observation.opened <= observation.received

\* What the proxy answered was no older than it may be when the fetch began.
AnsweredFresh(refresh) ==
    /\ refresh.at = "answered" /\ path # "hierarchy" /\ refresh.got.state = "observed"
    => /\ refresh.got.taken \in Nat
       /\ refresh.sent - refresh.got.taken <= RecentLimit

\* While the body is read the headers have come.
OpenedFresh(refresh) ==
    refresh.at = "opened" /\ refresh.got.state = "observed"
    => OpenedInTime(refresh.got) /\ refresh.got.opened <= now

\* The abort timer runs, since the refresh was sent, until the headers come.
SentBefore(refresh) ==
    refresh.at \in {"asked", "answered"} => refresh.sent \in Nat /\ refresh.sent <= now

RefreshesFresh ==
    \A r \in Refresh : refreshes[r] # None =>
        /\ SentBefore(refreshes[r])
        /\ refreshes[r].at # "received" => refreshes[r].got.received = None
        /\ AnsweredFresh(refreshes[r])
        /\ OpenedFresh(refreshes[r])
        /\ ReceivedFresh(refreshes[r].got)

\* What was rendered as current was received within its limit, and rendering is on time.
RenderedFresh ==
    /\ ReceivedFresh(view.held)
    /\ view.rendered <= now /\ now - view.rendered <= Interval
    /\ view.current =>
          /\ online /\ view.held.state = "observed" /\ view.held.received # None
          /\ view.rendered - view.held.received <= CurrentLimit

ReadsInv == ReadsTypeOK /\ RefreshesFresh /\ RenderedFresh

\* The ages add up: at the proxy and in the fetch; at the rendering and since.
LEMMA FreshEnough == ReadsInv => CurrentIsFresh
<1> SUFFICES ASSUME ReadsInv, view.current PROVE CurrentIsFresh
  BY DEF CurrentIsFresh
<1> DEFINE received == view.held.received
           rendered == view.rendered
<1>1. /\ online /\ OpenedInTime(view.held) /\ view.held.opened <= received
      /\ rendered - received <= CurrentLimit /\ now - rendered <= Interval
  BY DEF ReadsInv, RenderedFresh, ReceivedFresh
<1>2. received \in Nat /\ rendered \in Nat /\ now \in Nat
  BY DEF ReadsInv, RenderedFresh, ReadsTypeOK, Observation
<1> HIDE DEF rendered, received
<1>3. now - received <= CurrentLimit + Interval
  BY <1>1, <1>2, LimitsAssumption
<1>4. QED
  BY <1>1, <1>3 DEF CurrentIsFresh, OpenedInTime, received

\* Nothing is received in what has not been seen.
LEMMA UnseenTypes ==
  \A state \in {"unsupported", "stale", "unavailable", "observed"} :
     /\ Unseen(state) \in Observation
     /\ Unseen(state).received = None
     /\ Unseen(state).state = state
BY DEF Unseen, Observation

\* What is shown of a Kingdom that does not answer.
LEMMA UnavailableTypes ==
  Unavailable \in Observation /\ Unavailable.received = None /\ Unavailable.state = "unavailable"
BY UnseenTypes DEF Unavailable

\* What the proxy makes of Kingdom's answer is not older than it may be.
LEMMA SummariesFresh ==
  ASSUME ReadsTypeOK, NEW summary \in Summaries \cup {Unavailable}
  PROVE  /\ summary \in Observation /\ summary.received = None
         /\ path # "hierarchy" /\ summary.state = "observed" =>
               summary.taken \in Nat /\ now - summary.taken <= RecentLimit
<1>1. CASE summary = Unavailable
  BY <1>1, UnavailableTypes
<1>2. CASE path = "hierarchy" /\ summary \in Summaries
  BY <1>2, UnseenTypes, UnavailableTypes DEF Summaries, Peers
<1>3. CASE path # "hierarchy" /\ summary \in Summaries
  <2>1. PICK state \in {"observed", "unsupported", "other"}, dated \in BOOLEAN :
          summary = Timed(state, dated)
    BY <1>3 DEF Summaries
  <2>2. CASE summary = [Unseen("observed") EXCEPT !.taken = sample] /\ Recent(sample)
    BY <2>2, UnseenTypes DEF Recent, ReadsTypeOK, Observation
  <2>3. CASE summary \in {Unseen("unsupported"), Unavailable, Unseen("stale")}
    BY <2>3, UnseenTypes, UnavailableTypes
  <2>4. QED
    BY <2>1, <2>2, <2>3 DEF Timed
<1>4. QED
  BY <1>1, <1>2, <1>3

\* Rendering what was received in time.
LEMMA RenderedHolds ==
  ASSUME ReadsInv, NEW held \in Observation, ReceivedFresh(held),
         view' = Rendered(held), UNCHANGED <<path, now, online>>
  PROVE  RenderedFresh' /\ view' \in [held : Observation, current : BOOLEAN, rendered : Nat]
<1> DEFINE current == /\ online /\ held.state = "observed" /\ held.received # None
                      /\ now - held.received <= CurrentLimit
<1>1. view.held \in Observation /\ view \in [held : Observation, current : BOOLEAN, rendered : Nat]
      /\ now \in Nat /\ online \in BOOLEAN
  BY DEF ReadsInv, ReadsTypeOK
<1>2. view' = [view EXCEPT !.held = held, !.rendered = now, !.current = current]
  BY DEF Rendered
<1>3. current \in BOOLEAN
  BY <1>1 DEF Observation
<1> HIDE DEF current
<1>4. /\ view' \in [held : Observation, current : BOOLEAN, rendered : Nat]
      /\ view'.held = held /\ view'.rendered = now
  BY <1>1, <1>2, <1>3
<1>5. view'.current = current
  BY <1>1, <1>2
<1>6. now - now = 0 /\ now <= now
  BY <1>1
<1>7. RenderedFresh'
  BY <1>4, <1>5, <1>6, LimitsAssumption DEF RenderedFresh, ReceivedFresh, OpenedInTime, current
<1>8. QED
  BY <1>4, <1>7

\* A step that changes one refresh and neither time nor view.
LEMMA OneRefresh ==
  ASSUME ReadsInv, NEW r \in Refresh, NEW refresh \in RefreshRecord \cup {None},
         refreshes' = [refreshes EXCEPT ![r] = refresh],
         UNCHANGED <<path, now, sample, online>>,
         refresh # None =>
            /\ SentBefore(refresh)
            /\ refresh.at # "received" => refresh.got.received = None
            /\ AnsweredFresh(refresh)
            /\ OpenedFresh(refresh)
            /\ ReceivedFresh(refresh.got),
         RenderedFresh', view' \in [held : Observation, current : BOOLEAN, rendered : Nat]
  PROVE  ReadsInv'
<1>1. ReadsTypeOK'
  BY DEF ReadsInv, ReadsTypeOK
<1>2. ASSUME NEW q \in Refresh, refreshes'[q] # None
      PROVE  /\ SentBefore(refreshes'[q])
             /\ refreshes'[q].at # "received" => refreshes'[q].got.received = None
             /\ AnsweredFresh(refreshes'[q])
             /\ OpenedFresh(refreshes'[q])
             /\ ReceivedFresh(refreshes'[q].got)
  <2>1. refreshes'[q] = IF q = r THEN refresh ELSE refreshes[q]
    BY DEF ReadsInv, ReadsTypeOK
  <2>2. CASE q = r
    BY <1>2, <2>1, <2>2
  <2>3. CASE q # r
    BY <1>2, <2>1, <2>3 DEF ReadsInv, RefreshesFresh
  <2>4. QED
    BY <2>2, <2>3
<1>3. RefreshesFresh'
  BY <1>2 DEF RefreshesFresh, SentBefore, AnsweredFresh, OpenedFresh, ReceivedFresh, OpenedInTime
<1>4. QED
  BY <1>1, <1>3 DEF ReadsInv

\* Every step of refresh, proxy, Kingdom and clock keeps the invariant.
LEMMA ReadsStep == ReadsInv /\ [ReadsNext]_readsVars => ReadsInv'
<1> SUFFICES ASSUME ReadsInv, [ReadsNext]_readsVars PROVE ReadsInv'
  OBVIOUS
<1>0. /\ ReadsTypeOK /\ RefreshesFresh /\ RenderedFresh
      /\ now \in Nat /\ view.held \in Observation /\ ReceivedFresh(view.held)
      /\ view \in [held : Observation, current : BOOLEAN, rendered : Nat]
  BY DEF ReadsInv, ReadsTypeOK, RenderedFresh
<1>1. ASSUME NEW r \in Refresh, RefreshDetails(r) PROVE ReadsInv'
  <2> DEFINE asked == [at |-> "asked", sent |-> now, fresh |-> TRUE, got |-> Unavailable]
  <2>1. RenderedFresh' /\ view' \in [held : Observation, current : BOOLEAN, rendered : Nat]
    BY <1>0, <1>1, RenderedHolds DEF RefreshDetails
  <2>2. CASE online
    <3>1. asked \in RefreshRecord
      BY <1>0, UnavailableTypes DEF RefreshRecord
    <3>2. /\ SentBefore(asked) /\ asked.got.received = None
          /\ AnsweredFresh(asked) /\ OpenedFresh(asked) /\ ReceivedFresh(asked.got)
      BY <1>0, UnavailableTypes DEF SentBefore, AnsweredFresh, OpenedFresh, ReceivedFresh
    <3>3. refreshes' = [refreshes EXCEPT ![r] = asked] /\ UNCHANGED <<path, now, sample, online>>
      BY <1>1, <2>2 DEF RefreshDetails
    <3> HIDE DEF asked
    <3>4. QED
      BY <2>1, <3>1, <3>2, <3>3, OneRefresh
  <2>3. CASE ~online
    BY <1>0, <1>1, <2>1, <2>3
    DEF RefreshDetails, ReadsInv, ReadsTypeOK, RefreshesFresh, AnsweredFresh, OpenedFresh, ReceivedFresh,
        OpenedInTime, SentBefore
  <2>4. QED
    BY <2>2, <2>3
<1>2. ASSUME NEW r \in Refresh, ProxyAnswers(r) PROVE ReadsInv'
  <2>1. PICK summary \in Summaries \cup {Unavailable} :
          refreshes' = [refreshes EXCEPT ![r].at = "answered", ![r].got = summary]
    BY <1>2 DEF ProxyAnswers
  <2>2. /\ summary \in Observation /\ summary.received = None
        /\ path # "hierarchy" /\ summary.state = "observed" =>
              summary.taken \in Nat /\ now - summary.taken <= RecentLimit
    BY <1>0, SummariesFresh
  <2>3. refreshes[r] \in RefreshRecord /\ refreshes[r].sent <= now /\ refreshes[r].sent \in Nat
    BY <1>0, <1>2 DEF ProxyAnswers, At, ReadsTypeOK, RefreshesFresh, SentBefore
  <2> DEFINE refresh == [refreshes[r] EXCEPT !.at = "answered", !.got = summary]
  <2>4. /\ refresh \in RefreshRecord /\ refresh.sent = refreshes[r].sent
        /\ refresh.at = "answered" /\ refresh.got = summary
    BY <2>2, <2>3 DEF RefreshRecord
  <2>5. refreshes' = [refreshes EXCEPT ![r] = refresh]
    BY <2>1
  <2> HIDE DEF refresh
  <2>6. SentBefore(refresh)
    BY <2>3, <2>4 DEF SentBefore
  <2>7. AnsweredFresh(refresh)
    BY <1>0, <2>2, <2>3, <2>4, LimitsAssumption DEF AnsweredFresh
  <2>8. ReceivedFresh(refresh.got) /\ OpenedFresh(refresh)
    BY <2>2, <2>4 DEF ReceivedFresh, OpenedFresh
  <2>9. UNCHANGED <<path, now, sample, online, view>>
    BY <1>2 DEF ProxyAnswers
  <2>10. RenderedFresh'
    BY <1>0, <2>9 DEF RenderedFresh, ReceivedFresh, OpenedInTime
  <2>11. QED
    BY <1>0, <2>2, <2>4, <2>5, <2>6, <2>7, <2>8, <2>9, <2>10, OneRefresh
<1>3. ASSUME NEW r \in Refresh, Received(r) PROVE ReadsInv'
  <2>1. /\ refreshes[r] \in RefreshRecord /\ refreshes[r].at = "opened"
        /\ OpenedFresh(refreshes[r])
    BY <1>0, <1>3 DEF Received, At, ReadsTypeOK, RefreshesFresh
  <2>2. /\ refreshes[r].got \in Observation
        /\ refreshes[r].fresh \in BOOLEAN
    BY <2>1 DEF RefreshRecord
  <2> DEFINE got == IF refreshes[r].fresh THEN Receipt(refreshes[r].got) ELSE Unavailable
             refresh == [refreshes[r] EXCEPT !.at = "received", !.got = got]
  <2>3. /\ got \in Observation
        /\ got.state = "observed" =>
              /\ got.state = refreshes[r].got.state
              /\ got.taken = refreshes[r].got.taken /\ got.opened = refreshes[r].got.opened
              /\ got.received = now
    <3>1. CASE refreshes[r].fresh
      BY <1>0, <2>2, <3>1 DEF Observation, Receipt
    <3>2. CASE ~refreshes[r].fresh
      BY <3>2, UnavailableTypes
    <3>3. QED
      BY <3>1, <3>2
  <2> HIDE DEF got
  <2>4. refreshes' = [refreshes EXCEPT ![r] = refresh]
    BY <1>3 DEF Received, got
  <2>5. refresh \in RefreshRecord /\ refresh.at = "received" /\ refresh.got = got
    BY <2>1, <2>3 DEF RefreshRecord
  <2> HIDE DEF refresh
  <2>6. ReceivedFresh(refresh.got)
    BY <2>1, <2>3, <2>5 DEF ReceivedFresh, OpenedFresh, OpenedInTime
  <2>7. AnsweredFresh(refresh) /\ OpenedFresh(refresh) /\ SentBefore(refresh)
    BY <2>5 DEF AnsweredFresh, OpenedFresh, SentBefore
  <2>8. UNCHANGED <<path, now, sample, online, view>>
    BY <1>3 DEF Received
  <2>9. RenderedFresh'
    BY <1>0, <2>8 DEF RenderedFresh, ReceivedFresh, OpenedInTime
  <2>10. QED
    BY <1>0, <2>1, <2>4, <2>5, <2>6, <2>7, <2>8, <2>9, OneRefresh
<1>4. ASSUME NEW r \in Refresh, Fails(r) PROVE ReadsInv'
  <2>1. refreshes[r] \in RefreshRecord
    BY <1>0, <1>4 DEF Fails, At, ReadsTypeOK
  <2> DEFINE refresh == [refreshes[r] EXCEPT !.at = "received", !.sent = None, !.got = Unavailable]
  <2>2. refreshes' = [refreshes EXCEPT ![r] = refresh]
    BY <1>4 DEF Fails
  <2>3. refresh \in RefreshRecord /\ refresh.at = "received" /\ refresh.got = Unavailable
    BY <2>1, UnavailableTypes DEF RefreshRecord
  <2> HIDE DEF refresh
  <2>4. /\ ReceivedFresh(refresh.got) /\ AnsweredFresh(refresh)
        /\ OpenedFresh(refresh) /\ SentBefore(refresh)
    BY <2>3, UnavailableTypes DEF ReceivedFresh, AnsweredFresh, OpenedFresh, SentBefore
  <2>5. UNCHANGED <<path, now, sample, online, view>>
    BY <1>4 DEF Fails
  <2>6. RenderedFresh'
    BY <1>0, <2>5 DEF RenderedFresh, ReceivedFresh, OpenedInTime
  <2>7. QED
    BY <1>0, <2>1, <2>2, <2>3, <2>4, <2>5, <2>6, OneRefresh
<1>5. ASSUME NEW r \in Refresh, Shown(r) PROVE ReadsInv'
  <2>1. refreshes[r] \in RefreshRecord /\ ReceivedFresh(refreshes[r].got)
    BY <1>0, <1>5 DEF Shown, At, ReadsTypeOK, RefreshesFresh
  <2>2. refreshes[r].got \in Observation
    BY <2>1 DEF RefreshRecord
  <2>3. UNCHANGED <<path, now, sample, online>> /\ refreshes' = [refreshes EXCEPT ![r] = None]
    BY <1>5 DEF Shown
  <2>4. RenderedFresh' /\ view' \in [held : Observation, current : BOOLEAN, rendered : Nat]
    <3>1. CASE refreshes[r].fresh
      BY <1>5, <2>1, <2>2, <2>3, <3>1, RenderedHolds DEF Shown
    <3>2. CASE ~refreshes[r].fresh
      <4>1. view' = view
        BY <1>5, <3>2 DEF Shown
      <4>2. QED
        BY <1>0, <2>3, <4>1 DEF RenderedFresh, ReceivedFresh, OpenedInTime
    <3>3. QED
      BY <3>1, <3>2
  <2>5. QED
    BY <2>3, <2>4, OneRefresh
<1>6. CASE ConnectionSwitches
  <2>1. UNCHANGED <<path, now, sample>>
        /\ view' = [held |-> Unavailable, current |-> FALSE, rendered |-> now]
        /\ online' \in BOOLEAN
    BY <1>0, <1>6 DEF ConnectionSwitches, ReadsTypeOK
  <2>2. /\ view' \in [held : Observation, current : BOOLEAN, rendered : Nat]
        /\ view'.held = Unavailable /\ ~view'.current /\ view'.rendered = now
    BY <1>0, <2>1, UnavailableTypes
  <2>3. ReceivedFresh(Unavailable)' /\ now - now = 0 /\ now <= now
    BY <1>0, UnavailableTypes DEF ReceivedFresh, Unavailable, Unseen
  <2>4. RenderedFresh'
    BY <2>1, <2>2, <2>3, LimitsAssumption DEF RenderedFresh, ReceivedFresh, Unavailable, Unseen
  <2>5. ASSUME NEW r \in Refresh
        PROVE  /\ refreshes'[r] \in RefreshRecord \cup {None}
               /\ refreshes'[r] # None =>
                     /\ refreshes[r] # None
                     /\ refreshes'[r].at = refreshes[r].at /\ refreshes'[r].sent = refreshes[r].sent
                     /\ refreshes'[r].got = refreshes[r].got
    <3>1. refreshes'[r] = IF refreshes[r] = None THEN None ELSE [refreshes[r] EXCEPT !.fresh = FALSE]
      BY <1>6 DEF ConnectionSwitches
    <3>2. refreshes[r] # None => refreshes[r] \in RefreshRecord
      BY <1>0 DEF ReadsTypeOK
    <3>3. QED
      BY <3>1, <3>2 DEF RefreshRecord
  <2>6. refreshes' \in [Refresh -> RefreshRecord \cup {None}]
    BY <1>6, <2>5 DEF ConnectionSwitches
  <2>7. RefreshesFresh'
    BY <1>0, <2>1, <2>5
    DEF RefreshesFresh, SentBefore, AnsweredFresh, OpenedFresh, ReceivedFresh, OpenedInTime
  <2>8. QED
    BY <1>0, <2>1, <2>2, <2>4, <2>6, <2>7 DEF ReadsInv, ReadsTypeOK
<1>7. CASE KingdomObserves
  BY <1>0, <1>7
  DEF KingdomObserves, ReadsInv, ReadsTypeOK, RefreshesFresh, RenderedFresh, AnsweredFresh, OpenedFresh,
      ReceivedFresh, OpenedInTime, SentBefore
<1>8. CASE TimePasses
  <2>1. /\ now' = now + 1 /\ UNCHANGED <<path, sample, online, refreshes, view>>
        /\ now - view.rendered < Interval
    BY <1>8 DEF TimePasses
  <2>2. view.rendered <= now' /\ now' - view.rendered <= Interval
    BY <1>0, <2>1, LimitsAssumption DEF RenderedFresh
  <2>3. \A r \in Refresh : refreshes[r] # None => SentBefore(refreshes[r])'
    <3>1. ASSUME NEW moment \in Nat, moment <= now PROVE moment <= now'
      BY <1>0, <2>1, <3>1
    <3>2. QED
      BY <1>0, <2>1, <3>1 DEF RefreshesFresh, SentBefore
  <2>4. ASSUME NEW r \in Refresh, refreshes[r] # None, OpenedFresh(refreshes[r])
        PROVE  OpenedFresh(refreshes[r])'
    <3>1. ASSUME NEW opened \in Nat, opened <= now PROVE opened <= now'
      BY <1>0, <2>1, <3>1
    <3>2. QED
      BY <2>1, <2>4, <3>1 DEF OpenedFresh, OpenedInTime
  <2>5. ReadsTypeOK' /\ RenderedFresh'
    BY <1>0, <2>1, <2>2 DEF ReadsTypeOK, RenderedFresh, ReceivedFresh, OpenedInTime
  <2>6. RefreshesFresh'
    BY <1>0, <2>1, <2>3, <2>4 DEF RefreshesFresh, AnsweredFresh, ReceivedFresh, OpenedInTime
  <2>7. QED
    BY <2>5, <2>6 DEF ReadsInv
<1>9. CASE UNCHANGED readsVars
  BY <1>0, <1>9
  DEF readsVars, ReadsInv, ReadsTypeOK, RefreshesFresh, RenderedFresh, AnsweredFresh, OpenedFresh,
      ReceivedFresh, OpenedInTime, SentBefore
<1>10. ASSUME NEW r \in Refresh, HeadersCome(r) PROVE ReadsInv'
  <2>1. /\ refreshes[r] \in RefreshRecord /\ refreshes[r].at = "answered"
        /\ refreshes[r].sent <= now /\ refreshes[r].sent \in Nat
        /\ AnsweredFresh(refreshes[r]) /\ refreshes[r].got.received = None
    BY <1>0, <1>10 DEF HeadersCome, At, ReadsTypeOK, RefreshesFresh, SentBefore
  <2>2. /\ refreshes[r].got \in Observation
        /\ now - refreshes[r].sent <= FetchLimit
    BY <1>10, <2>1 DEF HeadersCome, InTime, RefreshRecord
  <2> DEFINE got == Opening(refreshes[r].got)
             refresh == [refreshes[r] EXCEPT !.at = "opened", !.sent = None, !.got = got]
  <2>3. /\ got \in Observation /\ got.state = refreshes[r].got.state
        /\ got.taken = refreshes[r].got.taken /\ got.received = None
        /\ got.state = "observed" => got.opened = now
    BY <1>0, <2>1, <2>2 DEF Observation, Opening
  <2>4. refreshes' = [refreshes EXCEPT ![r] = refresh]
    BY <1>10 DEF HeadersCome
  <2> HIDE DEF got
  <2>5. refresh \in RefreshRecord /\ refresh.at = "opened" /\ refresh.got = got
    BY <2>1, <2>3 DEF RefreshRecord
  <2> HIDE DEF refresh
  <2>6. ASSUME path # "hierarchy", got.state = "observed"
        PROVE  got.taken \in Nat /\ now - got.taken <= RecentLimit + FetchLimit
    BY <1>0, <2>1, <2>2, <2>3, <2>6, LimitsAssumption DEF AnsweredFresh
  <2>7. OpenedFresh(refresh)
    <3>1. now <= now
      BY <1>0
    <3>2. QED
      BY <1>0, <2>3, <2>5, <2>6, <3>1 DEF OpenedFresh, OpenedInTime
  <2>8. AnsweredFresh(refresh) /\ ReceivedFresh(refresh.got) /\ SentBefore(refresh)
    BY <2>3, <2>5 DEF AnsweredFresh, ReceivedFresh, SentBefore
  <2>9. UNCHANGED <<path, now, sample, online, view>>
    BY <1>10 DEF HeadersCome
  <2>10. RenderedFresh'
    BY <1>0, <2>9 DEF RenderedFresh, ReceivedFresh, OpenedInTime
  <2>11. QED
    BY <1>0, <2>1, <2>3, <2>4, <2>5, <2>7, <2>8, <2>9, <2>10, OneRefresh
<1>11. QED
  BY <1>1, <1>2, <1>3, <1>4, <1>5, <1>6, <1>7, <1>8, <1>9, <1>10 DEF ReadsNext

\* It holds before the first refresh.
LEMMA ReadsStart == ReadsInit => ReadsInv
<1> SUFFICES ASSUME ReadsInit PROVE ReadsInv
  OBVIOUS
<1>1. /\ view.held = Unavailable /\ ~view.current /\ view.rendered = 0
      /\ view \in [held : Observation, current : BOOLEAN, rendered : Nat]
  BY UnavailableTypes DEF ReadsInit
<1>2. ReadsTypeOK /\ RefreshesFresh
  BY <1>1 DEF ReadsInit, ReadsTypeOK, RefreshesFresh
<1>3. RenderedFresh
  BY <1>1, UnavailableTypes, LimitsAssumption DEF ReadsInit, RenderedFresh, ReceivedFresh
<1>4. QED
  BY <1>2, <1>3 DEF ReadsInv

\* What the panel calls current was received no longer ago than rendering and interval allow, and was
\* observed by Kingdom no longer before its headers than the limits of proxy and fetch allow, however
\* the refreshes overlap and however long bodies take: KingdomStatusPanel, get_read_observations.
THEOREM CurrentStaysFresh == ReadsSpec => []CurrentIsFresh
  BY ReadsStart, ReadsStep, FreshEnough, PTL DEF ReadsSpec

-----------------------------------------------------------------------------
(* The updates of the browser app (AppUpdates). *)

Versioned == AppVersion \cup {None}

RequestRecord ==
    [at : {"free", "sent", "answered"}, apply : BOOLEAN, user : BOOLEAN, offer : Versioned,
     answer : Versioned]

PageRecord ==
    [version : AppVersion, loads : Nat, offer : Versioned,
     state : {"idle", "offered", "refreshing", "failed"}, dismissed : Versioned, target : Versioned]

UpdatesTypeOK ==
    /\ server.version \in AppVersion
    /\ page \in PageRecord
    /\ requests \in [Request -> RequestRecord]
    /\ attempts \in [stored : SUBSET AppVersion, works : BOOLEAN]
    /\ futile \subseteq AppVersion

\* Only what is newer is offered, and it is reloaded for without a word only within its line and,
\* where storage works, once.
Warranted(request) ==
    /\ request.at = "free" => ~request.apply
    /\ request.apply =>
          /\ request.offer \in AppVersion /\ request.offer > page.version
          /\ \/ request.user
             \/ /\ Line[request.offer] = Line[page.version]
                /\ attempts.works => request.offer \notin futile

RequestsWarranted == \A r \in Request : Warranted(requests[r])

OffersNewer == page.offer # None => page.offer > page.version

\* Where storage works, it remembers what was reloaded for and has not arrived.
FutileRemembered ==
    attempts.works =>
        /\ futile \subseteq attempts.stored
        /\ page.target # None => page.target \in attempts.stored

Refreshing == page.state = "refreshing" => page.target # None \/ \E r \in Request : requests[r].apply

UpdatesInv == UpdatesTypeOK /\ RequestsWarranted /\ OffersNewer /\ FutileRemembered /\ Refreshing

\* The replacement of the page, as the property wants it.
ReplacedRightly ==
    page'.target # page.target /\ page'.target # None =>
        \E r \in Request :
            LET v == page'.target
            IN  /\ Ended(r) /\ requests[r].apply /\ requests[r].answer = v /\ v > page.version
                /\ \/ requests[r].user
                   \/ Line[v] = Line[page.version] /\ (attempts.works => v \notin futile)

\* A request that was not made.
LEMMA FreeRequest ==
  Free \in RequestRecord /\ Free.at = "free" /\ ~Free.apply
BY DEF Free, RequestRecord, Versioned

\* A page that was just loaded.
LEMMA PageLoaded ==
  ASSUME NEW v \in AppVersion, NEW n \in Nat
  PROVE  /\ Loaded(v, n) \in PageRecord
         /\ Loaded(v, n).version = v /\ Loaded(v, n).offer = None /\ Loaded(v, n).state = "idle"
         /\ Loaded(v, n).target = None
BY DEF Loaded, PageRecord, Versioned

\* A step that changes one request, and of the page neither its version nor what replaces it.
LEMMA OneRequest ==
  ASSUME UpdatesInv, NEW r \in Request, NEW request \in RequestRecord,
         requests' = [requests EXCEPT ![r] = request], Warranted(request),
         server'.version \in AppVersion, UNCHANGED <<attempts, futile>>,
         page' \in PageRecord, page'.version = page.version, page'.target = page.target,
         page'.offer # None => page'.offer > page.version,
         page'.state = "refreshing" =>
            \/ request.apply
            \/ page.state = "refreshing" /\ (requests[r].apply => page.target # None)
  PROVE  UpdatesInv' /\ ReplacedRightly
<1>1. UpdatesTypeOK'
  BY DEF UpdatesInv, UpdatesTypeOK
<1>2. \A q \in Request : requests'[q] = IF q = r THEN request ELSE requests[q]
  BY DEF UpdatesInv, UpdatesTypeOK
<1>3. RequestsWarranted'
  <2>1. ASSUME NEW q \in Request PROVE Warranted(requests'[q])
    BY <1>2 DEF UpdatesInv, RequestsWarranted
  <2>2. QED
    BY <2>1 DEF RequestsWarranted, Warranted
<1>4. OffersNewer' /\ FutileRemembered'
  BY DEF UpdatesInv, OffersNewer, FutileRemembered
<1>5. Refreshing'
  <2> SUFFICES ASSUME page'.state = "refreshing", page.target = None
               PROVE  \E q \in Request : requests'[q].apply
    BY DEF Refreshing
  <2>1. CASE request.apply
    BY <1>2, <2>1
  <2>2. CASE page.state = "refreshing" /\ ~requests[r].apply
    BY <1>2, <2>2 DEF UpdatesInv, Refreshing
  <2>3. QED
    BY <2>1, <2>2
<1>6. QED
  BY <1>1, <1>3, <1>4, <1>5 DEF UpdatesInv, ReplacedRightly

\* Every operation of page and server keeps the invariant, and a page is replaced only rightly.
LEMMA UpdatesStep ==
  ASSUME UpdatesInv, [UpdatesNext]_updatesVars
  PROVE  UpdatesInv' /\ ReplacedRightly
<1> DEFINE Kept == UpdatesInv' /\ ReplacedRightly
<1>0. /\ page \in PageRecord /\ attempts \in [stored : SUBSET AppVersion, works : BOOLEAN]
      /\ server.version \in AppVersion /\ futile \subseteq AppVersion
      /\ \A r \in Request : requests[r] \in RequestRecord /\ Warranted(requests[r])
      /\ OffersNewer /\ FutileRemembered /\ Refreshing
  BY DEF UpdatesInv, UpdatesTypeOK, RequestsWarranted
<1>1. ASSUME NEW r \in Request, CheckForUpdate(r) PROVE Kept
  <2> DEFINE request == [Free EXCEPT !.at = "sent"]
  <2>1. request \in RequestRecord /\ ~request.apply
    BY FreeRequest DEF RequestRecord
  <2>2. ~requests[r].apply
    BY <1>0, <1>1 DEF CheckForUpdate, Warranted
  <2>3. Warranted(request)
    BY FreeRequest, <2>1 DEF Warranted, Free
  <2>4. requests' = [requests EXCEPT ![r] = request] /\ UNCHANGED <<server, page, attempts, futile>>
    BY <1>1 DEF CheckForUpdate
  <2> HIDE DEF request
  <2>5. QED
    BY <1>0, <2>1, <2>2, <2>3, <2>4, OneRequest DEF OffersNewer
<1>2. ASSUME NEW r \in Request, ServerAnswers(r) PROVE Kept
  <2>1. PICK answer \in {server.version, None} :
          requests' = [requests EXCEPT ![r].at = "answered", ![r].answer = answer]
    BY <1>2 DEF ServerAnswers
  <2> DEFINE request == [requests[r] EXCEPT !.at = "answered", !.answer = answer]
  <2>2. /\ request \in RequestRecord /\ request.at = "answered"
        /\ request.apply = requests[r].apply /\ request.user = requests[r].user
        /\ request.offer = requests[r].offer
    BY <1>0, <2>1 DEF RequestRecord, Versioned
  <2>3. requests' = [requests EXCEPT ![r] = request] /\ UNCHANGED <<server, page, attempts, futile>>
    BY <1>2, <2>1 DEF ServerAnswers
  <2> HIDE DEF request
  <2>4. Warranted(request)
    BY <1>0, <2>2 DEF Warranted
  <2>5. QED
    BY <1>0, <2>2, <2>3, <2>4, OneRequest DEF OffersNewer
<1>3. ASSUME NEW r \in Request, CheckAnswered(r) PROVE Kept
  <2> DEFINE v == requests[r].answer
             kind == IF v = None THEN None ELSE Classify(page.version, v)
             reload == kind # None /\ Automatic(v)
             again == [Free EXCEPT !.at = "sent", !.apply = TRUE, !.offer = v]
             request == IF reload THEN again ELSE Free
  <2>1. /\ requests[r] \in RequestRecord /\ ~requests[r].apply /\ v \in Versioned
        /\ page.version \in AppVersion /\ page.version \in Nat
    BY <1>0, <1>3, VersionsAssumption DEF CheckAnswered, RequestRecord, PageRecord
  <2>2. kind # None => v \in AppVersion /\ v > page.version
    <3>1. v # None => v \in AppVersion /\ v \in Nat
      BY <2>1, VersionsAssumption DEF Versioned
    <3>2. kind # None => v # None /\ ~(v <= page.version)
      BY DEF Classify
    <3> HIDE DEF v, kind
    <3>3. QED
      BY <2>1, <3>1, <3>2
  <2>3. reload => Line[v] = Line[page.version] /\ v \notin attempts.stored
    BY <2>1, <2>2 DEF Automatic, Classify
  <2>4. /\ requests' = [requests EXCEPT ![r] = request]
        /\ UNCHANGED <<server, attempts, futile>>
        /\ page' = IF v = None THEN page
                   ELSE IF kind = None THEN [page EXCEPT !.offer = None, !.state = "idle"]
                   ELSE [page EXCEPT !.offer = v, !.state = IF reload THEN "refreshing" ELSE "offered"]
    BY <1>3 DEF CheckAnswered
  <2>5. v = None => kind = None
    OBVIOUS
  <2>6. /\ again \in RequestRecord /\ again.apply /\ again.at = "sent" /\ again.offer = v
    BY <2>1, FreeRequest DEF RequestRecord
  <2> HIDE DEF v, kind, reload, again
  <2>7. request \in RequestRecord
    <3>1. request \in {again, Free}
      OBVIOUS
    <3> HIDE DEF request
    <3>2. QED
      BY <2>6, <3>1, FreeRequest
  <2>8. Warranted(request)
    <3>1. CASE reload
      <4>1. v \in AppVersion /\ v > page.version
        BY <2>2, <3>1 DEF reload
      <4>2. attempts.works => v \notin futile
        BY <1>0, <2>3, <3>1 DEF FutileRemembered
      <4>3. Warranted(again)
        BY <2>3, <2>6, <3>1, <4>1, <4>2 DEF Warranted
      <4>4. QED
        BY <3>1, <4>3
    <3>2. CASE ~reload
      BY <3>2, FreeRequest DEF Warranted
    <3>3. QED
      BY <3>1, <3>2
  <2>9. /\ page' \in PageRecord /\ page'.version = page.version /\ page'.target = page.target
        /\ page'.offer # None => page'.offer > page.version
        /\ page'.state = "refreshing" => page.state = "refreshing" \/ reload
    <3>1. CASE v = None
      BY <1>0, <2>4, <3>1 DEF OffersNewer
    <3>2. CASE v # None /\ kind = None
      BY <1>0, <2>4, <3>2 DEF PageRecord, Versioned
    <3>3. CASE v # None /\ kind # None
      <4> DEFINE shown == IF reload THEN "refreshing" ELSE "offered"
      <4>1. page' = [page EXCEPT !.offer = v, !.state = shown]
        BY <2>4, <3>3
      <4>2. shown \in {"refreshing", "offered"} /\ (shown = "refreshing" => reload)
        OBVIOUS
      <4> HIDE DEF shown
      <4>3. QED
        BY <1>0, <2>2, <3>3, <4>1, <4>2 DEF PageRecord, Versioned
    <3>4. QED
      BY <2>5, <3>1, <3>2, <3>3
  <2>10. reload => request.apply
    BY <2>6
  <2> HIDE DEF request
  <2>11. QED
    BY <1>0, <2>1, <2>4, <2>7, <2>8, <2>9, <2>10, OneRequest
<1>4. ASSUME NEW r \in Request, ApplyUpdate(r) PROVE Kept
  <2> DEFINE request == [Free EXCEPT !.at = "sent", !.apply = TRUE, !.user = TRUE, !.offer = page.offer]
  <2>1. page.offer \in AppVersion /\ page.offer > page.version
    BY <1>0, <1>4 DEF ApplyUpdate, Offered, PageRecord, Versioned, OffersNewer
  <2>2. /\ request \in RequestRecord /\ request.at = "sent" /\ request.apply /\ request.user
        /\ request.offer = page.offer
    BY <2>1, FreeRequest DEF RequestRecord, Versioned
  <2>3. requests' = [requests EXCEPT ![r] = request] /\ UNCHANGED <<server, attempts, futile>>
    BY <1>4 DEF ApplyUpdate
  <2> HIDE DEF request
  <2>4. Warranted(request)
    BY <2>1, <2>2 DEF Warranted
  <2>5. /\ page' \in PageRecord /\ page'.version = page.version /\ page'.target = page.target
        /\ page'.offer = page.offer
    BY <1>0, <1>4 DEF ApplyUpdate, PageRecord
  <2>6. QED
    BY <1>0, <2>1, <2>2, <2>3, <2>4, <2>5, OneRequest
<1>5. CASE Dismiss
  <2>1. /\ page' \in PageRecord /\ page'.version = page.version /\ page'.target = page.target
        /\ page'.offer = page.offer /\ page'.state = page.state
    BY <1>0, <1>5 DEF Dismiss, PageRecord
  <2>2. UNCHANGED <<server, requests, attempts, futile>>
    BY <1>5 DEF Dismiss
  <2>3. UpdatesTypeOK' /\ OffersNewer' /\ FutileRemembered' /\ Refreshing'
    BY <1>0, <2>1, <2>2
    DEF UpdatesInv, UpdatesTypeOK, OffersNewer, FutileRemembered, Refreshing
  <2>4. RequestsWarranted'
    BY <1>0, <2>1, <2>2 DEF RequestsWarranted, Warranted
  <2>5. QED
    BY <2>1, <2>3, <2>4 DEF UpdatesInv, ReplacedRightly
<1>6. ASSUME NEW r \in Request, Replaces(r) PROVE Kept
  <2> DEFINE v == requests[r].offer
  <2>1. /\ requests[r].at = "answered" /\ requests[r].apply /\ requests[r].answer = v
        /\ v \in AppVersion /\ v > page.version
        /\ \/ requests[r].user
           \/ Line[v] = Line[page.version] /\ (attempts.works => v \notin futile)
    BY <1>0, <1>6 DEF Replaces, Warranted
  <2>2. /\ page' = [page EXCEPT !.target = v] /\ requests' = [requests EXCEPT ![r] = Free]
        /\ attempts' = [attempts EXCEPT !.stored = Recorded(v)] /\ UNCHANGED <<server, futile>>
    BY <1>6 DEF Replaces
  <2> HIDE DEF v
  <2>3. /\ page' \in PageRecord /\ page'.version = page.version /\ page'.target = v
        /\ page'.offer = page.offer
    BY <1>0, <2>1, <2>2 DEF PageRecord, Versioned
  <2>4. /\ attempts' \in [stored : SUBSET AppVersion, works : BOOLEAN]
        /\ attempts'.works = attempts.works
        /\ attempts.works => attempts'.stored = attempts.stored \cup {v}
    BY <1>0, <2>1, <2>2 DEF Recorded
  <2>5. \A q \in Request : requests'[q] = IF q = r THEN Free ELSE requests[q]
    BY <2>2 DEF UpdatesInv, UpdatesTypeOK
  <2>6. UpdatesTypeOK'
    BY <1>0, <2>2, <2>3, <2>4, FreeRequest DEF UpdatesInv, UpdatesTypeOK
  <2>7. RequestsWarranted'
    <3>1. ASSUME NEW q \in Request PROVE Warranted(requests[q])'
      BY <1>0, <2>2, <2>3, <2>4, <2>5, FreeRequest DEF Warranted
    <3>2. QED
      BY <3>1 DEF RequestsWarranted
  <2>8. OffersNewer' /\ FutileRemembered' /\ Refreshing'
    <3>1. v # None
      BY <2>1, VersionsAssumption
    <3>2. QED
      BY <1>0, <2>2, <2>3, <2>4, <3>1 DEF OffersNewer, FutileRemembered, Refreshing
  <2>9. ReplacedRightly
    BY <2>1, <2>3, <2>5, FreeRequest DEF ReplacedRightly, Ended
  <2>10. QED
    BY <2>6, <2>7, <2>8, <2>9 DEF UpdatesInv
<1>7. ASSUME NEW r \in Request, ApplyFails(r) PROVE Kept
  <2>1. requests' = [requests EXCEPT ![r] = Free] /\ UNCHANGED <<server, attempts, futile>>
    BY <1>7 DEF ApplyFails
  <2>2. /\ page' \in PageRecord /\ page'.version = page.version /\ page'.target = page.target
        /\ page'.offer = page.offer /\ page'.state = "failed"
    BY <1>0, <1>7 DEF ApplyFails, PageRecord
  <2>3. Warranted(Free)
    BY FreeRequest DEF Warranted
  <2>4. QED
    BY <1>0, <2>1, <2>2, <2>3, FreeRequest, OneRequest DEF OffersNewer
<1>8. CASE PageLoads
  <2>1. PICK version \in {server.version, page.version} :
          /\ page' = Loaded(version, page.loads + 1)
          /\ attempts' = [attempts EXCEPT !.stored = Cleared(version)]
          /\ futile' = {v \in futile \cup ({page.target} \ {None}) : v > version}
    BY <1>8 DEF PageLoads
  <2>2. version \in AppVersion /\ version \in Nat /\ page.loads + 1 \in Nat /\ page.target \in Versioned
    <3>1. /\ page.version \in AppVersion /\ page.loads \in Nat /\ page.target \in Versioned
      BY <1>0 DEF PageRecord
    <3>2. version \in AppVersion
      BY <1>0, <3>1
    <3>3. QED
      BY <3>1, <3>2, VersionsAssumption
  <2>3. /\ page' \in PageRecord /\ page'.offer = None /\ page'.state = "idle" /\ page'.target = None
    BY <2>1, <2>2, PageLoaded
  <2>4. requests' = [r \in Request |-> Free] /\ UNCHANGED server
    BY <1>8 DEF PageLoads
  <2>5. futile' \subseteq AppVersion
    BY <1>0, <2>1, <2>2 DEF Versioned
  <2>6. /\ attempts' \in [stored : SUBSET AppVersion, works : BOOLEAN]
        /\ attempts'.works = attempts.works /\ attempts'.stored = Cleared(version)
    <3>1. attempts.stored \in SUBSET AppVersion
      BY <1>0
    <3>2. Cleared(version) \in SUBSET AppVersion
      BY <3>1 DEF Cleared
    <3>3. QED
      BY <1>0, <2>1, <3>2
  <2>7. attempts.works => futile' \subseteq Cleared(version)
    <3> SUFFICES ASSUME attempts.works, NEW u \in futile' PROVE u \in Cleared(version)
      OBVIOUS
    <3>1. u \in attempts.stored /\ u > version /\ u \in Nat
      BY <1>0, <2>1, <2>2, <2>5, VersionsAssumption DEF FutileRemembered
    <3>2. version >= u => FALSE
      BY <2>2, <3>1
    <3>3. QED
      BY <3>1, <3>2 DEF Cleared
  <2>8. UpdatesTypeOK'
    BY <1>0, <2>3, <2>4, <2>5, <2>6, FreeRequest DEF UpdatesTypeOK
  <2>9. RequestsWarranted'
    BY <2>4, FreeRequest DEF RequestsWarranted, Warranted
  <2>10. OffersNewer' /\ FutileRemembered' /\ Refreshing'
    BY <2>3, <2>6, <2>7 DEF OffersNewer, FutileRemembered, Refreshing
  <2>11. QED
    BY <2>3, <2>8, <2>9, <2>10 DEF UpdatesInv, ReplacedRightly
<1>9. CASE Release
  <2>1. server'.version \in AppVersion /\ UNCHANGED <<page, requests, attempts, futile>>
    BY <1>9 DEF Release
  <2>2. UpdatesTypeOK' /\ OffersNewer' /\ FutileRemembered' /\ Refreshing'
    BY <1>0, <2>1 DEF UpdatesInv, UpdatesTypeOK, OffersNewer, FutileRemembered, Refreshing
  <2>3. RequestsWarranted'
    BY <1>0, <2>1 DEF RequestsWarranted, Warranted
  <2>4. QED
    BY <2>1, <2>2, <2>3 DEF UpdatesInv, ReplacedRightly
<1>10. CASE UNCHANGED updatesVars
  <2>1. UpdatesTypeOK' /\ OffersNewer' /\ FutileRemembered' /\ Refreshing'
    BY <1>0, <1>10 DEF updatesVars, UpdatesInv, UpdatesTypeOK, OffersNewer, FutileRemembered, Refreshing
  <2>2. RequestsWarranted'
    BY <1>0, <1>10 DEF updatesVars, RequestsWarranted, Warranted
  <2>3. QED
    BY <1>10, <2>1, <2>2 DEF updatesVars, UpdatesInv, ReplacedRightly
<1>11. QED
  BY <1>1, <1>2, <1>3, <1>4, <1>5, <1>6, <1>7, <1>8, <1>9, <1>10 DEF UpdatesNext

\* It holds when the first page was loaded.
LEMMA UpdatesStart == UpdatesInit => UpdatesInv
<1> SUFFICES ASSUME UpdatesInit PROVE UpdatesInv
  OBVIOUS
<1>1. PICK v \in AppVersion : server = [version |-> v, releases |-> 0] /\ page = Loaded(v, 0)
  BY DEF UpdatesInit
<1>2. /\ page \in PageRecord /\ page.offer = None /\ page.state = "idle" /\ page.target = None
      /\ server.version \in AppVersion
  BY <1>1, PageLoaded
<1>3. attempts \in [stored : SUBSET AppVersion, works : BOOLEAN] /\ futile = {}
  BY DEF UpdatesInit
<1>4. requests = [r \in Request |-> Free]
  BY DEF UpdatesInit
<1>5. UpdatesTypeOK
  BY <1>2, <1>3, <1>4, FreeRequest DEF UpdatesTypeOK
<1>6. RequestsWarranted
  BY <1>4, FreeRequest DEF RequestsWarranted, Warranted
<1>7. QED
  BY <1>2, <1>3, <1>5, <1>6 DEF UpdatesInv, OffersNewer, FutileRemembered, Refreshing

\* The page is replaced only by a newer version that the user asked for or that is a patch not tried in
\* vain before, and no update is shown as under way that nobody works on: updateManager.
THEOREM UpdatesStayUnderControl == UpdatesSpec => UpdatesUnderControl
<1>1. UpdatesInv => (page.state = "refreshing" => page.target # None \/ \E r \in Request : requests[r].apply)
  BY DEF UpdatesInv, Refreshing
<1>2. UpdatesInv /\ [UpdatesNext]_updatesVars => UpdatesInv'
  BY UpdatesStep
<1>3. UpdatesInv /\ [UpdatesNext]_updatesVars
      => [ page'.target # page.target /\ page'.target # None =>
            \E r \in Request :
                LET v == page'.target
                IN  /\ Ended(r) /\ requests[r].apply /\ requests[r].answer = v /\ v > page.version
                    /\ \/ requests[r].user
                       \/ Line[v] = Line[page.version] /\ (attempts.works => v \notin futile) ]_updatesVars
  BY UpdatesStep DEF ReplacedRightly
<1>4. QED
  BY <1>1, <1>2, <1>3, UpdatesStart, PTL DEF UpdatesSpec, UpdatesUnderControl

=============================================================================
