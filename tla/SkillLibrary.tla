---------------------------- MODULE SkillLibrary ----------------------------
(***************************************************************************)
(* The versions of one skill in the skill manager, oldest first, and the   *)
(* Skills screen that proposes, promotes and rolls back.  A version is     *)
(* looked up by its number and the first entry that has it is taken;       *)
(* numbers are not unique: a candidate is numbered after the active        *)
(* version, whatever was proposed or rolled back before.                   *)
(***************************************************************************)
EXTENDS Common, Sequences

CONSTANTS
    Numbers,      \* the version numbers registered from outside (the minor part of the code's)
    MaxEntries    \* bound: entries of the library

ASSUME LibraryAssumption == Numbers \subseteq Nat /\ MaxEntries \in Nat /\ None \notin Nat

VARIABLES
    library,     \* the versions in the order of their registration
    base,        \* the entry the screen shows as active; without one it shows an invented 1.0.0
    candidate    \* the entry the screen offers for promotion

libraryVars == <<library, base, candidate>>

Status ==
    {"DRAFT", "CANDIDATE", "EVALUATING", "APPROVED", "ACTIVE", "DEPRECATED", "REJECTED", "ROLLED_BACK"}

Entries(status) == {i \in DOMAIN library : library[i].status = status}

Numbered(number) == {i \in DOMAIN library : library[i].number = number}

Latest(entries) == CHOOSE i \in entries : \A j \in entries : j <= i

\* The first of the active versions, of which registrations may make several.
Active == IF Entries("ACTIVE") = {} THEN None ELSE Earliest(Entries("ACTIVE"))

LibraryInit ==
    /\ library = <<>>
    /\ base = None
    /\ candidate = None

\* Registered copies are appended; a number whose active version exists is refused, a second active
\* version with another number is not.
RegisterSkill(number, status) ==
    /\ Len(library) < MaxEntries
    /\ Numbered(number) \cap Entries("ACTIVE") = {}
    /\ library' = Append(library, [number |-> number, status |-> status])
    /\ UNCHANGED <<base, candidate>>

\* Mounting the screen reads the active version and forgets the candidate.
OpenScreen ==
    /\ base' = Active
    /\ candidate' = None
    /\ UNCHANGED library

ProposeCandidateVersion ==
    /\ Len(library) < MaxEntries
    /\ Active # None
    /\ library' = Append(library, [number |-> library[Active].number + 1, status |-> "CANDIDATE"])
    /\ candidate' = Len(library')
    /\ UNCHANGED base

\* The entry that becomes active is the first one with the candidate's number.
Promoted == Earliest(Numbered(library[candidate].number))

\* The first active version steps down before the promoted one, which may be the same, becomes active.
Demoted == IF Active = None THEN library ELSE [library EXCEPT ![Active].status = "DEPRECATED"]

PromoteCandidate ==
    /\ candidate # None
    /\ library' = [Demoted EXCEPT ![Promoted].status = "ACTIVE"]
    /\ base' = Promoted
    /\ candidate' = None

\* Mutant: whatever came before is restored, rolled back or not.
PredecessorsAny == {i \in DOMAIN library : i < Active}

Predecessors == {i \in Entries("DEPRECATED") \cup Entries("APPROVED") : i < Active}

\* Without a predecessor the error leaves the skill without an active version and the screen as it was.
RollbackSkill ==
    /\ Active # None
    /\ LET retired == [library EXCEPT ![Active].status = "ROLLED_BACK"]
       IN  IF Predecessors = {} THEN library' = retired /\ UNCHANGED base
           ELSE /\ library' = [retired EXCEPT ![Latest(Predecessors)].status = "ACTIVE"]
                /\ base' = Latest(Predecessors)
    /\ UNCHANGED candidate

LibraryNext ==
    \/ \E number \in Numbers, status \in {"CANDIDATE", "APPROVED", "ACTIVE"} :
          RegisterSkill(number, status)
    \/ OpenScreen
    \/ ProposeCandidateVersion
    \/ PromoteCandidate
    \/ RollbackSkill

LibrarySpec == LibraryInit /\ [][LibraryNext]_libraryVars

-----------------------------------------------------------------------------
(* Properties. *)

LibraryTypeOK ==
    /\ library \in Seq([number : Nat, status : Status]) /\ Len(library) <= MaxEntries
    /\ base \in DOMAIN library \cup {None}
    /\ candidate \in DOMAIN library \cup {None}

\* A version that the screen took for the active one still is active, or a rollback without a
\* predecessor retired it unnoticed.  It need not be the one that is looked up as active, if several
\* were registered as such; and what the screen shows without a base says nothing of the library.
ActiveVersionShown == base # None => library[base].status \in {"ACTIVE", "ROLLED_BACK"}

\* Promotion and rollback give a version the place of the active one: when one of the library becomes
\* active, the one that was looked up as active steps down and no other becomes active.  So only a
\* registration makes a second version active.
NewcomerReplaces ==
    [][\A i \in DOMAIN library :
          library[i].status # "ACTIVE" /\ library'[i].status = "ACTIVE" =>
             /\ Active # None => library'[Active].status # "ACTIVE"
             /\ \A j \in DOMAIN library \ {i} :
                   library'[j].status = "ACTIVE" => library[j].status = "ACTIVE"]_libraryVars

\* A version that was rolled back does not come back by further rollbacks: only the promotion of a
\* candidate with the same number makes it active again (instead of the candidate).
RolledBackReturnsByNumber ==
    [][\A i \in DOMAIN library :
          library[i].status = "ROLLED_BACK" /\ library'[i].status = "ACTIVE" =>
             candidate # None /\ library[candidate].number = library[i].number]_libraryVars

\* The three together, over entries of the right shape: what the screen and the rollback of a skill
\* rely on.
VersionsHonest ==
    []LibraryTypeOK /\ []ActiveVersionShown /\ NewcomerReplaces /\ RolledBackReturnsByNumber
=============================================================================
