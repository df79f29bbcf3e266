--------------------------- MODULE CapabilityGrants ---------------------------
(***************************************************************************)
(* The just-in-time capability grant engine (src/agent/grants.ts).         *)
(*                                                                         *)
(* A grant is a single-use permission.  The engine keeps a map from grant  *)
(* ids to grants; here the map's key set is `present' and the three things *)
(* that can disqualify a grant are sets of ids.  Ids come from a CSPRNG    *)
(* and are never drawn twice (`issued').  The clock is abstracted to the   *)
(* moment a grant's expiresAt passes (GrantExpires): nothing in the engine *)
(* reads the clock for anything else.                                      *)
(***************************************************************************)
EXTENDS Naturals, FiniteSets

CONSTANTS
  Grant,            \* grant ids the generator may produce
  Capability,       \* capability ids
  Agent,            \* agent ids
  BoundField,       \* optional bindings: operation, userId, ..., stepId
  BoundValue,       \* values of those bindings
  Params,           \* parameter objects; SHA-256 is injective, so also hashes
  Resource,         \* resources a request can name
  Approval,         \* approval ids
  NONE,             \* an absent optional field
  PurgeThreshold    \* map size below which an unforced purge does nothing

ASSUME NoneAssumption ==
  NONE \notin Grant \cup Capability \cup Agent \cup BoundValue \cup Params \cup Approval

VARIABLES
  present,          \* ids that are keys of the grants map
  issued,           \* ids drawn so far
  consumed,         \* grants with consumed = true
  revoked,          \* grants with revoked = true
  expired,          \* grants whose expiresAt is not after the clock
  terms             \* what each id is issued for, fixed when it is issued

grantVars == <<present, issued, consumed, revoked, expired, terms>>

-----------------------------------------------------------------------------

\* What a grant authorises.  The scope of a grant is the set of resources
\* that isResourceWithinScope accepts for its resourceScope.
Terms == [capability : Capability,
          agent      : Agent,
          bound      : [BoundField -> BoundValue \cup {NONE}],
          hash       : Params \cup {NONE},
          scope      : SUBSET Resource,
          approval   : Approval \cup {NONE}]

\* What a request presents for verification.
Presented == [capability : Capability,
              agent      : Agent \cup {NONE},
              bound      : [BoundField -> BoundValue \cup {NONE}],
              hash       : Params,
              resource   : Resource]

GrantsTypeOK ==
  /\ present \subseteq issued
  /\ issued \subseteq Grant
  /\ consumed \subseteq issued
  /\ revoked \subseteq issued
  /\ expired \subseteq issued
  /\ terms \in [Grant -> Terms]

\* The verdict of verifyCapabilityGrant on the static content of a grant: the
\* agent is compared only when the request names one, a binding only when the
\* grant has it.
Covers(t, p) ==
  /\ t.capability = p.capability
  /\ p.agent \in {NONE, t.agent}
  /\ \A f \in BoundField : t.bound[f] \in {NONE, p.bound[f]}
  /\ t.hash \in {NONE, p.hash}
  /\ p.resource \in t.scope

\* Grants that can still authorise something.
Live == present \ (revoked \cup consumed \cup expired)

\* Mutant: a grant spent by an earlier request is accepted again.
VerifiesReplay(g, p) == g \in present \ (revoked \cup expired) /\ Covers(terms[g], p)

\* verifyCapabilityGrant(...).valid
Verifies(g, p) == g \in Live /\ Covers(terms[g], p)

\* The consumption is the last statement of a successful verification, with no
\* await since the check.
Consume(g) ==
  /\ consumed' = consumed \cup {g}
  /\ UNCHANGED <<present, issued, revoked, expired, terms>>

-----------------------------------------------------------------------------

GrantsInit ==
  /\ present = {}
  /\ issued = {}
  /\ consumed = {}
  /\ revoked = {}
  /\ expired = {}

\* The map after purgeExpiredGrants(force).  Revoked grants stay until they expire.
AfterPurge(force) ==
  IF ~force /\ Cardinality(present) < PurgeThreshold
    THEN present
    ELSE present \ (expired \cup consumed)

\* Mutant: an id can be drawn again once its grant has left the map.
IssueReusedId(g) ==
  /\ g \in Grant \ present
  /\ present' = AfterPurge(FALSE) \cup {g}
  /\ issued' = issued \cup {g}
  /\ consumed' = consumed \ {g}
  /\ revoked' = revoked \ {g}
  /\ expired' = expired \ {g}
  /\ UNCHANGED terms

\* issueJustInTimeGrant: an unforced purge, then the new grant.
IssueGrant(g) ==
  /\ g \in Grant \ issued
  /\ present' = AfterPurge(FALSE) \cup {g}
  /\ issued' = issued \cup {g}
  /\ UNCHANGED <<consumed, revoked, expired, terms>>

RevokeGrant(g) ==
  /\ g \in present \ revoked
  /\ revoked' = revoked \cup {g}
  /\ UNCHANGED <<present, issued, consumed, expired, terms>>

\* The forced purge of the incident manager's self-healing.
PurgeExpiredGrants ==
  /\ AfterPurge(TRUE) # present
  /\ present' = AfterPurge(TRUE)
  /\ UNCHANGED <<issued, consumed, revoked, expired, terms>>

\* The clock reaches expiresAt.  On a consumed grant it would change no verdict
\* and no purge.
GrantExpires(g) ==
  /\ g \in present \ (expired \cup consumed)
  /\ expired' = expired \cup {g}
  /\ UNCHANGED <<present, issued, consumed, revoked, terms>>

GrantsNext ==
  \/ \E g \in Grant : IssueGrant(g) \/ RevokeGrant(g) \/ GrantExpires(g)
  \/ PurgeExpiredGrants

=============================================================================
