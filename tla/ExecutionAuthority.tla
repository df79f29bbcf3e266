-------------------------- MODULE ExecutionAuthority --------------------------
(***************************************************************************)
(* What the grant engine and the executor together promise: a privileged   *)
(* call is begun only by a request that holds a grant, a grant passes from *)
(* the live ones to one request and never back, and no id is issued twice. *)
(***************************************************************************)
CONSTANTS Grant, Request, NONE

VARIABLES
  live,      \* grants that may still authorise a request
  known,     \* grants ever issued
  holder,    \* the grant each request holds, or NONE
  begun      \* requests whose privileged call was begun

authorityVars == <<live, known, holder, begun>>

Init ==
  /\ live = {}
  /\ known = {}
  /\ holder = [r \in Request |-> NONE]
  /\ begun = {}

Issue(g) ==
  /\ g \in Grant \ known
  /\ live' = live \cup {g}
  /\ known' = known \cup {g}
  /\ UNCHANGED <<holder, begun>>

\* Revocation or expiry.
Withdraw(g) ==
  /\ live' = live \ {g}
  /\ UNCHANGED <<known, holder, begun>>

\* A request takes a grant; the call may begin in the same step.
Take(r, g) ==
  /\ g \in live
  /\ holder[r] = NONE
  /\ live' = live \ {g}
  /\ holder' = [holder EXCEPT ![r] = g]
  /\ begun' \in {begun, begun \cup {r}}
  /\ UNCHANGED known

Begin(r) ==
  /\ holder[r] # NONE
  /\ begun' = begun \cup {r}
  /\ UNCHANGED <<live, known, holder>>

Next ==
  \/ \E g \in Grant : Issue(g) \/ Withdraw(g)
  \/ \E r \in Request : Begin(r) \/ \E g \in Grant : Take(r, g)

Spec == Init /\ [][Next]_authorityVars

-----------------------------------------------------------------------------

\* Two privileged calls are never begun on the same grant, and none without one.
OneCallPerGrant ==
  \A r \in begun : /\ holder[r] # NONE
                   /\ \A q \in begun : holder[q] = holder[r] => q = r

\* A grant is live or held by one request, never both, and begun calls hold one.
HeldApart ==
  /\ live \subseteq known
  /\ holder \in [Request -> known \cup {NONE}]
  /\ \A r \in Request : holder[r] \notin live
  /\ \A q, r \in Request : holder[q] # NONE /\ holder[q] = holder[r] => q = r
  /\ begun \subseteq {r \in Request : holder[r] # NONE}
=============================================================================
