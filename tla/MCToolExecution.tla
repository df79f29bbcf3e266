--------------------------- MODULE MCToolExecution ---------------------------
(***************************************************************************)
(* A small instance of ToolExecution: a read of Kingdom's tasks, a         *)
(* mutating tool, two CRITICAL local ones, with and without their Node     *)
(* module, and workloads in which invocations share a grant, an            *)
(* idempotency key, a tool or an approval.                                 *)
(***************************************************************************)
EXTENDS ToolExecution, SequencesExt

CONSTANTS g1, g2, a1, k1

Def(category, risk, approval) ==
  [category |-> category, risk |-> risk, requiresApproval |-> approval]

MCToolDef ==
  [t \in Registered |->
     CASE t = "get"    -> Def("READ_ONLY", "LOW", FALSE)
       [] t = "submit" -> Def("MUTATING", "MEDIUM", FALSE)
       [] t = "delete" -> Def("PRIVILEGED", "CRITICAL", TRUE)
       [] t = "run"    -> Def("PRIVILEGED", "CRITICAL", TRUE)]

Session(v) == [f \in BoundField |-> v]

\* g1 serves any session, g2 one session, one parameter hash and an approval.
MCOffers ==
  {[g \in Grant |->
     IF g = g1
       THEN [capability |-> "fs", agent |-> "ai", bound |-> Session(NONE),
             hash |-> NONE, scope |-> {"file"}, approval |-> NONE]
       ELSE [capability |-> "fs", agent |-> "ai", bound |-> Session("s1"),
             hash |-> "p1", scope |-> {"file"}, approval |-> a1]]}

Call(tool, grant, key) ==
  [tool |-> tool, depth |-> 0, complete |-> TRUE, grant |-> grant, approval |-> NONE,
   capability |-> "fs", agent |-> "ai", bound |-> Session("s1"), params |-> "p1",
   hash |-> "p1", resource |-> "file", key |-> key]

\* Workloads as sequences: the i-th invocation is that of the i-th request.
Load(s) ==
  LET order == SetToSeq(Request)
  IN [r \in Request |-> s[CHOOSE i \in DOMAIN order : order[i] = r]]

\* Retries under one key, on one grant and on two; contention for the approved
\* grant; a read that keeps failing; a simulated call retried under its key beside a
\* real one.
MCWorkloads ==
  {Load(<<Call("submit", g1, k1), Call("submit", g1, k1), Call("submit", g2, k1)>>),
   Load(<<Call("delete", g2, NONE), Call("delete", g2, NONE), Call("submit", g1, NONE)>>),
   Load(<<Call("get", NONE, k1), Call("get", NONE, k1), Call("get", NONE, NONE)>>),
   Load(<<Call("run", g1, k1), Call("run", g2, k1), Call("delete", g2, NONE)>>)}

\* Invocations refused on the way in, two at a time, and two remote ones on grants
\* of their own, of which one failure may stop the other at the circuit.
MCRefusals ==
  LET deep  == [Call("submit", g1, NONE) EXCEPT !.depth = MaxChainDepth + 1]
      ghost == Call("ghost", g1, NONE)
      bare  == Call("submit", NONE, NONE)
      ask   == Call("delete", NONE, NONE)
      stray == [Call("submit", g1, NONE) EXCEPT !.resource = "other"]
      other == [Call("delete", g2, NONE) EXCEPT !.params = "p2"]
      good  == Call("delete", g2, NONE)
  IN {Load(<<x, y>>) : x \in {deep, ghost, bare, ask, stray, other}, y \in {good, ask}}
       \cup {Load(<<Call("submit", g1, NONE), Call("submit", g2, NONE)>>)}

=============================================================================
