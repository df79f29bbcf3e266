-------------------------- MODULE MCWorkflowEngine --------------------------
(***************************************************************************)
(* Small instances of WorkflowEngine: the built-in workflow, one active    *)
(* workflow with a revision of the same version and one of the next, and   *)
(* workflows that meet every way to be blocked.                            *)
(***************************************************************************)
EXTENDS WorkflowEngine

One(id, needs, undo) == [id |-> id, needs |-> needs, known |-> TRUE, undo |-> undo]

Invoice ==
    [id |-> "invoice", version |-> 1, trust |-> "ACTIVE", maxActions |-> 10, maxToolCalls |-> 20,
     steps |-> <<One("find", {}, "none"), One("archive", {"find"}, "none")>>]

\* One identifier with four definitions: an active one whose second call exceeds its budget, a
\* revision of the same version whose second capability has no tool, an approved one that
\* depends on a later step, and a next version with more steps than it may have.
Backup(version, trust, actions, calls, steps) ==
    [id |-> "backup", version |-> version, trust |-> trust, maxActions |-> actions,
     maxToolCalls |-> calls, steps |-> steps]

Copy == One("copy", {}, "known")
Check == One("check", {"copy"}, "unknown")

Costly == Backup(1, "ACTIVE", 2, 1, <<Copy, Check>>)
Revised == Backup(1, "ACTIVE", 2, 0, <<Copy, [Check EXCEPT !.known = FALSE]>>)
Tangled == Backup(2, "APPROVED", 2, 0, <<Check, Copy>>)
Endless == Backup(3, "ACTIVE", 1, 0, <<Copy, Check>>)

AllDefinitions == {Invoice, Costly, Revised, Tangled, Endless}
=============================================================================
