-------------------------- MODULE MCAutonomyEngine --------------------------
(***************************************************************************)
(* Small instances of AutonomyEngine: a status query, a disabled routine,  *)
(* a deletion that needs an approval, an update no tool exists for and a   *)
(* prompt that is not understood.                                          *)
(***************************************************************************)
EXTENDS AutonomyEngine, TLC

Plain(capability) ==
    [enabled |-> TRUE, sound |-> TRUE, timed |-> FALSE, known |-> TRUE, capability |-> capability,
     risky |-> FALSE, tool |-> TRUE]

Query == [Plain("runtime.status") EXCEPT !.timed = TRUE]
Off == [Plain("runtime.status") EXCEPT !.enabled = FALSE]
Delete == [Plain("filesystem.delete") EXCEPT !.risky = TRUE]
Update == [Plain("kingdom.update") EXCEPT !.risky = TRUE, !.tool = FALSE]
Mumble == [Plain("none") EXCEPT !.known = FALSE]

AllRoutines == <<Query, Off, Delete, Update, Mumble>>

ThreadSymmetry == Permutations(Thread)
=============================================================================
