--------------------------- MODULE WorkflowEngine ---------------------------
(***************************************************************************)
(* Workflow runs and their persistence: src/workflow/engine.ts and         *)
(* src/workflow/persistence.ts, for any number of runs at once.            *)
(*                                                                         *)
(* executeWorkflow() awaits the tool executor only: the entry up to the    *)
(* first call is one step, and so is what follows each answer up to the    *)
(* next call.  The executor is ToolExecution, of which a run sees the      *)
(* status of an answer.  Everything is kept in memory; what outlives the   *)
(* process is the text exportDurableState() returned last.  A text whose   *)
(* signature does not match is refused before anything is read from it.    *)
(***************************************************************************)
EXTENDS Integers, Sequences

CONSTANTS
    Definition,     \* workflow definitions that are registered
    Default,        \* the one the constructor registers
    Run,            \* identifiers of runs
    None

Ids == {d.id : d \in Definition}
StepIds == UNION {{d.steps[i].id : i \in DOMAIN d.steps} : d \in Definition}

\* needs is dependsOnStepIds, known says that the registry has a tool for the capability, undo
\* what the compensating action's capability resolves to.
Step == [id : StepIds, needs : SUBSET StepIds, known : BOOLEAN,
         undo : {"none", "unknown", "known"}]

ASSUME WorkflowAssumption ==
    /\ Default \in Definition
    /\ None \notin Definition
    /\ \A d \in Definition :
         /\ d.steps \in Seq(Step)
         /\ d.trust \in {"DRAFT", "REVIEW_REQUIRED", "APPROVED", "ACTIVE", "BLOCKED", "REVOKED"}
         /\ d.maxActions \in Nat
         /\ d.maxToolCalls \in Nat      \* 0 when the budget leaves it out

VARIABLES
    workflows,      \* the engine's definitions
    savedWorkflows, \* the store's
    running,        \* the local run object of each executeWorkflow() under way
    saved,          \* runs of the engine and the store: both are set at once
    file,           \* the last exported state
    started,        \* history: run identifiers drawn
    effects         \* history: steps the executor reported to have succeeded

storeVars == <<workflows, savedWorkflows, file>>
vars == <<workflows, savedWorkflows, running, saved, file, started, effects>>

\* A WorkflowExecutionRun with the locals of its execution.  at is the index of the step under
\* way and executed the number of checkpoints; calls is toolCallsCount; place tells which
\* call of the executor is awaited.
RunStatus == {"EXECUTING", "COMPLETED", "BLOCKED", "FAILED", "WAITING_APPROVAL"}
RunRecord == [wf : Definition, status : RunStatus, at : Nat, executed : Nat, calls : Nat,
              done : SUBSET StepIds, place : {"step", "undo"}]

TypeOK ==
    /\ workflows \in [Ids -> Definition \cup {None}]
    /\ savedWorkflows \in [Ids -> Definition \cup {None}]
    /\ running \in [Run -> RunRecord \cup {None}]
    /\ saved \in [Run -> RunRecord \cup {None}]
    /\ \/ file = None
       \/ file \in [workflows : [Ids -> Definition \cup {None}], runs : [Run -> RunRecord \cup {None}]]
    /\ started \in SUBSET Run
    /\ effects \in [Run -> SUBSET Nat]

\* initDefaultWorkflows(), with an empty store.
Fresh == [w \in Ids |-> IF w = Default.id THEN Default ELSE None]
NoRuns == [r \in Run |-> None]

Init ==
    /\ workflows = Fresh
    /\ savedWorkflows = Fresh
    /\ running = NoRuns
    /\ saved = NoRuns
    /\ file = None
    /\ started = {}
    /\ effects = [r \in Run |-> {}]

-----------------------------------------------------------------------------
(* Definitions *)

\* getWorkflow(): the engine's definition, else the store's.
Get(w) == IF workflows[w] # None THEN workflows[w] ELSE savedWorkflows[w]

Immutable(d) ==
    /\ workflows[d.id] # None
    /\ workflows[d.id].trust = "ACTIVE"
    /\ workflows[d.id].version = d.version

\* proposeGeneratedWorkflow() is this with a DRAFT of a new identifier.
RegisterWorkflow(d) ==
    /\ ~Immutable(d)
    /\ workflows' = [workflows EXCEPT ![d.id] = d]
    /\ savedWorkflows' = [savedWorkflows EXCEPT ![d.id] = d]
    /\ UNCHANGED <<running, saved, file, started, effects>>

-----------------------------------------------------------------------------
(* Runs *)

Goes(r, run) == running' = [running EXCEPT ![r] = run] /\ UNCHANGED saved

Ends(r, run) ==
    /\ running' = [running EXCEPT ![r] = None]
    /\ saved' = [saved EXCEPT ![r] = run]

Blocks(r, run) == Ends(r, [run EXCEPT !.status = "BLOCKED"])

NextStep(run) == run.wf.steps[run.at + 1]

Ready(run) == NextStep(run).needs \subseteq run.done
Counted(run) == [run EXCEPT !.calls = @ + 1]

\* Mutant: the limit is off by one.
OverCallsByOne(run) == run.wf.maxToolCalls # 0 /\ run.calls > run.wf.maxToolCalls + 1

OverCalls(run) == run.wf.maxToolCalls # 0 /\ run.calls > run.wf.maxToolCalls

Completes(r, run) ==
    /\ run.at = Len(run.wf.steps)
    /\ Ends(r, [run EXCEPT !.status = "COMPLETED"])

LacksDependency(r, run) ==
    /\ run.at < Len(run.wf.steps)
    /\ ~Ready(run)
    /\ Blocks(r, run)

\* The clock may be found past the runtime budget at any head of the loop.
OutOfTime(r, run) ==
    /\ run.at < Len(run.wf.steps)
    /\ Ready(run)
    /\ Blocks(r, run)

OutOfCalls(r, run) ==
    /\ run.at < Len(run.wf.steps)
    /\ Ready(run)
    /\ OverCalls(Counted(run))
    /\ Blocks(r, Counted(run))

UnknownCapability(r, run) ==
    /\ run.at < Len(run.wf.steps)
    /\ Ready(run)
    /\ ~OverCalls(Counted(run))
    /\ ~NextStep(run).known
    /\ Ends(r, [Counted(run) EXCEPT !.status = "FAILED"])

CallsTool(r, run) ==
    /\ run.at < Len(run.wf.steps)
    /\ Ready(run)
    /\ ~OverCalls(Counted(run))
    /\ NextStep(run).known
    /\ Goes(r, [Counted(run) EXCEPT !.at = @ + 1])

\* One turn of the loop over the steps, from its head to the await or an end.
Continue(r, run) ==
    \/ Completes(r, run)
    \/ LacksDependency(r, run)
    \/ OutOfTime(r, run)
    \/ OutOfCalls(r, run)
    \/ UnknownCapability(r, run)
    \/ CallsTool(r, run)

NewRun(d) == [wf |-> d, status |-> "EXECUTING", at |-> 0, executed |-> 0, calls |-> 0,
              done |-> {}, place |-> "step"]

\* Workflows that are unknown or not trusted are refused with an exception and no run.
ExecuteWorkflow(r, w) ==
    /\ r \notin started
    /\ Get(w) # None
    /\ Get(w).trust \in {"ACTIVE", "APPROVED"}
    /\ started' = started \cup {r}
    /\ IF Len(Get(w).steps) > Get(w).maxActions
       THEN Blocks(r, NewRun(Get(w)))
       ELSE Continue(r, NewRun(Get(w)))
    /\ UNCHANGED <<storeVars, effects>>

Awaits(r, place) == running[r] # None /\ running[r].place = place
Current(r) == running[r].wf.steps[running[r].at]

\* The step is completed and its checkpoint recorded, in the run object.
Checkpointed(run) == [run EXCEPT !.done = @ \cup {run.wf.steps[run.at].id},
                                 !.executed = @ + 1]

StepSucceeds(r) ==
    /\ Awaits(r, "step")
    /\ effects' = [effects EXCEPT ![r] = @ \cup {running[r].at}]
    /\ Continue(r, Checkpointed(running[r]))
    /\ UNCHANGED <<storeVars, started>>

\* Mutant: the waiting run is saved and its execution left open for the approval.
StepParks(r) ==
    /\ Awaits(r, "step")
    /\ saved[r] = None
    /\ saved' = [saved EXCEPT ![r] = [running[r] EXCEPT !.status = "WAITING_APPROVAL"]]
    /\ UNCHANGED <<running, storeVars, started, effects>>

\* A run that waits for an approval has returned; nothing resumes it.
StepWaitsApproval(r) ==
    /\ Awaits(r, "step")
    /\ Ends(r, [running[r] EXCEPT !.status = "WAITING_APPROVAL"])
    /\ UNCHANGED <<storeVars, started, effects>>

\* Mutant: a failed step without a compensation is passed over.
StepFailureSkipped(r) ==
    /\ Awaits(r, "step")
    /\ IF Current(r).undo = "known"
       THEN Goes(r, [running[r] EXCEPT !.status = "FAILED", !.place = "undo"])
       ELSE Continue(r, running[r])
    /\ UNCHANGED <<storeVars, started, effects>>

\* BLOCKED, FAILED or TIMEOUT: the compensating action is called if it can be.
StepFails(r) ==
    /\ Awaits(r, "step")
    /\ LET run == [running[r] EXCEPT !.status = "FAILED"] IN
       IF Current(r).undo = "known"
       THEN Goes(r, [run EXCEPT !.place = "undo"])
       ELSE Ends(r, run)
    /\ UNCHANGED <<storeVars, started, effects>>

\* Mutant: a compensated run gets a status of its own, which no caller knows.
UndoReported(r) ==
    /\ Awaits(r, "undo")
    /\ Ends(r, [running[r] EXCEPT !.status = "COMPENSATED"])
    /\ UNCHANGED <<storeVars, started, effects>>

\* Mutant: after its compensation the step is tried again.
UndoThenRetry(r) ==
    /\ Awaits(r, "undo")
    /\ Goes(r, [running[r] EXCEPT !.status = "EXECUTING", !.place = "step"])
    /\ UNCHANGED <<storeVars, started, effects>>

\* Whatever the compensation answers is ignored.
UndoReturns(r) ==
    /\ Awaits(r, "undo")
    /\ Ends(r, running[r])
    /\ UNCHANGED <<storeVars, started, effects>>

-----------------------------------------------------------------------------
(* Persistence *)

ExportDurableState ==
    /\ file' = [workflows |-> savedWorkflows, runs |-> saved]
    /\ UNCHANGED <<workflows, savedWorkflows, running, saved, started, effects>>

Loaded(old, new) == [x \in DOMAIN old |-> IF new[x] # None THEN new[x] ELSE old[x]]

\* Only the store is loaded; the engine's definitions stay what they are.
RecoverFromState ==
    /\ file # None
    /\ savedWorkflows' = Loaded(savedWorkflows, file.workflows)
    /\ saved' = Loaded(saved, file.runs)
    /\ UNCHANGED <<workflows, running, file, started, effects>>

\* The process ends with the runs under way; a new one starts with an empty store.
Restart ==
    /\ workflows' = Fresh
    /\ savedWorkflows' = Fresh
    /\ running' = NoRuns
    /\ saved' = NoRuns
    /\ UNCHANGED <<file, started, effects>>

Next ==
    \/ \E d \in Definition : RegisterWorkflow(d)
    \/ \E r \in Run, w \in Ids : ExecuteWorkflow(r, w)
    \/ \E r \in Run : StepSucceeds(r)
    \/ \E r \in Run : StepWaitsApproval(r)
    \/ \E r \in Run : StepFails(r)
    \/ \E r \in Run : UndoReturns(r)
    \/ ExportDurableState
    \/ RecoverFromState
    \/ Restart

\* An assumption about the executor: it answers every call.  ToolExecution!EveryCallAnswered shows
\* that it does, unless the body of an answer that Kingdom began never ends.
Fairness ==
    \A r \in Run : /\ WF_vars(StepSucceeds(r) \/ StepWaitsApproval(r) \/ StepFails(r))
                   /\ WF_vars(UndoReturns(r))

Spec == Init /\ [][Next]_vars
FairSpec == Spec /\ Fairness

-----------------------------------------------------------------------------
(* Properties *)

\* A tool is called for a step only after the executor reported success for steps of this same
\* run that carry the identifiers it depends on, whatever a revised definition says meanwhile.
DependenciesFirst ==
    \A r \in Run : Awaits(r, "step") =>
        \A need \in Current(r).needs :
            \E i \in effects[r] : i < running[r].at /\ running[r].wf.steps[i].id = need

\* The budgets of steps and of step calls hold at every call: the count that finds a budget
\* exceeded is never dispatched.
WithinBudget ==
    \A r \in Run : running[r] # None =>
        /\ Len(running[r].wf.steps) <= running[r].wf.maxActions
        /\ running[r].wf.maxToolCalls # 0 => running[r].at <= running[r].wf.maxToolCalls

\* What is dispatched comes after what it depends on and within the budgets of its run, whatever
\* becomes of the definition meanwhile.
RunsWithinBounds == DependenciesFirst /\ WithinBudget

\* A run is reported COMPLETED, then or after a recovery, only if every one of its steps
\* was reported to have succeeded, and its checkpoints count exactly the steps that were.
HonestRuns ==
    \A r \in Run : saved[r] # None =>
        /\ effects[r] = 1..saved[r].executed
        /\ saved[r].status = "COMPLETED" => effects[r] = 1..Len(saved[r].wf.steps)

\* The outcome of a run is final: no late answer, compensation or recovery of an older export
\* replaces the record of a run by another.
OutcomeIsFinal ==
    [][\A r \in Run : saved[r] # None /\ saved'[r] # None => saved'[r] = saved[r]]_vars

\* Whatever the executor answers, and if it answers, every run comes to an end, or with the process.
RunsEnd == \A r \in Run : running[r] # None ~> running[r] = None
=============================================================================
