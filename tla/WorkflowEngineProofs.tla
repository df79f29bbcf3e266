------------------------ MODULE WorkflowEngineProofs ------------------------
(***************************************************************************)
(* Proofs about WorkflowEngine, for any definitions and runs.  The safety  *)
(* properties follow from what the locals of an execution mean at its two  *)
(* kinds of place: at the head of the loop (Between) and at an await       *)
(* (Under).  RunBook says so of every run, with what its record says, in   *)
(* the store and in the exported text, once it has ended (Honest).         *)
(***************************************************************************)
EXTENDS WorkflowEngine, TLAPS

DoneUpTo(d, n) == {d.steps[i].id : i \in 1..n}

Between(run, eff) ==
    /\ run.at \in 0..Len(run.wf.steps)
    /\ run.executed = run.at
    /\ run.calls = run.at
    /\ run.done = DoneUpTo(run.wf, run.at)
    /\ Len(run.wf.steps) <= run.wf.maxActions
    /\ run.wf.maxToolCalls # 0 => run.at <= run.wf.maxToolCalls
    /\ eff = 1..run.at

Under(run, eff) ==
    /\ run.at \in 1..Len(run.wf.steps)
    /\ run.executed = run.at - 1
    /\ run.calls = run.at
    /\ run.done = DoneUpTo(run.wf, run.at - 1)
    /\ Len(run.wf.steps) <= run.wf.maxActions
    /\ run.wf.maxToolCalls # 0 => run.at <= run.wf.maxToolCalls
    /\ run.wf.steps[run.at].needs \subseteq run.done
    /\ run.status # "COMPLETED"
    /\ eff = 1..(run.at - 1)

Honest(run, eff) ==
    /\ eff = 1..run.executed
    /\ run.status = "COMPLETED" => eff = 1..Len(run.wf.steps)

Untold(r) == saved[r] = None /\ (file # None => file.runs[r] = None)

RunBook == \A r \in Run :
    /\ running[r] # None => Under(running[r], effects[r]) /\ Untold(r) /\ r \in started
    /\ saved[r] # None => Honest(saved[r], effects[r]) /\ r \in started
    /\ file # None /\ file.runs[r] # None =>
         /\ Honest(file.runs[r], effects[r])
         /\ r \in started
         /\ saved[r] # None => saved[r] = file.runs[r]
    /\ r \notin started => effects[r] = {}

Book == TypeOK /\ RunBook

-----------------------------------------------------------------------------

\* What is known of the parts of a definition.
LEMMA DefinitionTypes ==
  ASSUME NEW d \in Definition
  PROVE  d.steps \in Seq(Step) /\ d.maxActions \in Nat /\ d.maxToolCalls \in Nat
BY WorkflowAssumption

\* What the head of the loop does with a run: it ends with an honest record, or it goes on to a call
\* whose dependencies and budgets are met.
LEMMA LoopHead ==
  ASSUME NEW r \in Run, NEW run \in RunRecord, NEW eff, Between(run, eff),
         run.status # "COMPLETED", Continue(r, run)
  PROVE  \/ \E out \in RunRecord : Ends(r, out) /\ Honest(out, eff)
         \/ \E out \in RunRecord : Goes(r, out) /\ Under(out, eff)
<1>0. /\ run.wf \in Definition /\ run.at \in Nat /\ run.executed \in Nat /\ run.calls \in Nat
      /\ run.wf.steps \in Seq(Step) /\ Len(run.wf.steps) \in Nat
  BY DefinitionTypes DEF RunRecord
<1>1. CASE Completes(r, run)
  <2> DEFINE out == [run EXCEPT !.status = "COMPLETED"]
  <2>1. out \in RunRecord /\ Ends(r, out)
    BY <1>1 DEF Completes, RunRecord, RunStatus
  <2>2. out.executed = run.executed /\ out.wf = run.wf
    BY DEF RunRecord
  <2>3. Honest(out, eff)
    BY <1>1, <2>2 DEF Honest, Between, Completes
  <2>4. QED
    BY <2>1, <2>3
<1>2. CASE LacksDependency(r, run) \/ OutOfTime(r, run)
  <2> DEFINE out == [run EXCEPT !.status = "BLOCKED"]
  <2>1. out \in RunRecord /\ Ends(r, out)
    BY <1>2 DEF LacksDependency, OutOfTime, Blocks, RunRecord, RunStatus
  <2>2. out.executed = run.executed /\ out.status = "BLOCKED"
    BY DEF RunRecord
  <2>3. Honest(out, eff)
    BY <2>2 DEF Honest, Between
  <2>4. QED
    BY <2>1, <2>3
<1>3. CASE OutOfCalls(r, run) \/ UnknownCapability(r, run)
  <2>1. PICK status \in {"BLOCKED", "FAILED"} : Ends(r, [Counted(run) EXCEPT !.status = status])
    BY <1>3 DEF OutOfCalls, UnknownCapability, Blocks
  <2> DEFINE out == [Counted(run) EXCEPT !.status = status]
  <2>2. Counted(run) \in RunRecord /\ Counted(run).executed = run.executed
    BY <1>0 DEF Counted, RunRecord
  <2>3. out \in RunRecord /\ out.executed = run.executed /\ out.status # "COMPLETED"
    BY <2>2 DEF RunRecord, RunStatus
  <2>4. Honest(out, eff)
    BY <2>3 DEF Honest, Between
  <2>5. QED
    BY <2>1, <2>3, <2>4
<1>4. CASE CallsTool(r, run)
  <2> DEFINE out == [Counted(run) EXCEPT !.at = @ + 1]
  <2>1. Goes(r, out)
    BY <1>4 DEF CallsTool
  <2>2. /\ Counted(run) \in RunRecord
        /\ Counted(run).calls = run.calls + 1 /\ Counted(run).wf = run.wf
        /\ Counted(run).at = run.at /\ Counted(run).executed = run.executed
        /\ Counted(run).done = run.done /\ Counted(run).status = run.status
    BY <1>0 DEF Counted, RunRecord
  <2>3. /\ out \in RunRecord
        /\ out.calls = run.calls + 1 /\ out.wf = run.wf /\ out.at = run.at + 1
        /\ out.executed = run.executed /\ out.done = run.done /\ out.status = run.status
    BY <1>0, <2>2 DEF RunRecord
  <2>4. /\ run.at < Len(run.wf.steps)
        /\ run.wf.steps[run.at + 1].needs \subseteq run.done
    BY <1>4 DEF CallsTool, Ready, NextStep
  <2>5. run.wf.maxToolCalls # 0 => run.at + 1 <= run.wf.maxToolCalls
    <3>1. run.wf.maxToolCalls \in Nat
      BY <1>0, DefinitionTypes
    <3>2. ~OverCalls(Counted(run))
      BY <1>4 DEF CallsTool
    <3>3. QED
      BY <1>0, <2>2, <3>1, <3>2 DEF OverCalls, Between
  <2>6. out.at \in 1..Len(run.wf.steps) /\ out.at - 1 = run.at
    BY <1>0, <2>3, <2>4
  <2>7. Under(out, eff)
    BY <1>0, <2>3, <2>4, <2>5, <2>6 DEF Under, Between
  <2>8. QED
    BY <2>1, <2>3, <2>7
<1>5. QED
  BY <1>1, <1>2, <1>3, <1>4 DEF Continue

-----------------------------------------------------------------------------

\* A run that has an end recorded for it.
LEMMA EndsKeepsBook ==
  ASSUME Book, NEW r \in Run, NEW out \in RunRecord, NEW eff \in SUBSET Nat,
         Ends(r, out), Honest(out, eff), Untold(r),
         effects' = [effects EXCEPT ![r] = eff],
         started' \in SUBSET Run, started \subseteq started', r \in started',
         UNCHANGED storeVars
  PROVE  Book'
<1>1. /\ running' = [running EXCEPT ![r] = None]
      /\ saved' = [saved EXCEPT ![r] = out]
      /\ UNCHANGED <<workflows, savedWorkflows, file>>
  BY DEF Ends, storeVars
<1>2. TypeOK'
  BY <1>1 DEF Book, TypeOK
<1>3. \A q \in Run : q # r => /\ running'[q] = running[q]
                              /\ saved'[q] = saved[q]
                              /\ effects'[q] = effects[q]
  BY <1>1 DEF Book, TypeOK
<1>4. running'[r] = None /\ saved'[r] = out /\ effects'[r] = eff
  BY <1>1 DEF Book, TypeOK
<1>5. RunBook'
  BY <1>1, <1>3, <1>4 DEF Book, RunBook, Untold, Under, Honest
<1>6. QED
  BY <1>2, <1>5 DEF Book

\* A run that goes on to a call.
LEMMA GoesKeepsBook ==
  ASSUME Book, NEW r \in Run, NEW out \in RunRecord, NEW eff \in SUBSET Nat,
         Goes(r, out), Under(out, eff), Untold(r),
         effects' = [effects EXCEPT ![r] = eff],
         started' \in SUBSET Run, started \subseteq started', r \in started',
         UNCHANGED storeVars
  PROVE  Book'
<1>1. /\ running' = [running EXCEPT ![r] = out]
      /\ UNCHANGED <<workflows, savedWorkflows, file, saved>>
  BY DEF Goes, storeVars
<1>2. TypeOK'
  BY <1>1 DEF Book, TypeOK
<1>3. \A q \in Run : q # r => running'[q] = running[q] /\ effects'[q] = effects[q]
  BY <1>1 DEF Book, TypeOK
<1>4. running'[r] = out /\ effects'[r] = eff
  BY <1>1 DEF Book, TypeOK
<1>5. RunBook'
  BY <1>1, <1>3, <1>4 DEF Book, RunBook, Untold, Under, Honest
<1>6. QED
  BY <1>2, <1>5 DEF Book

-----------------------------------------------------------------------------

LEMMA ExecuteBook ==
  ASSUME Book, NEW r \in Run, NEW w \in Ids, ExecuteWorkflow(r, w)
  PROVE  Book'
<1> DEFINE run == NewRun(Get(w))
<1>1. Get(w) \in Definition
  BY DEF Get, ExecuteWorkflow, Book, TypeOK
<1>2. Len(Get(w).steps) \in Nat /\ Get(w).maxActions \in Nat
  BY <1>1, DefinitionTypes
<1>3. /\ run \in RunRecord /\ run.status = "EXECUTING" /\ run.at = 0 /\ run.executed = 0
      /\ run.calls = 0 /\ run.done = {} /\ run.wf = Get(w)
  BY <1>1 DEF NewRun, RunRecord, RunStatus
<1>4. effects[r] = {} /\ r \notin started /\ Untold(r)
  BY DEF Book, RunBook, ExecuteWorkflow, Untold
<1>5. effects' = [effects EXCEPT ![r] = {}]
  BY <1>4 DEF ExecuteWorkflow, Book, TypeOK
<1>6. /\ started' \in SUBSET Run /\ started \subseteq started' /\ r \in started'
      /\ UNCHANGED storeVars
  BY DEF ExecuteWorkflow, Book, TypeOK
<1>7. 1..0 = {} /\ DoneUpTo(Get(w), 0) = {}
  BY DEF DoneUpTo
<1>8. CASE Len(Get(w).steps) > Get(w).maxActions
  <2> DEFINE out == [run EXCEPT !.status = "BLOCKED"]
  <2>1. Ends(r, out)
    BY <1>8 DEF ExecuteWorkflow, Blocks
  <2>2. out \in RunRecord /\ out.executed = 0 /\ out.status = "BLOCKED"
    BY <1>3 DEF RunRecord, RunStatus
  <2>3. Honest(out, {})
    BY <1>7, <2>2 DEF Honest
  <2>4. QED
    BY <1>4, <1>5, <1>6, <2>1, <2>2, <2>3, EndsKeepsBook
<1>9. CASE ~(Len(Get(w).steps) > Get(w).maxActions)
  <2>1. Continue(r, run)
    BY <1>9 DEF ExecuteWorkflow
  <2>2. Between(run, {})
    <3>1. 0 \in 0..Len(Get(w).steps) /\ Len(Get(w).steps) <= Get(w).maxActions
      BY <1>2, <1>9
    <3>2. Get(w).maxToolCalls # 0 => 0 <= Get(w).maxToolCalls
      BY <1>1, DefinitionTypes
    <3>3. QED
      BY <1>3, <1>7, <3>1, <3>2 DEF Between
  <2>3. \/ \E out \in RunRecord : Ends(r, out) /\ Honest(out, {})
        \/ \E out \in RunRecord : Goes(r, out) /\ Under(out, {})
    BY <1>3, <2>1, <2>2, LoopHead
  <2>4. QED
    BY <1>4, <1>5, <1>6, <2>3, EndsKeepsBook, GoesKeepsBook
<1>10. QED
  BY <1>8, <1>9

\* What is known of a run whose answer arrives.
LEMMA AwaitingRun ==
  ASSUME Book, NEW r \in Run, running[r] # None
  PROVE  /\ running[r] \in RunRecord
         /\ Under(running[r], effects[r]) /\ Untold(r) /\ r \in started
         /\ running[r].wf \in Definition
         /\ Len(running[r].wf.steps) \in Nat
         /\ running[r].at \in Nat /\ running[r].executed \in Nat
<1>1. running[r] \in RunRecord
  BY DEF Book, TypeOK
<1>2. running[r].wf \in Definition /\ running[r].at \in Nat /\ running[r].executed \in Nat
  BY <1>1 DEF RunRecord
<1>3. Len(running[r].wf.steps) \in Nat
  BY <1>2, DefinitionTypes
<1>4. QED
  BY <1>1, <1>2, <1>3 DEF Book, RunBook

LEMMA SucceedsBook ==
  ASSUME Book, NEW r \in Run, StepSucceeds(r)
  PROVE  Book'
<1> DEFINE old == running[r]
           run == Checkpointed(old)
           eff == effects[r] \cup {old.at}
<1>1. /\ old \in RunRecord /\ Under(old, effects[r]) /\ Untold(r) /\ r \in started
      /\ old.wf \in Definition /\ Len(old.wf.steps) \in Nat
      /\ old.at \in Nat /\ old.executed \in Nat
  BY AwaitingRun DEF StepSucceeds, Awaits
<1>2. old.at \in 1..Len(old.wf.steps)
  BY <1>1 DEF Under
<1>3. old.wf.steps[old.at].id \in StepIds
  BY <1>1, <1>2 DEF StepIds
<1>4. /\ run \in RunRecord
      /\ run.wf = old.wf /\ run.at = old.at /\ run.executed = old.executed + 1
      /\ run.calls = old.calls /\ run.status = old.status
      /\ run.done = old.done \cup {old.wf.steps[old.at].id}
  <2>1. run = [old EXCEPT !.done = old.done \cup {old.wf.steps[old.at].id},
                          !.executed = old.executed + 1]
    BY DEF Checkpointed
  <2>2. /\ old.done \cup {old.wf.steps[old.at].id} \in SUBSET StepIds
        /\ old.executed + 1 \in Nat
    BY <1>1, <1>3 DEF RunRecord
  <2>3. run \in RunRecord
    BY <1>1, <2>1, <2>2 DEF RunRecord
  <2>4. QED
    BY <1>1, <2>1, <2>3 DEF RunRecord
<1>5. eff = 1..old.at /\ eff \in SUBSET Nat
  BY <1>1, <1>2 DEF Under
<1>6. run.done = DoneUpTo(old.wf, old.at)
  <2>1. 1..old.at = (1..(old.at - 1)) \cup {old.at}
    BY <1>1, <1>2
  <2>2. old.done = DoneUpTo(old.wf, old.at - 1)
    BY <1>1 DEF Under
  <2>3. QED
    BY <1>4, <2>1, <2>2 DEF DoneUpTo
<1>7. Between(run, eff)
  BY <1>1, <1>2, <1>4, <1>5, <1>6 DEF Between, Under
<1>8. run.status # "COMPLETED"
  BY <1>1, <1>4 DEF Under
<1>9. Continue(r, run) /\ effects' = [effects EXCEPT ![r] = eff]
  BY DEF StepSucceeds
<1>10. \/ \E out \in RunRecord : Ends(r, out) /\ Honest(out, eff)
       \/ \E out \in RunRecord : Goes(r, out) /\ Under(out, eff)
  BY <1>4, <1>7, <1>8, <1>9, LoopHead
<1>11. /\ started' \in SUBSET Run /\ started \subseteq started' /\ r \in started'
       /\ UNCHANGED storeVars
  BY <1>1 DEF StepSucceeds, Book, TypeOK
<1>12. QED
  BY <1>1, <1>5, <1>9, <1>10, <1>11, EndsKeepsBook, GoesKeepsBook

\* The steps that end a run at its await, or send it to its compensation.
LEMMA AwaitLeftBook ==
  ASSUME Book, NEW r \in Run,
         StepWaitsApproval(r) \/ StepFails(r) \/ UndoReturns(r)
  PROVE  Book'
<1> DEFINE old == running[r]
<1>1. /\ old \in RunRecord /\ Under(old, effects[r]) /\ Untold(r) /\ r \in started
      /\ old.at \in Nat /\ old.executed \in Nat
  BY AwaitingRun DEF StepWaitsApproval, StepFails, UndoReturns, Awaits
<1>2. /\ effects' = [effects EXCEPT ![r] = effects[r]] /\ effects[r] \in SUBSET Nat
      /\ started' \in SUBSET Run /\ started \subseteq started' /\ r \in started'
      /\ UNCHANGED storeVars
  BY <1>1 DEF StepWaitsApproval, StepFails, UndoReturns, Book, TypeOK
<1>3. \A out \in RunRecord :
        out.executed = old.executed /\ out.status # "COMPLETED" => Honest(out, effects[r])
  BY <1>1 DEF Honest, Under
<1>4. \A status \in RunStatus :
        LET out == [old EXCEPT !.status = status] IN
        /\ out \in RunRecord /\ out.executed = old.executed /\ out.status = status
        /\ status # "COMPLETED" => Under([out EXCEPT !.place = "undo"], effects[r])
        /\ [out EXCEPT !.place = "undo"] \in RunRecord
  BY <1>1 DEF RunRecord, Under
<1>5. CASE StepWaitsApproval(r)
  <2> DEFINE out == [old EXCEPT !.status = "WAITING_APPROVAL"]
  <2>1. out \in RunRecord /\ Honest(out, effects[r]) /\ Ends(r, out)
    BY <1>3, <1>4, <1>5 DEF StepWaitsApproval, RunStatus
  <2>2. QED
    BY <1>1, <1>2, <2>1, EndsKeepsBook
<1>6. CASE StepFails(r)
  <2> DEFINE out == [old EXCEPT !.status = "FAILED"]
  <2>1. "FAILED" \in RunStatus
    BY DEF RunStatus
  <2>2. out \in RunRecord /\ Honest(out, effects[r])
    BY <1>3, <1>4, <2>1
  <2>3. /\ [out EXCEPT !.place = "undo"] \in RunRecord
        /\ Under([out EXCEPT !.place = "undo"], effects[r])
    BY <1>4, <2>1
  <2>4. Ends(r, out) \/ Goes(r, [out EXCEPT !.place = "undo"])
    BY <1>6 DEF StepFails
  <2>5. QED
    BY <1>1, <1>2, <2>2, <2>3, <2>4, EndsKeepsBook, GoesKeepsBook
<1>7. CASE UndoReturns(r)
  <2>1. Ends(r, old) /\ Honest(old, effects[r])
    BY <1>1, <1>3, <1>7 DEF UndoReturns, Under
  <2>2. QED
    BY <1>1, <1>2, <2>1, EndsKeepsBook
<1>8. QED
  BY <1>5, <1>6, <1>7

LEMMA RegisterBook ==
  ASSUME Book, NEW d \in Definition, RegisterWorkflow(d)
  PROVE  Book'
<1>1. d.id \in Ids
  BY DEF Ids
<1>2. TypeOK'
  BY <1>1 DEF Book, TypeOK, RegisterWorkflow
<1>3. RunBook'
  BY DEF Book, RunBook, Untold, RegisterWorkflow
<1>4. QED
  BY <1>2, <1>3 DEF Book

LEMMA ExportBook ==
  ASSUME Book, ExportDurableState
  PROVE  Book'
<1>1. file' = [workflows |-> savedWorkflows, runs |-> saved]
  BY DEF ExportDurableState
<1>2. file'.runs = saved
  BY <1>1
<1>3. TypeOK'
  BY <1>1 DEF Book, TypeOK, ExportDurableState
<1>4. RunBook'
  BY <1>2 DEF Book, RunBook, Untold, ExportDurableState
<1>5. QED
  BY <1>3, <1>4 DEF Book

LEMMA RecoverBook ==
  ASSUME Book, RecoverFromState
  PROVE  Book'
<1>1. /\ file # None
      /\ savedWorkflows' = Loaded(savedWorkflows, file.workflows)
      /\ saved' = Loaded(saved, file.runs)
      /\ UNCHANGED <<workflows, running, file, started, effects>>
  BY DEF RecoverFromState
<1>2. file \in [workflows : [Ids -> Definition \cup {None}], runs : [Run -> RunRecord \cup {None}]]
  BY <1>1 DEF Book, TypeOK
<1>3. TypeOK'
  BY <1>1, <1>2 DEF Book, TypeOK, Loaded
<1>4. \A r \in Run : saved'[r] = IF file.runs[r] # None THEN file.runs[r] ELSE saved[r]
  BY <1>1 DEF Book, TypeOK, Loaded
<1>5. RunBook'
  BY <1>1, <1>4 DEF Book, RunBook, Untold
<1>6. QED
  BY <1>3, <1>5 DEF Book

LEMMA FreshTypes == Fresh \in [Ids -> Definition \cup {None}]
BY WorkflowAssumption DEF Fresh

LEMMA RestartBook ==
  ASSUME Book, Restart
  PROVE  Book'
<1>1. TypeOK'
  BY FreshTypes DEF Book, TypeOK, Restart, NoRuns
<1>2. RunBook'
  BY DEF Book, RunBook, Restart, NoRuns
<1>3. QED
  BY <1>1, <1>2 DEF Book

LEMMA InitBook == Init => Book
<1>1. Init => TypeOK
  BY FreshTypes DEF Init, TypeOK, NoRuns
<1>2. Init => RunBook
  BY DEF Init, RunBook, NoRuns
<1>3. QED
  BY <1>1, <1>2 DEF Book

LEMMA StepBook ==
  ASSUME Book, [Next]_vars
  PROVE  Book'
<1>1. CASE \E d \in Definition : RegisterWorkflow(d)
  BY <1>1, RegisterBook
<1>2. CASE \E r \in Run, w \in Ids : ExecuteWorkflow(r, w)
  BY <1>2, ExecuteBook
<1>3. CASE \E r \in Run : StepSucceeds(r)
  BY <1>3, SucceedsBook
<1>4. CASE \E r \in Run : StepWaitsApproval(r) \/ StepFails(r) \/ UndoReturns(r)
  BY <1>4, AwaitLeftBook
<1>5. CASE ExportDurableState
  BY <1>5, ExportBook
<1>6. CASE RecoverFromState
  BY <1>6, RecoverBook
<1>7. CASE Restart
  BY <1>7, RestartBook
<1>8. CASE UNCHANGED vars
  <2>1. TypeOK'
    BY <1>8 DEF Book, TypeOK, vars
  <2>2. RunBook'
    BY <1>8 DEF Book, RunBook, Untold, vars
  <2>3. QED
    BY <2>1, <2>2 DEF Book
<1>9. QED
  BY <1>1, <1>2, <1>3, <1>4, <1>5, <1>6, <1>7, <1>8 DEF Next

\* The inductive invariant.
THEOREM BookHolds == Spec => []Book
<1>1. Book /\ [Next]_vars => Book'
  BY StepBook
<1>2. QED
  BY InitBook, <1>1, PTL DEF Spec

\* Type correctness of the engine and its store.
THEOREM WorkflowTypes == Spec => []TypeOK
<1>1. Book => TypeOK
  BY DEF Book
<1>2. QED
  BY BookHolds, <1>1, PTL

\* Calls come after the successes they depend on (engine.ts:121).
THEOREM DependenciesHold == Spec => []DependenciesFirst
<1>1. Book => DependenciesFirst
  <2>1. SUFFICES ASSUME Book, NEW r \in Run, Awaits(r, "step"), NEW need \in Current(r).needs
                 PROVE  \E i \in effects[r] : /\ i < running[r].at
                                             /\ running[r].wf.steps[i].id = need
    BY DEF DependenciesFirst
  <2>2. Under(running[r], effects[r]) /\ running[r].at \in Nat
    BY <2>1, AwaitingRun DEF Awaits
  <2>3. need \in DoneUpTo(running[r].wf, running[r].at - 1)
    BY <2>1, <2>2 DEF Under, Current
  <2>4. PICK i \in 1..(running[r].at - 1) : running[r].wf.steps[i].id = need
    BY <2>3 DEF DoneUpTo
  <2>5. QED
    BY <2>2, <2>4 DEF Under
<1>2. QED
  BY BookHolds, <1>1, PTL

\* No call is made over the budget (engine.ts:107, 144).
THEOREM BudgetHolds == Spec => []WithinBudget
<1>1. Book => WithinBudget
  BY DEF Book, RunBook, Under, WithinBudget
<1>2. QED
  BY BookHolds, <1>1, PTL

\* Recorded outcomes are true (engine.ts:221-247).
THEOREM RunsAreHonest == Spec => []HonestRuns
<1>1. Book => HonestRuns
  BY DEF Book, RunBook, Honest, HonestRuns
<1>2. QED
  BY BookHolds, <1>1, PTL

\* A recorded outcome is never replaced by another (engine.ts:249, persistence.ts:63).
THEOREM OutcomesAreFinal == Spec => OutcomeIsFinal
<1> DEFINE Final == \A r \in Run : saved[r] # None /\ saved'[r] # None => saved'[r] = saved[r]
<1>1. Book /\ [Next]_vars => [Final]_vars
  <2>1. SUFFICES ASSUME Book, [Next]_vars, NEW r \in Run, saved[r] # None, saved'[r] # None
                 PROVE  saved'[r] = saved[r]
    OBVIOUS
  <2>2. running[r] = None /\ r \in started
    BY <2>1 DEF Book, RunBook, Untold
  <2>3. \A q \in Run : \A out : q # r /\ (Ends(q, out) \/ Goes(q, out)) => saved'[r] = saved[r]
    <3>1. saved \in [Run -> RunRecord \cup {None}]
      BY <2>1 DEF Book, TypeOK
    <3>2. SUFFICES ASSUME NEW q \in Run, NEW out, q # r, Ends(q, out) \/ Goes(q, out)
                   PROVE  saved'[r] = saved[r]
      OBVIOUS
    <3>3. CASE Goes(q, out)
      BY <3>3 DEF Goes
    <3>4. CASE Ends(q, out)
      <4>1. saved' = [saved EXCEPT ![q] = out]
        BY <3>4 DEF Ends
      <4>2. QED
        BY <3>1, <3>2, <4>1
    <3>5. QED
      BY <3>2, <3>3, <3>4
  <2>4. \A q \in Run : \A run : q # r /\ Continue(q, run) => saved'[r] = saved[r]
    BY <2>3 DEF Continue, Completes, LacksDependency, OutOfTime, OutOfCalls,
                UnknownCapability, CallsTool, Blocks
  <2>5. CASE \E q \in Run, w \in Ids : ExecuteWorkflow(q, w)
    BY <2>2, <2>3, <2>4, <2>5 DEF ExecuteWorkflow, Blocks
  <2>6. CASE \E q \in Run : StepSucceeds(q)
    BY <2>2, <2>4, <2>6 DEF StepSucceeds, Awaits
  <2>7. CASE \E q \in Run : StepWaitsApproval(q) \/ StepFails(q) \/ UndoReturns(q)
    BY <2>2, <2>3, <2>7 DEF StepWaitsApproval, StepFails, UndoReturns, Awaits
  <2>8. CASE RecoverFromState
    <3>1. saved'[r] = IF file.runs[r] # None THEN file.runs[r] ELSE saved[r]
      <4>1. saved \in [Run -> RunRecord \cup {None}]
        BY <2>1 DEF Book, TypeOK
      <4>2. saved' = Loaded(saved, file.runs)
        BY <2>8 DEF RecoverFromState
      <4>3. QED
        BY <4>1, <4>2 DEF Loaded
    <3>2. QED
      BY <2>1, <2>8, <3>1 DEF RecoverFromState, Book, RunBook
  <2>9. CASE Restart
    BY <2>1, <2>9 DEF Restart, NoRuns
  <2>10. CASE UNCHANGED saved
    BY <2>10
  <2>11. QED
    BY <2>1, <2>5, <2>6, <2>7, <2>8, <2>9, <2>10
    DEF Next, vars, RegisterWorkflow, ExportDurableState
<1>2. QED
  BY BookHolds, <1>1, PTL DEF Spec, OutcomeIsFinal

\* What a run dispatches comes after what it depends on and within its budgets.
THEOREM BoundsHold == Spec => []RunsWithinBounds
<1>1. DependenciesFirst /\ WithinBudget => RunsWithinBounds
  BY DEF RunsWithinBounds
<1>2. QED
  BY <1>1, DependenciesHold, BudgetHolds, PTL
=============================================================================
