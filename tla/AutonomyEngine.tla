--------------------------- MODULE AutonomyEngine ---------------------------
(***************************************************************************)
(* Autonomous routines: src/ai/autonomyEngine.ts with the pipeline that    *)
(* runs a routine's prompt (src/ai/pipeline.ts, permissionGate.ts,         *)
(* actionExecutor.ts).                                                     *)
(*                                                                         *)
(* A thread is one run of the interval's callback (a tick) or one call of  *)
(* executeRoutine() from elsewhere.  Threads are cut at their awaits: the  *)
(* permission gate, the tool executor, and the awaits of process(), of     *)
(* executeRoutine() and of the remediation, which let other threads in     *)
(* between.  Kingdom and the tool executor answer anything; neither        *)
(* rejects, because the gate and the executor turn errors into answers.    *)
(* The errors of executeRoutine() contain none of the words that           *)
(* incidentManager looks for, so their remediation always "resolves" and   *)
(* the routine is tried a second time.                                     *)
(***************************************************************************)
EXTENDS Naturals, Sequences, FiniteSets

CONSTANTS
    Thread, None,
    Routines,       \* the list given to startSelfRunningLoop()
    Capability,     \* of the plans, and "none"
    Level,          \* the autonomy levels in use, as numbers
    HistoryLimit,   \* 50 in the code
    MaxStops        \* bound: no loop is started once this many were stopped

\* A routine with what the planner makes of its prompt: sound says that its risk ceiling and its
\* budget of actions pass, risky that the plan needs an approval or has a HIGH or CRITICAL risk,
\* tool that the registry has a tool for its capability, and timed that its runtime is limited.
Routine == [enabled : BOOLEAN, sound : BOOLEAN, timed : BOOLEAN, known : BOOLEAN,
            capability : Capability, risky : BOOLEAN, tool : BOOLEAN]

\* Where a thread is: at the permission gate (waiting for Kingdom, or with the gate's own verdict
\* to permit or deny), in the tool executor, with process() answered, or with the promise of
\* executeRoutine() rejected or fulfilled.  A second attempt is the retry after a remediation.
Place == {"gate", "permitted", "denied", "executor", "answered", "thrown", "returned"}
Record == [kind : {"tick", "call"}, at : 1..Len(Routines), attempt : 1..2, place : Place]

ASSUME AutonomyAssumption ==
    /\ IsFiniteSet(Thread)
    /\ None \notin Thread \cup Record
    /\ "none" \in Capability
    /\ Routines \in Seq(Routine)
    /\ Level \subseteq 0..4
    /\ 0 \in Level
    /\ HistoryLimit \in Nat /\ HistoryLimit >= 3
    /\ MaxStops \in Nat

VARIABLES
    level,
    killSwitchActive,
    loopTimer,          \* the interval is set
    isLoopTickRunning,
    activeRunId,        \* the thread whose run it names
    actionHistory,      \* capabilities of the runs that completed
    thread,
    stops,              \* history: how often a set interval was cleared
    repeats             \* history: how often in a row the last capability was recorded

vars == <<level, killSwitchActive, loopTimer, isLoopTickRunning, activeRunId, actionHistory,
          thread, stops, repeats>>
switchVars == <<level, killSwitchActive, loopTimer, stops>>
historyVars == <<actionHistory, repeats>>

TypeOK ==
    /\ level \in Level
    /\ killSwitchActive \in BOOLEAN
    /\ loopTimer \in BOOLEAN
    /\ isLoopTickRunning \in BOOLEAN
    /\ activeRunId \in Thread \cup {None}
    /\ actionHistory \in Seq(Capability)
    /\ Len(actionHistory) <= HistoryLimit
    /\ thread \in [Thread -> Record \cup {None}]
    /\ stops \in Nat
    /\ repeats \in Nat

Init ==
    /\ level = 0
    /\ killSwitchActive = FALSE
    /\ loopTimer = FALSE
    /\ isLoopTickRunning = FALSE
    /\ activeRunId = None
    /\ actionHistory = <<>>
    /\ thread = [t \in Thread |-> None]
    /\ stops = 0
    /\ repeats = 0

Busy(t) == thread[t] # None
At(t, place) == Busy(t) /\ thread[t].place = place
Of(t) == Routines[thread[t].at]
Ticks == {t \in Thread : Busy(t) /\ thread[t].kind = "tick"}

-----------------------------------------------------------------------------
(* The user's switches *)

SetAutonomyLevel(new) ==
    /\ ~killSwitchActive
    /\ level' = new
    /\ UNCHANGED <<killSwitchActive, loopTimer, isLoopTickRunning, activeRunId, historyVars,
                   thread, stops>>

\* stopSelfRunningLoop(), to a loop timer of the given value: a tick under way goes on, but the
\* flag that it is running is cleared.
ClearLoop(timer) ==
    /\ loopTimer' = timer
    /\ IF loopTimer
       THEN stops' = stops + 1 /\ isLoopTickRunning' = FALSE
       ELSE UNCHANGED <<stops, isLoopTickRunning>>

ActivateKillSwitch ==
    /\ killSwitchActive' = TRUE
    /\ ClearLoop(FALSE)
    /\ activeRunId' = None
    /\ UNCHANGED <<level, historyVars, thread>>

ResetKillSwitch ==
    /\ killSwitchActive' = FALSE
    /\ level' = 0
    /\ UNCHANGED <<loopTimer, isLoopTickRunning, activeRunId, historyVars, thread, stops>>

\* The old loop is stopped before the kill switch is looked at.
StartSelfRunningLoop ==
    /\ stops < MaxStops
    /\ ClearLoop(~killSwitchActive)
    /\ UNCHANGED <<level, killSwitchActive, activeRunId, historyVars, thread>>

StopSelfRunningLoop ==
    /\ loopTimer
    /\ ClearLoop(FALSE)
    /\ UNCHANGED <<level, killSwitchActive, activeRunId, historyVars, thread>>

-----------------------------------------------------------------------------
(* executeRoutine() up to its await *)

\* Mutant: the routine trusts the loop to have looked at the kill switch.
AdmitsKilled(i) == level >= 2 /\ Routines[i].enabled /\ Routines[i].sound

Admits(i) ==
    /\ ~killSwitchActive
    /\ level >= 2
    /\ Routines[i].enabled
    /\ Routines[i].sound

\* slice(-3).
Recent ==
    LET n == Len(actionHistory) IN SubSeq(actionHistory, IF n > 3 THEN n - 2 ELSE 1, n)

\* Mutant: one entry too many is asked for.
DetectCycleLate ==
    Len(Recent) > 3 /\ Recent[1] # "none" /\ \A i \in 1..3 : Recent[i] = Recent[1]

DetectCycle ==
    Len(Recent) >= 3 /\ Recent[1] # "none" /\ \A i \in 1..3 : Recent[i] = Recent[1]

\* process() and evaluate() up to the gate's await.  An intent that is not known never comes to
\* the gate; a risky plan has its verdict without Kingdom; so has every plan while the
\* adapter is not connected.
Processes(r, place) ==
    \/ ~r.known /\ place = "answered"
    \/ r.known /\ r.risky /\ place = "permitted"
    \/ r.known /\ ~r.risky /\ place \in {"gate", "denied"}

Goes(t, kind, i, attempt, place) ==
    thread' = [thread EXCEPT ![t] = [kind |-> kind, at |-> i, attempt |-> attempt, place |-> place]]

\* Thread t calls executeRoutine() for the i-th routine: refused, caught as a cycle, or begun.
Enters(t, kind, i, attempt) ==
    \/ /\ ~Admits(i)
       /\ Goes(t, kind, i, attempt, "thrown")
       /\ UNCHANGED activeRunId
    \/ /\ Admits(i) /\ DetectCycle
       /\ activeRunId' = None
       /\ Goes(t, kind, i, attempt, "thrown")
    \/ /\ Admits(i) /\ ~DetectCycle
       /\ activeRunId' = t
       /\ \E place \in Place : Processes(Routines[i], place) /\ Goes(t, kind, i, attempt, place)

-----------------------------------------------------------------------------
(* The loop *)

NextEnabled(i, j) ==
    /\ j \in i+1..Len(Routines)
    /\ Routines[j].enabled
    /\ \A k \in i+1..j-1 : ~Routines[k].enabled

Leaves(t) ==
    /\ thread' = [thread EXCEPT ![t] = None]
    /\ isLoopTickRunning' = FALSE
    /\ UNCHANGED activeRunId

\* From the i-th routine on to the next one that is enabled, or out of the loop over them.
Proceeds(t, i) ==
    \/ \E j \in 1..Len(Routines) :
         /\ NextEnabled(i, j)
         /\ Enters(t, "tick", j, 1)
         /\ UNCHANGED isLoopTickRunning
    \/ /\ \A j \in i+1..Len(Routines) : ~Routines[j].enabled
       /\ Leaves(t)

TickDue == loopTimer /\ ~killSwitchActive /\ level >= 2 /\ ~isLoopTickRunning

\* The interval fires.  A loop without an enabled routine does nothing.
Tick(t) ==
    /\ ~Busy(t)
    /\ TickDue
    /\ \E j \in 1..Len(Routines) : NextEnabled(0, j) /\ Enters(t, "tick", j, 1)
    /\ isLoopTickRunning' = TRUE
    /\ UNCHANGED <<switchVars, historyVars>>

\* executeRoutine() is called from elsewhere.
ExecuteRoutine(t, i) ==
    /\ ~Busy(t)
    /\ Enters(t, "call", i, 1)
    /\ UNCHANGED <<switchVars, isLoopTickRunning, historyVars>>

-----------------------------------------------------------------------------
(* What follows the awaits *)

Moves(t, place) == thread' = [thread EXCEPT ![t].place = place]

\* Denied, by Kingdom or without it, or the registry has no tool for the capability: answered at once.
GateRefuses(t) ==
    /\ \/ At(t, "gate") \/ At(t, "denied")
       \/ At(t, "permitted") /\ ~Of(t).tool
    /\ Moves(t, "answered")
    /\ UNCHANGED <<switchVars, isLoopTickRunning, activeRunId, historyVars>>

\* Everything else goes to the tool executor, also an action that needs an approval.
GatePermits(t) ==
    /\ At(t, "gate") \/ At(t, "permitted")
    /\ Of(t).tool
    /\ Moves(t, "executor")
    /\ UNCHANGED <<switchVars, isLoopTickRunning, activeRunId, historyVars>>

ExecutorAnswers(t) ==
    /\ At(t, "executor")
    /\ Moves(t, "answered")
    /\ UNCHANGED <<switchVars, isLoopTickRunning, activeRunId, historyVars>>

\* What a completed run records: a message without a plan has no capability.
Recorded(t) == IF Of(t).known THEN Of(t).capability ELSE "none"

\* Mutant: the history is not cut.
PushedWhole(c) == Append(actionHistory, c)

\* push(), and shift() over the limit.
Pushed(c) ==
    LET longer == Append(actionHistory, c) IN
    IF Len(longer) > HistoryLimit THEN Tail(longer) ELSE longer

Repeats(c) ==
    LET n == Len(actionHistory) IN
    IF c = "none" THEN 0 ELSE IF n > 0 /\ actionHistory[n] = c THEN repeats + 1 ELSE 1

\* The runtime since the last start of any run is over the budget of this one.
RunIsOver(t) ==
    /\ At(t, "answered")
    /\ Of(t).timed
    /\ activeRunId' = None
    /\ Moves(t, "thrown")
    /\ UNCHANGED <<switchVars, isLoopTickRunning, historyVars>>

RunCompletes(t) ==
    /\ At(t, "answered")
    /\ actionHistory' = Pushed(Recorded(t))
    /\ repeats' = Repeats(Recorded(t))
    /\ activeRunId' = None
    /\ Moves(t, "returned")
    /\ UNCHANGED <<switchVars, isLoopTickRunning>>

\* Mutant: the retry is remediated like the first attempt.
RemediateForever(t) ==
    /\ At(t, "thrown")
    /\ thread[t].kind = "tick"
    /\ Enters(t, "tick", thread[t].at, 2)
    /\ UNCHANGED <<switchVars, isLoopTickRunning, historyVars>>

\* The error of a first attempt is remediated and the routine tried again; the error of
\* the second is ignored.
Remediate(t) ==
    /\ At(t, "thrown")
    /\ thread[t].kind = "tick"
    /\ \/ thread[t].attempt = 1 /\ Enters(t, "tick", thread[t].at, 2) /\ UNCHANGED isLoopTickRunning
       \/ thread[t].attempt = 2 /\ Proceeds(t, thread[t].at)
    /\ UNCHANGED <<switchVars, historyVars>>

NextRoutine(t) ==
    /\ At(t, "returned")
    /\ thread[t].kind = "tick"
    /\ Proceeds(t, thread[t].at)
    /\ UNCHANGED <<switchVars, historyVars>>

\* The caller of a call has its answer.
CallEnds(t) ==
    /\ At(t, "thrown") \/ At(t, "returned")
    /\ thread[t].kind = "call"
    /\ thread' = [thread EXCEPT ![t] = None]
    /\ UNCHANGED <<switchVars, isLoopTickRunning, activeRunId, historyVars>>

Next ==
    \/ \E new \in Level : SetAutonomyLevel(new)
    \/ ActivateKillSwitch
    \/ ResetKillSwitch
    \/ StartSelfRunningLoop
    \/ StopSelfRunningLoop
    \/ \E t \in Thread : Tick(t)
    \/ \E t \in Thread, i \in 1..Len(Routines) : ExecuteRoutine(t, i)
    \/ \E t \in Thread : GateRefuses(t)
    \/ \E t \in Thread : GatePermits(t)
    \/ \E t \in Thread : ExecutorAnswers(t)
    \/ \E t \in Thread : RunIsOver(t)
    \/ \E t \in Thread : RunCompletes(t)
    \/ \E t \in Thread : Remediate(t)
    \/ \E t \in Thread : NextRoutine(t)
    \/ \E t \in Thread : CallEnds(t)

Spec == Init /\ [][Next]_vars

-----------------------------------------------------------------------------
(* Properties *)

\* While the kill switch is engaged no loop is set and no run is named active, though ticks that
\* were under way go on to their next routines and retries.
KillSwitchHolds == killSwitchActive => ~loopTimer /\ activeRunId = None

\* The active run is one that is under way: whichever of several overlapping runs ends, completes
\* or is aborted, the identifier of an ended run does not stay.
ActiveRunUnderWay ==
    activeRunId # None => Busy(activeRunId) /\ thread[activeRunId].place \notin {"thrown", "returned"}

\* The flag that silences the interval is up only while a tick is under way that will clear it:
\* the loop cannot be silenced for good.
FlagHasTick == isLoopTickRunning => Ticks # {}

\* Ticks overlap only because a loop was stopped while one was under way: there are never more
\* than one for each stop, and one more while the flag is up.
OverlapsComeFromStops == Cardinality(Ticks) <= stops + (IF isLoopTickRunning THEN 1 ELSE 0)

\* Kill switch, active run, silencing flag and overlapping ticks agree, however starts, stops and
\* resets of the loop fall between the awaits of its runs.
LoopCoherent == KillSwitchHolds /\ ActiveRunUnderWay /\ FlagHasTick /\ OverlapsComeFromStops

\* Loop protection: a capability is repeated at most twice, and then once more by each
\* thread that had started before the repetition could be seen.
RepetitionBounded == repeats <= 2 + Cardinality(Thread)

Stage(place) ==
    CASE place \in {"gate", "permitted", "denied"} -> 0
      [] place = "executor" -> 1
      [] place = "answered" -> 2
      [] OTHER -> 3

\* A thread only moves forward: to a later stage of its run, to its one retry, or to a later
\* routine.  So a tick makes at most two attempts at each routine, whatever their errors, and ends
\* once its awaits do, also under the kill switch.
ThreadsAdvance ==
    [][\A t \in Thread : Busy(t) /\ Busy(t)' /\ thread'[t] # thread[t] =>
         LET old == thread[t]
             new == thread'[t]
         IN  \/ new.at > old.at
             \/ new.at = old.at /\ new.attempt > old.attempt
             \/ /\ new.at = old.at
                /\ new.attempt = old.attempt
                /\ Stage(new.place) > Stage(old.place)]_vars
=============================================================================
