------------------------ MODULE AutonomyEngineProofs ------------------------
(***************************************************************************)
(* Proofs about AutonomyEngine, for any routines, levels and threads.      *)
(***************************************************************************)
EXTENDS AutonomyEngine, FiniteSetTheorems, TLAPS

\* The record a thread gets when it calls executeRoutine(), and what happens to activeRunId then.
Called(kind, i, attempt, place) ==
    [kind |-> kind, at |-> i, attempt |-> attempt, place |-> place]

LEMMA EntersShape ==
  ASSUME NEW t \in Thread, NEW kind, NEW i, NEW attempt, Enters(t, kind, i, attempt)
  PROVE  \E place \in Place :
           /\ thread' = [thread EXCEPT ![t] = Called(kind, i, attempt, place)]
           /\ \/ place = "thrown" /\ activeRunId' \in {activeRunId, None}
              \/ /\ place \notin {"thrown", "returned"}
                 /\ activeRunId' = t
                 /\ Admits(i) /\ ~DetectCycle
<1>1. CASE ~Admits(i) /\ Goes(t, kind, i, attempt, "thrown") /\ UNCHANGED activeRunId
  BY <1>1 DEF Goes, Called, Place
<1>2. CASE activeRunId' = None /\ Goes(t, kind, i, attempt, "thrown")
  BY <1>2 DEF Goes, Called, Place
<1>3. CASE /\ Admits(i) /\ ~DetectCycle
           /\ activeRunId' = t
           /\ \E place \in Place : /\ Processes(Routines[i], place)
                                   /\ Goes(t, kind, i, attempt, place)
  <2>1. PICK place \in Place : Processes(Routines[i], place) /\ Goes(t, kind, i, attempt, place)
    BY <1>3
  <2>2. place \notin {"thrown", "returned"}
    BY <2>1 DEF Processes
  <2>3. QED
    BY <1>3, <2>1, <2>2 DEF Goes, Called
<1>4. QED
  BY <1>1, <1>2, <1>3 DEF Enters

\* The tick goes on to a later routine, or leaves.
LEMMA ProceedsShape ==
  ASSUME NEW t \in Thread, NEW i \in 1..Len(Routines), Proceeds(t, i)
  PROVE  \/ \E j \in 1..Len(Routines) :
              j > i /\ Enters(t, "tick", j, 1) /\ UNCHANGED isLoopTickRunning
         \/ Leaves(t)
BY DEF Proceeds, NextEnabled

LEMMA RoutineCount == Len(Routines) \in Nat /\ \A i \in 1..Len(Routines) : Routines[i] \in Routine
BY AutonomyAssumption

-----------------------------------------------------------------------------
(* Types *)

LEMMA EntersTypes ==
  ASSUME TypeOK, NEW t \in Thread, NEW kind \in {"tick", "call"}, NEW i \in 1..Len(Routines),
         NEW attempt \in 1..2, Enters(t, kind, i, attempt)
  PROVE  thread' \in [Thread -> Record \cup {None}] /\ activeRunId' \in Thread \cup {None}
<1>1. PICK place \in Place :
        /\ thread' = [thread EXCEPT ![t] = Called(kind, i, attempt, place)]
        /\ activeRunId' \in {activeRunId, None, t}
  BY EntersShape
<1>2. Called(kind, i, attempt, place) \in Record
  BY DEF Called, Record
<1>3. QED
  BY <1>1, <1>2 DEF TypeOK

LEMMA MovesTypes ==
  ASSUME TypeOK, NEW t \in Thread, Busy(t), NEW place \in Place, Moves(t, place)
  PROVE  thread' \in [Thread -> Record \cup {None}]
<1>1. thread[t] \in Record
  BY DEF TypeOK, Busy
<1>2. [thread[t] EXCEPT !.place = place] \in Record
  BY <1>1 DEF Record
<1>3. thread' = [thread EXCEPT ![t] = [thread[t] EXCEPT !.place = place]]
  BY DEF Moves
<1>4. QED
  BY <1>2, <1>3 DEF TypeOK

LEMMA PushedTypes ==
  ASSUME TypeOK, NEW c \in Capability
  PROVE  /\ Pushed(c) \in Seq(Capability)
         /\ Len(Pushed(c)) <= HistoryLimit
<1> DEFINE longer == Append(actionHistory, c)
<1>1. /\ actionHistory \in Seq(Capability) /\ Len(actionHistory) \in Nat
      /\ Len(actionHistory) <= HistoryLimit /\ HistoryLimit \in Nat
  BY AutonomyAssumption DEF TypeOK
<1>2. longer \in Seq(Capability) /\ Len(longer) = Len(actionHistory) + 1
  BY <1>1
<1>a. Pushed(c) = IF Len(longer) > HistoryLimit THEN Tail(longer) ELSE longer
  BY DEF Pushed
<1> HIDE DEF longer
<1>3. CASE Len(longer) > HistoryLimit
  <2>1. longer # <<>>
    BY <1>1, <1>3
  <2>2. Tail(longer) \in Seq(Capability) /\ Len(Tail(longer)) = Len(longer) - 1
    BY <1>2, <2>1
  <2>3. QED
    BY <1>1, <1>2, <1>3, <1>a, <2>2
<1>4. CASE ~(Len(longer) > HistoryLimit)
  BY <1>1, <1>2, <1>4, <1>a
<1>5. QED
  BY <1>3, <1>4

LEMMA ProceedsTypes ==
  ASSUME TypeOK, NEW t \in Thread, NEW i \in 1..Len(Routines), Proceeds(t, i)
  PROVE  /\ thread' \in [Thread -> Record \cup {None}]
         /\ activeRunId' \in Thread \cup {None}
         /\ isLoopTickRunning' \in BOOLEAN
<1>1. CASE Leaves(t)
  BY <1>1 DEF Leaves, TypeOK
<1>2. CASE \E j \in 1..Len(Routines) : Enters(t, "tick", j, 1) /\ UNCHANGED isLoopTickRunning
  <2>1. PICK j \in 1..Len(Routines) : Enters(t, "tick", j, 1) /\ UNCHANGED isLoopTickRunning
    BY <1>2
  <2>2. 1 \in 1..2 /\ "tick" \in {"tick", "call"}
    OBVIOUS
  <2>3. QED
    BY <2>1, <2>2, EntersTypes DEF TypeOK
<1>3. QED
  BY <1>1, <1>2, ProceedsShape

\* Where the routine of a busy thread is.
LEMMA BusyThread ==
  ASSUME TypeOK, NEW t \in Thread, Busy(t)
  PROVE  /\ thread[t] \in Record
         /\ thread[t].at \in 1..Len(Routines)
         /\ Of(t) \in Routine
         /\ Recorded(t) \in Capability
         /\ thread[t] # None
<1>1. thread[t] \in Record /\ thread[t] # None
  BY DEF TypeOK, Busy
<1>2. thread[t].at \in 1..Len(Routines)
  BY <1>1 DEF Record
<1>3. Of(t) \in Routine
  BY <1>2, RoutineCount DEF Of
<1>4. Recorded(t) \in Capability
  BY <1>3, AutonomyAssumption DEF Recorded, Routine
<1>5. QED
  BY <1>1, <1>2, <1>3, <1>4

LEMMA RepeatsTypes ==
  ASSUME TypeOK, NEW c \in Capability
  PROVE  Repeats(c) \in Nat
BY DEF TypeOK, Repeats

\* The actions of a thread, and the user's.
Switches ==
    \/ \E new \in Level : SetAutonomyLevel(new)
    \/ ActivateKillSwitch \/ ResetKillSwitch \/ StartSelfRunningLoop \/ StopSelfRunningLoop

Continues(t) ==
    \/ GateRefuses(t) \/ GatePermits(t) \/ ExecutorAnswers(t)
    \/ RunIsOver(t) \/ RunCompletes(t) \/ Remediate(t) \/ NextRoutine(t) \/ CallEnds(t)

Steps(t) ==
    \/ Tick(t) \/ (\E i \in 1..Len(Routines) : ExecuteRoutine(t, i))
    \/ Continues(t)

LEMMA NextShape == Next => Switches \/ \E t \in Thread : Steps(t)
BY DEF Next, Switches, Steps, Continues

LEMMA ClearLoopTypes ==
  ASSUME TypeOK, NEW timer \in BOOLEAN, ClearLoop(timer)
  PROVE  loopTimer' \in BOOLEAN /\ isLoopTickRunning' \in BOOLEAN /\ stops' \in Nat
<1>1. CASE loopTimer
  <2>1. stops' = stops + 1 /\ isLoopTickRunning' = FALSE /\ loopTimer' = timer
    BY Zenon, <1>1 DEF ClearLoop
  <2>2. stops' \in Nat
    BY <2>1 DEF TypeOK
  <2>3. loopTimer' \in BOOLEAN /\ isLoopTickRunning' \in BOOLEAN
    BY Zenon, <2>1
  <2>4. QED
    BY <2>2, <2>3
<1>2. CASE ~loopTimer
  <2>1. stops' = stops /\ isLoopTickRunning' = isLoopTickRunning /\ loopTimer' = timer
    BY Zenon, <1>2 DEF ClearLoop
  <2>2. QED
    BY <2>1 DEF TypeOK
<1>3. QED
  BY <1>1, <1>2

LEMMA TypesStep == TypeOK /\ [Next]_vars => TypeOK'
<1> SUFFICES ASSUME TypeOK, [Next]_vars PROVE TypeOK'
  OBVIOUS
<1>1. CASE UNCHANGED vars
  BY <1>1 DEF TypeOK, vars, historyVars
<1>2. CASE Switches
  <2>1. CASE \E new \in Level : SetAutonomyLevel(new)
    BY <2>1 DEF SetAutonomyLevel, TypeOK, historyVars
  <2>2. CASE ActivateKillSwitch
    <3>1. loopTimer' \in BOOLEAN /\ isLoopTickRunning' \in BOOLEAN /\ stops' \in Nat
      BY <2>2, ClearLoopTypes DEF ActivateKillSwitch
    <3>2. QED
      BY <2>2, <3>1 DEF ActivateKillSwitch, TypeOK, historyVars
  <2>3. CASE ResetKillSwitch
    BY <2>3, AutonomyAssumption DEF ResetKillSwitch, TypeOK, historyVars
  <2>4. CASE StartSelfRunningLoop
    <3>1. (~killSwitchActive) \in BOOLEAN
      OBVIOUS
    <3>2. loopTimer' \in BOOLEAN /\ isLoopTickRunning' \in BOOLEAN /\ stops' \in Nat
      BY <2>4, <3>1, ClearLoopTypes DEF StartSelfRunningLoop
    <3>3. QED
      BY <2>4, <3>2 DEF StartSelfRunningLoop, TypeOK, historyVars
  <2>5. CASE StopSelfRunningLoop
    <3>1. loopTimer' \in BOOLEAN /\ isLoopTickRunning' \in BOOLEAN /\ stops' \in Nat
      BY <2>5, ClearLoopTypes DEF StopSelfRunningLoop
    <3>2. QED
      BY <2>5, <3>1 DEF StopSelfRunningLoop, TypeOK, historyVars
  <2>6. QED
    BY <1>2, <2>1, <2>2, <2>3, <2>4, <2>5 DEF Switches
<1>3. ASSUME NEW t \in Thread, Steps(t) PROVE TypeOK'
  <2>0. 1 \in 1..2 /\ 2 \in 1..2
    OBVIOUS
  <2>1. CASE Tick(t)
    <3>1. PICK j \in 1..Len(Routines) : Enters(t, "tick", j, 1)
      BY <2>1 DEF Tick
    <3>2. thread' \in [Thread -> Record \cup {None}] /\ activeRunId' \in Thread \cup {None}
      BY <2>0, <3>1, EntersTypes
    <3>3. QED
      BY <2>1, <3>2 DEF Tick, TypeOK, switchVars, historyVars
  <2>2. CASE \E i \in 1..Len(Routines) : ExecuteRoutine(t, i)
    <3>1. PICK i \in 1..Len(Routines) : ExecuteRoutine(t, i)
      BY <2>2
    <3>2. Enters(t, "call", i, 1)
      BY <3>1 DEF ExecuteRoutine
    <3>3. thread' \in [Thread -> Record \cup {None}] /\ activeRunId' \in Thread \cup {None}
      BY <2>0, <3>2, EntersTypes
    <3>4. QED
      BY <3>1, <3>3 DEF ExecuteRoutine, TypeOK, switchVars, historyVars
  <2>3. CASE GateRefuses(t) \/ GatePermits(t) \/ ExecutorAnswers(t) \/ RunIsOver(t)
    <3>1. thread' \in [Thread -> Record \cup {None}]
      BY <2>3, MovesTypes DEF GateRefuses, GatePermits, ExecutorAnswers, RunIsOver, At, Place
    <3>2. QED
      BY <2>3, <3>1
      DEF GateRefuses, GatePermits, ExecutorAnswers, RunIsOver, TypeOK, switchVars, historyVars
  <2>4. CASE RunCompletes(t)
    <3>1. Busy(t)
      BY <2>4 DEF RunCompletes, At
    <3>2. thread' \in [Thread -> Record \cup {None}]
      BY <2>4, <3>1, MovesTypes DEF RunCompletes, Place
    <3>3. Recorded(t) \in Capability
      BY <3>1, BusyThread
    <3>4. actionHistory' \in Seq(Capability) /\ Len(actionHistory') <= HistoryLimit
      BY <2>4, <3>3, PushedTypes DEF RunCompletes
    <3>5. repeats' \in Nat
      BY <2>4, <3>3, RepeatsTypes DEF RunCompletes
    <3>6. QED
      BY <2>4, <3>2, <3>4, <3>5 DEF RunCompletes, TypeOK, switchVars
  <2>5. CASE Remediate(t) \/ NextRoutine(t)
    <3>1. Busy(t) /\ thread[t].at \in 1..Len(Routines)
      BY <2>5, BusyThread DEF Remediate, NextRoutine, At
    <3>2. /\ thread' \in [Thread -> Record \cup {None}]
          /\ activeRunId' \in Thread \cup {None}
          /\ isLoopTickRunning' \in BOOLEAN
      <4>1. CASE Enters(t, "tick", thread[t].at, 2) /\ UNCHANGED isLoopTickRunning
        BY <2>0, <3>1, <4>1, EntersTypes DEF TypeOK
      <4>2. CASE Proceeds(t, thread[t].at)
        BY <3>1, <4>2, ProceedsTypes
      <4>3. QED
        BY <2>5, <4>1, <4>2 DEF Remediate, NextRoutine
    <3>3. QED
      BY <2>5, <3>2 DEF Remediate, NextRoutine, TypeOK, switchVars, historyVars
  <2>6. CASE CallEnds(t)
    BY <2>6 DEF CallEnds, TypeOK, switchVars, historyVars
  <2>7. QED
    BY <1>3, <2>1, <2>2, <2>3, <2>4, <2>5, <2>6 DEF Steps, Continues
<1>4. QED
  BY <1>1, <1>2, <1>3, NextShape

\* Type correctness of the engine and its threads.
THEOREM AutonomyTypes == Spec => []TypeOK
<1>1. Init => TypeOK
  <2>1. SUFFICES ASSUME Init PROVE TypeOK
    OBVIOUS
  <2>2. actionHistory = <<>> /\ Len(actionHistory) = 0 /\ actionHistory \in Seq(Capability)
    BY <2>1 DEF Init
  <2>3. Len(actionHistory) <= HistoryLimit
    BY <2>2, AutonomyAssumption
  <2>4. thread \in [Thread -> Record \cup {None}]
    BY <2>1 DEF Init
  <2>5. QED
    BY <2>1, <2>2, <2>3, <2>4, AutonomyAssumption DEF Init, TypeOK
<1>2. QED
  BY <1>1, TypesStep, PTL DEF Spec

-----------------------------------------------------------------------------
(* The kill switch *)

\* What calling executeRoutine() may do to the active run.
LEMMA EntersActive ==
  ASSUME NEW t \in Thread, NEW kind, NEW i, NEW attempt, Enters(t, kind, i, attempt),
         KillSwitchHolds, UNCHANGED <<killSwitchActive, loopTimer>>
  PROVE  KillSwitchHolds'
BY EntersShape DEF KillSwitchHolds, Admits

LEMMA KillStep == KillSwitchHolds /\ [Next]_vars => KillSwitchHolds'
<1> SUFFICES ASSUME KillSwitchHolds, [Next]_vars PROVE KillSwitchHolds'
  OBVIOUS
<1>1. CASE UNCHANGED vars
  BY <1>1 DEF KillSwitchHolds, vars
<1>2. CASE Switches
  <2>1. CASE StartSelfRunningLoop
    <3>1. loopTimer' = ~killSwitchActive /\ UNCHANGED <<killSwitchActive, activeRunId>>
      BY <2>1 DEF StartSelfRunningLoop, ClearLoop
    <3>2. QED
      BY Zenon, <3>1 DEF KillSwitchHolds
  <2>2. CASE StopSelfRunningLoop
    BY <2>2 DEF StopSelfRunningLoop, ClearLoop, KillSwitchHolds
  <2>3. CASE (\E new \in Level : SetAutonomyLevel(new)) \/ ActivateKillSwitch \/ ResetKillSwitch
    BY <2>3 DEF SetAutonomyLevel, ActivateKillSwitch, ResetKillSwitch, ClearLoop, KillSwitchHolds
  <2>4. QED
    BY <1>2, <2>1, <2>2, <2>3 DEF Switches
<1>3. ASSUME NEW t \in Thread, Steps(t) PROVE KillSwitchHolds'
  <2>0. UNCHANGED <<killSwitchActive, loopTimer>>
    BY <1>3 DEF Steps, Continues, Tick, ExecuteRoutine, GateRefuses, GatePermits, ExecutorAnswers,
                RunIsOver, RunCompletes, Remediate, NextRoutine, CallEnds, switchVars
  <2>1. CASE \E kind, i, attempt : Enters(t, kind, i, attempt)
    BY <2>0, <2>1, EntersActive
  <2>2. CASE activeRunId' \in {activeRunId, None}
    BY <2>0, <2>2 DEF KillSwitchHolds
  <2>3. QED
    BY <1>3, <2>1, <2>2
    DEF Steps, Continues, Tick, ExecuteRoutine, GateRefuses, GatePermits, ExecutorAnswers,
        RunIsOver, RunCompletes, Remediate, NextRoutine, CallEnds, Proceeds, Leaves
<1>4. QED
  BY <1>1, <1>2, <1>3, NextShape

\* Under the kill switch no run becomes active (autonomyEngine.ts:76, 155).
THEOREM KillSwitchIsKept == Spec => []KillSwitchHolds
<1>1. Init => KillSwitchHolds
  BY DEF Init, KillSwitchHolds
<1>2. QED
  BY <1>1, KillStep, PTL DEF Spec

-----------------------------------------------------------------------------
(* The active run *)

Ended == {"thrown", "returned"}

\* A thread that calls executeRoutine() had no run under way.
LEMMA EntersUnderWay ==
  ASSUME TypeOK, ActiveRunUnderWay, NEW t \in Thread, ~Busy(t) \/ thread[t].place \in Ended,
         NEW kind \in {"tick", "call"}, NEW i \in 1..Len(Routines), NEW attempt \in 1..2,
         Enters(t, kind, i, attempt)
  PROVE  ActiveRunUnderWay'
<1>1. PICK place \in Place :
        /\ thread' = [thread EXCEPT ![t] = Called(kind, i, attempt, place)]
        /\ \/ place = "thrown" /\ activeRunId' \in {activeRunId, None}
           \/ place \notin {"thrown", "returned"} /\ activeRunId' = t
  BY EntersShape
<1>2. activeRunId # t
  BY AutonomyAssumption DEF ActiveRunUnderWay, Ended
<1>3. activeRunId \in Thread \cup {None} /\ thread \in [Thread -> Record \cup {None}]
  BY DEF TypeOK
<1>4. CASE activeRunId' = t /\ place \notin {"thrown", "returned"}
  <2>1. thread'[t] = Called(kind, i, attempt, place)
    BY <1>1, <1>3
  <2>2. thread'[t].place = place
    BY <2>1 DEF Called
  <2>3. thread'[t] # None
    <3>1. Called(kind, i, attempt, place) \in Record
      BY DEF Called, Record
    <3>2. QED
      BY <2>1, <3>1, AutonomyAssumption
  <2>4. QED
    BY <1>4, <2>2, <2>3 DEF ActiveRunUnderWay, Busy
<1>5. CASE activeRunId' \in {activeRunId, None}
  BY <1>1, <1>2, <1>3, <1>5 DEF ActiveRunUnderWay, Busy
<1>6. QED
  BY <1>1, <1>4, <1>5

LEMMA LeavesUnderWay ==
  ASSUME TypeOK, ActiveRunUnderWay, NEW t \in Thread, thread[t].place \in Ended,
         thread' = [thread EXCEPT ![t] = None], UNCHANGED activeRunId
  PROVE  ActiveRunUnderWay'
BY DEF TypeOK, ActiveRunUnderWay, Busy, Ended

LEMMA ProceedsUnderWay ==
  ASSUME TypeOK, ActiveRunUnderWay, NEW t \in Thread, thread[t].place \in Ended,
         NEW i \in 1..Len(Routines), Proceeds(t, i)
  PROVE  ActiveRunUnderWay'
<1>1. CASE \E j \in 1..Len(Routines) : Enters(t, "tick", j, 1)
  <2>1. 1 \in 1..2
    OBVIOUS
  <2>2. QED
    BY <1>1, <2>1, EntersUnderWay
<1>2. CASE Leaves(t)
  BY <1>2, LeavesUnderWay DEF Leaves
<1>3. QED
  BY <1>1, <1>2, ProceedsShape

LEMMA UnderWayStep == TypeOK /\ ActiveRunUnderWay /\ [Next]_vars => ActiveRunUnderWay'
<1> SUFFICES ASSUME TypeOK, ActiveRunUnderWay, [Next]_vars PROVE ActiveRunUnderWay'
  OBVIOUS
<1>1. CASE UNCHANGED vars
  BY <1>1 DEF ActiveRunUnderWay, Busy, vars
<1>2. CASE Switches
  <2>1. UNCHANGED thread /\ activeRunId' \in {activeRunId, None}
    BY <1>2 DEF Switches, SetAutonomyLevel, ActivateKillSwitch, ResetKillSwitch,
                StartSelfRunningLoop, StopSelfRunningLoop
  <2>2. QED
    BY <2>1 DEF ActiveRunUnderWay, Busy
<1>3. ASSUME NEW t \in Thread, Steps(t) PROVE ActiveRunUnderWay'
  <2>0. 1 \in 1..2 /\ 2 \in 1..2
    OBVIOUS
  <2>1. CASE Tick(t)
    BY <2>0, <2>1, EntersUnderWay DEF Tick
  <2>2. CASE \E i \in 1..Len(Routines) : ExecuteRoutine(t, i)
    BY <2>0, <2>2, EntersUnderWay DEF ExecuteRoutine
  <2>3. CASE GateRefuses(t) \/ GatePermits(t) \/ ExecutorAnswers(t)
    <3>1. PICK place \in {"answered", "executor"} : Moves(t, place) /\ UNCHANGED activeRunId
      BY <2>3 DEF GateRefuses, GatePermits, ExecutorAnswers
    <3>2. thread[t] \in Record /\ Busy(t)
      BY <2>3, BusyThread DEF GateRefuses, GatePermits, ExecutorAnswers, At
    <3>3. thread' = [thread EXCEPT ![t] = [thread[t] EXCEPT !.place = place]]
      BY <3>1 DEF Moves
    <3>4. [thread[t] EXCEPT !.place = place] \in Record
      BY <3>2 DEF Record, Place
    <3>5. [thread[t] EXCEPT !.place = place].place = place
      BY <3>2 DEF Record
    <3>6. QED
      BY <3>1, <3>3, <3>4, <3>5, AutonomyAssumption DEF TypeOK, ActiveRunUnderWay, Busy
  <2>4. CASE RunIsOver(t) \/ RunCompletes(t)
    BY <2>4 DEF RunIsOver, RunCompletes, ActiveRunUnderWay
  <2>5. CASE Remediate(t) \/ NextRoutine(t)
    <3>1. thread[t].place \in Ended /\ thread[t].at \in 1..Len(Routines)
      BY <2>5, BusyThread DEF Remediate, NextRoutine, At, Ended
    <3>2. CASE Enters(t, "tick", thread[t].at, 2)
      BY <2>0, <3>1, <3>2, EntersUnderWay
    <3>3. CASE Proceeds(t, thread[t].at)
      BY <3>1, <3>3, ProceedsUnderWay
    <3>4. QED
      BY <2>5, <3>2, <3>3 DEF Remediate, NextRoutine
  <2>6. CASE CallEnds(t)
    BY <2>6, LeavesUnderWay DEF CallEnds, At, Ended
  <2>7. QED
    BY <1>3, <2>1, <2>2, <2>3, <2>4, <2>5, <2>6 DEF Steps, Continues
<1>4. QED
  BY <1>1, <1>2, <1>3, NextShape

\* The active run is under way (autonomyEngine.ts:180, 198, 206, 228).
THEOREM ActiveRunIsUnderWay == Spec => []ActiveRunUnderWay
<1>1. Init => ActiveRunUnderWay
  BY DEF Init, ActiveRunUnderWay
<1>2. QED
  BY <1>1, AutonomyTypes, UnderWayStep, PTL DEF Spec

-----------------------------------------------------------------------------
(* Forward only *)

\* The order in which the records of a thread follow each other.
Later(new, old) ==
    \/ new.at > old.at
    \/ new.at = old.at /\ new.attempt > old.attempt
    \/ /\ new.at = old.at
       /\ new.attempt = old.attempt
       /\ Stage(new.place) > Stage(old.place)

LEMMA MovesForward ==
  ASSUME TypeOK, NEW t \in Thread, Busy(t), NEW place \in Place, Moves(t, place),
         Stage(place) > Stage(thread[t].place)
  PROVE  \A u \in Thread : thread'[u] # thread[u] => Later(thread'[u], thread[u])
<1>1. thread[t] \in Record
  BY BusyThread
<1>2. thread'[t] = [thread[t] EXCEPT !.place = place]
  BY DEF Moves, TypeOK
<1>3. /\ thread'[t].at = thread[t].at /\ thread'[t].attempt = thread[t].attempt
      /\ thread'[t].place = place
  BY <1>1, <1>2 DEF Record
<1>4. \A u \in Thread : u # t => thread'[u] = thread[u]
  BY DEF Moves, TypeOK
<1>5. QED
  BY <1>3, <1>4 DEF Later

LEMMA EntersForward ==
  ASSUME TypeOK, NEW t \in Thread, NEW kind, NEW i, NEW attempt, Enters(t, kind, i, attempt),
         ~Busy(t) \/ i > thread[t].at \/ (i = thread[t].at /\ attempt > thread[t].attempt)
  PROVE  \A u \in Thread : Busy(u) /\ thread'[u] # thread[u] => Later(thread'[u], thread[u])
<1>1. PICK place \in Place : thread' = [thread EXCEPT ![t] = Called(kind, i, attempt, place)]
  BY EntersShape
<1>2. thread'[t] = Called(kind, i, attempt, place) /\ \A u \in Thread : u # t => thread'[u] = thread[u]
  BY <1>1 DEF TypeOK
<1>3. thread'[t].at = i /\ thread'[t].attempt = attempt
  BY <1>2 DEF Called
<1>4. QED
  BY <1>2, <1>3 DEF Later

\* No thread goes back (autonomyEngine.ts:123-137).
THEOREM ThreadsGoForward == Spec => ThreadsAdvance
<1> DEFINE Forward == \A u \in Thread : Busy(u) /\ Busy(u)' /\ thread'[u] # thread[u]
                                          => Later(thread'[u], thread[u])
<1>1. TypeOK /\ [Next]_vars => [Forward]_vars
  <2> SUFFICES ASSUME TypeOK, Next PROVE Forward
    OBVIOUS
  <2>1. CASE Switches
    <3>1. UNCHANGED thread
      BY <2>1 DEF Switches, SetAutonomyLevel, ActivateKillSwitch, ResetKillSwitch,
                  StartSelfRunningLoop, StopSelfRunningLoop
    <3>2. QED
      BY <3>1
  <2>2. ASSUME NEW t \in Thread, Steps(t) PROVE Forward
    <3>1. CASE Tick(t)
      BY <3>1, EntersForward DEF Tick
    <3>2. CASE \E i \in 1..Len(Routines) : ExecuteRoutine(t, i)
      BY <3>2, EntersForward DEF ExecuteRoutine
    <3>3. CASE GateRefuses(t) \/ GatePermits(t) \/ ExecutorAnswers(t) \/ RunIsOver(t) \/ RunCompletes(t)
      <4>1. PICK place \in Place : Moves(t, place) /\ Stage(place) > Stage(thread[t].place)
        BY <3>3 DEF GateRefuses, GatePermits, ExecutorAnswers, RunIsOver, RunCompletes, At, Stage, Place
      <4>2. Busy(t)
        BY <3>3 DEF GateRefuses, GatePermits, ExecutorAnswers, RunIsOver, RunCompletes, At
      <4>3. QED
        BY <4>1, <4>2, MovesForward
    <3>4. CASE Remediate(t) \/ NextRoutine(t)
      <4>1. thread[t].at \in 1..Len(Routines) /\ thread[t].attempt \in 1..2
        BY <3>4, BusyThread DEF Remediate, NextRoutine, At, Record
      <4>2. CASE thread[t].attempt = 1 /\ Enters(t, "tick", thread[t].at, 2)
        BY <4>2, EntersForward
      <4>3. CASE \E j \in 1..Len(Routines) : j > thread[t].at /\ Enters(t, "tick", j, 1)
        BY <4>3, EntersForward
      <4>4. CASE Leaves(t)
        BY <4>4 DEF Leaves, TypeOK, Busy
      <4>5. QED
        BY <3>4, <4>1, <4>2, <4>3, <4>4, ProceedsShape DEF Remediate, NextRoutine
    <3>5. CASE CallEnds(t)
      BY <3>5 DEF CallEnds, TypeOK, Busy
    <3>6. QED
      BY <2>2, <3>1, <3>2, <3>3, <3>4, <3>5 DEF Steps, Continues
  <2>3. QED
    BY <2>1, <2>2, NextShape
<1>2. [Forward]_vars => [\A t \in Thread : Busy(t) /\ Busy(t)' /\ thread'[t] # thread[t] =>
         LET old == thread[t]
             new == thread'[t]
         IN  \/ new.at > old.at
             \/ new.at = old.at /\ new.attempt > old.attempt
             \/ /\ new.at = old.at
                /\ new.attempt = old.attempt
                /\ Stage(new.place) > Stage(old.place)]_vars
  BY DEF Later
<1>3. QED
  BY <1>1, <1>2, AutonomyTypes, PTL DEF Spec, ThreadsAdvance

-----------------------------------------------------------------------------
(* The flag and the ticks *)

LEMMA EntersTicks ==
  ASSUME TypeOK, NEW t \in Thread, NEW i \in 1..Len(Routines), NEW attempt \in 1..2,
         NEW kind \in {"tick", "call"}, Enters(t, kind, i, attempt)
  PROVE  /\ kind = "tick" => Ticks' = Ticks \cup {t}
         /\ kind = "call" => Ticks' = Ticks \ {t}
<1>1. PICK place \in Place : thread' = [thread EXCEPT ![t] = Called(kind, i, attempt, place)]
  BY EntersShape
<1>2. Called(kind, i, attempt, place) \in Record /\ Called(kind, i, attempt, place).kind = kind
  BY DEF Called, Record
<1>3. /\ thread'[t] # None /\ thread'[t].kind = kind
      /\ \A u \in Thread : u # t => thread'[u] = thread[u]
  BY <1>1, <1>2, AutonomyAssumption DEF TypeOK
<1>4. QED
  BY <1>3 DEF Ticks, Busy

LEMMA LeavesTicks ==
  ASSUME TypeOK, NEW t \in Thread, thread' = [thread EXCEPT ![t] = None]
  PROVE  Ticks' = Ticks \ {t}
BY DEF TypeOK, Ticks, Busy

LEMMA MovesTicks ==
  ASSUME TypeOK, NEW t \in Thread, Busy(t), NEW place \in Place, Moves(t, place)
  PROVE  Ticks' = Ticks
<1>1. thread[t] \in Record
  BY BusyThread
<1>2. thread'[t] = [thread[t] EXCEPT !.place = place]
  BY DEF Moves, TypeOK
<1>3. thread'[t] \in Record /\ thread'[t].kind = thread[t].kind
  BY <1>1, <1>2 DEF Record
<1>4. \A u \in Thread : u # t => thread'[u] = thread[u]
  BY DEF Moves, TypeOK
<1>5. QED
  BY <1>3, <1>4, AutonomyAssumption DEF Ticks, Busy

\* What a step of a thread does to the ticks and the flag.
LEMMA TickSteps ==
  ASSUME TypeOK, NEW t \in Thread, Steps(t)
  PROVE  /\ UNCHANGED stops
         /\ \/ Ticks' = Ticks \cup {t} /\ isLoopTickRunning = FALSE /\ isLoopTickRunning' = TRUE
            \/ Ticks' = Ticks /\ UNCHANGED isLoopTickRunning
            \/ t \in Ticks /\ Ticks' = Ticks \ {t} /\ isLoopTickRunning' = FALSE
<1>0. 1 \in 1..2 /\ 2 \in 1..2
  OBVIOUS
<1>1. CASE Tick(t)
  <2>1. Ticks' = Ticks \cup {t}
    BY <1>0, <1>1, EntersTicks DEF Tick
  <2>2. isLoopTickRunning = FALSE /\ isLoopTickRunning' = TRUE
    BY Zenon, <1>1 DEF Tick, TickDue, TypeOK
  <2>3. QED
    BY <1>1, <2>1, <2>2 DEF Tick, switchVars
<1>2. CASE \E i \in 1..Len(Routines) : ExecuteRoutine(t, i)
  <2>1. Ticks' = Ticks \ {t}
    BY <1>0, <1>2, EntersTicks DEF ExecuteRoutine
  <2>2. t \notin Ticks
    BY <1>2 DEF ExecuteRoutine, Ticks
  <2>3. QED
    BY <1>2, <2>1, <2>2 DEF ExecuteRoutine, switchVars
<1>3. CASE GateRefuses(t) \/ GatePermits(t) \/ ExecutorAnswers(t) \/ RunIsOver(t) \/ RunCompletes(t)
  <2>1. PICK place \in Place : Moves(t, place) /\ Busy(t)
    BY <1>3 DEF GateRefuses, GatePermits, ExecutorAnswers, RunIsOver, RunCompletes, At, Place
  <2>2. Ticks' = Ticks
    BY <2>1, MovesTicks
  <2>3. QED
    BY <1>3, <2>2
    DEF GateRefuses, GatePermits, ExecutorAnswers, RunIsOver, RunCompletes, switchVars
<1>4. CASE Remediate(t) \/ NextRoutine(t)
  <2>1. t \in Ticks /\ thread[t].at \in 1..Len(Routines) /\ UNCHANGED stops
    BY <1>4, BusyThread DEF Remediate, NextRoutine, At, Ticks, switchVars
  <2>2. ASSUME NEW j \in 1..Len(Routines), NEW attempt \in 1..2, Enters(t, "tick", j, attempt)
        PROVE  Ticks' = Ticks
    BY <2>1, <2>2, EntersTicks
  <2>3. CASE Enters(t, "tick", thread[t].at, 2) /\ UNCHANGED isLoopTickRunning
    BY <1>0, <2>1, <2>2, <2>3
  <2>4. CASE \E j \in 1..Len(Routines) : Enters(t, "tick", j, 1) /\ UNCHANGED isLoopTickRunning
    BY <1>0, <2>1, <2>2, <2>4
  <2>5. CASE Leaves(t)
    BY <2>1, <2>5, LeavesTicks DEF Leaves
  <2>6. QED
    BY <1>4, <2>1, <2>3, <2>4, <2>5, ProceedsShape DEF Remediate, NextRoutine
<1>5. CASE CallEnds(t)
  <2>1. t \notin Ticks
    BY <1>5 DEF CallEnds, Ticks
  <2>2. QED
    BY <1>5, <2>1, LeavesTicks DEF CallEnds, switchVars
<1>6. QED
  BY <1>1, <1>2, <1>3, <1>4, <1>5 DEF Steps, Continues

\* What a step of the user does.
LEMMA TickSwitches ==
  ASSUME Switches
  PROVE  /\ Ticks' = Ticks
         /\ \/ UNCHANGED <<stops, isLoopTickRunning>>
            \/ stops' = stops + 1 /\ isLoopTickRunning' = FALSE
<1>1. UNCHANGED thread
  BY DEF Switches, SetAutonomyLevel, ActivateKillSwitch, ResetKillSwitch, StartSelfRunningLoop,
         StopSelfRunningLoop
<1>2. UNCHANGED <<stops, isLoopTickRunning>> \/ \E timer : ClearLoop(timer)
  BY DEF Switches, SetAutonomyLevel, ActivateKillSwitch, ResetKillSwitch, StartSelfRunningLoop,
         StopSelfRunningLoop
<1>3. QED
  BY Zenon, <1>1, <1>2 DEF Ticks, Busy, ClearLoop

\* The loop is never silenced for good (autonomyEngine.ts:119, 139).
THEOREM FlagIsCleared == Spec => []FlagHasTick
<1>1. Init => FlagHasTick
  BY DEF Init, FlagHasTick
<1>2. TypeOK /\ FlagHasTick /\ [Next]_vars => FlagHasTick'
  <2> SUFFICES ASSUME TypeOK, FlagHasTick, [Next]_vars PROVE FlagHasTick'
    OBVIOUS
  <2>1. CASE UNCHANGED vars
    BY <2>1 DEF FlagHasTick, Ticks, Busy, vars
  <2>2. CASE Switches
    BY Zenon, <2>2, TickSwitches DEF FlagHasTick
  <2>3. ASSUME NEW t \in Thread, Steps(t) PROVE FlagHasTick'
    BY Zenon, <2>3, TickSteps DEF FlagHasTick
  <2>4. QED
    BY <2>1, <2>2, <2>3, NextShape
<1>3. QED
  BY <1>1, <1>2, AutonomyTypes, PTL DEF Spec

\* Ticks overlap only by stops (autonomyEngine.ts:148).
THEOREM OverlapsAreBounded == Spec => []OverlapsComeFromStops
<1> DEFINE flag == IF isLoopTickRunning THEN 1 ELSE 0
<1>0. /\ isLoopTickRunning = FALSE => flag = 0
      /\ isLoopTickRunning = TRUE => flag = 1
      /\ flag \in 0..1
  OBVIOUS
<1>1. Init => OverlapsComeFromStops
  <2>1. SUFFICES ASSUME Init PROVE OverlapsComeFromStops
    OBVIOUS
  <2>2. Ticks = {} /\ flag = 0 /\ stops = 0
    BY <2>1 DEF Init, Ticks, Busy
  <2>3. QED
    BY <2>2, FS_EmptySet DEF OverlapsComeFromStops
<1>2. TypeOK /\ OverlapsComeFromStops /\ [Next]_vars => OverlapsComeFromStops'
  <2> SUFFICES ASSUME TypeOK, OverlapsComeFromStops, [Next]_vars PROVE OverlapsComeFromStops'
    OBVIOUS
  <2>0. /\ IsFiniteSet(Ticks) /\ Cardinality(Ticks) \in Nat
        /\ stops \in Nat
        /\ Cardinality(Ticks) <= stops + flag
    <3>1. Ticks \subseteq Thread
      BY DEF Ticks
    <3>2. QED
      BY <3>1, AutonomyAssumption, FS_Subset, FS_CardinalityType DEF TypeOK, OverlapsComeFromStops
  <2>1. CASE UNCHANGED vars
    BY <2>1 DEF OverlapsComeFromStops, Ticks, Busy, vars
  <2>2. CASE UNCHANGED <<Ticks, stops, isLoopTickRunning>>
    BY <2>2 DEF OverlapsComeFromStops
  <2>3. CASE UNCHANGED Ticks /\ stops' = stops + 1 /\ isLoopTickRunning' = FALSE
    <3>1. flag' = 0
      BY <2>3
    <3>2. Cardinality(Ticks') <= stops' + flag'
      BY <1>0, <2>0, <2>3, <3>1
    <3>3. QED
      BY <3>2 DEF OverlapsComeFromStops
  <2>4. CASE \E t \in Thread : /\ UNCHANGED stops /\ Ticks' = Ticks \cup {t}
                               /\ isLoopTickRunning = FALSE /\ isLoopTickRunning' = TRUE
    <3>0. PICK t \in Thread : Ticks' = Ticks \cup {t}
      BY <2>4
    <3>1. Cardinality(Ticks') <= Cardinality(Ticks) + 1 /\ Cardinality(Ticks') \in Nat
      <4> DEFINE grown == Ticks \cup {t}
      <4>1. IsFiniteSet(grown) /\ (Cardinality(grown) = Cardinality(Ticks) \/ Cardinality(grown) = Cardinality(Ticks) + 1)
        BY <2>0, FS_AddElement
      <4>2. Cardinality(grown) \in Nat /\ Cardinality(grown) <= Cardinality(Ticks) + 1
        <5> HIDE DEF grown
        <5> QED
          BY <2>0, <4>1, FS_CardinalityType
      <4>3. Ticks' = grown
        BY <3>0
      <4> HIDE DEF grown
      <4> QED
        BY Zenon, <4>2, <4>3
    <3>2. flag = 0 /\ flag' = 1
      BY <2>4
    <3>3. Cardinality(Ticks') <= stops' + flag'
      BY <2>0, <2>4, <3>1, <3>2
    <3>4. QED
      BY <3>3 DEF OverlapsComeFromStops
  <2>5. CASE \E t \in Ticks : /\ UNCHANGED stops /\ Ticks' = Ticks \ {t}
                              /\ isLoopTickRunning' = FALSE
    <3>1. Cardinality(Ticks') = Cardinality(Ticks) - 1
      BY <2>0, <2>5, FS_RemoveElement
    <3>2. flag' = 0
      BY <2>5
    <3>3. Cardinality(Ticks') <= stops' + flag'
      BY <1>0, <2>0, <2>5, <3>1, <3>2
    <3>4. QED
      BY <3>3 DEF OverlapsComeFromStops
  <2>6. QED
    BY <2>1, <2>2, <2>3, <2>4, <2>5, NextShape, TickSwitches, TickSteps
<1>3. QED
  BY <1>1, <1>2, AutonomyTypes, PTL DEF Spec

\* Kill switch, active run, silencing flag and overlapping ticks agree in every interleaving.
THEOREM LoopIsCoherent == Spec => []LoopCoherent
<1>1. KillSwitchHolds /\ ActiveRunUnderWay /\ FlagHasTick /\ OverlapsComeFromStops => LoopCoherent
  BY DEF LoopCoherent
<1>2. QED
  BY <1>1, KillSwitchIsKept, ActiveRunIsUnderWay, FlagIsCleared, OverlapsAreBounded, PTL

-----------------------------------------------------------------------------
(* Repetitions *)

\* The end of the history is as long a repetition as was counted, up to the three that are looked at.
Repetition ==
    LET n == Len(actionHistory) IN
    /\ repeats >= 1 => n >= 1 /\ actionHistory[n] # "none"
    /\ repeats >= 2 => n >= 2 /\ actionHistory[n - 1] = actionHistory[n]
    /\ repeats >= 3 => n >= 3 /\ actionHistory[n - 2] = actionHistory[n]

\* Runs that can still be recorded.
Flight == {t \in Thread : Busy(t) /\ thread[t].place \notin Ended}

\* Once the repetition can be seen, only the runs under way can lengthen it.
RepetitionInv ==
    /\ Repetition
    /\ repeats >= 3 => repeats + Cardinality(Flight) <= 2 + Cardinality(Thread)

LEMMA HistoryLength ==
  ASSUME TypeOK
  PROVE  Len(actionHistory) \in Nat /\ repeats \in Nat /\ Len(actionHistory) <= HistoryLimit
BY DEF TypeOK

LEMMA RepetitionIsSeen ==
  ASSUME TypeOK, Repetition, repeats >= 3
  PROVE  DetectCycle
<1> DEFINE n == Len(actionHistory)
<1>1. n \in Nat /\ n >= 3 /\ repeats \in Nat
  BY HistoryLength DEF Repetition
<1>2. /\ actionHistory[n] # "none" /\ actionHistory[n - 1] = actionHistory[n]
      /\ actionHistory[n - 2] = actionHistory[n]
  BY <1>1 DEF Repetition
<1>3. /\ Recent = SubSeq(actionHistory, IF n > 3 THEN n - 2 ELSE 1, n)
      /\ actionHistory \in Seq(Capability) /\ n = Len(actionHistory)
  BY DEF Recent, TypeOK
<1> HIDE DEF n
<1>4. (IF n > 3 THEN n - 2 ELSE 1) = n - 2 /\ n - 2 >= 1 /\ n - 2 \in Nat
  BY <1>1
<1>5. /\ Len(Recent) = 3 /\ Recent[1] = actionHistory[n - 2]
      /\ Recent[2] = actionHistory[n - 1] /\ Recent[3] = actionHistory[n]
  <2>1. Recent = SubSeq(actionHistory, n - 2, n)
    BY <1>3, <1>4
  <2>2. SubSeq(actionHistory, n - 2, n) = [k \in 1 .. 3 |-> actionHistory[k + (n - 2) - 1]]
    BY <1>1, <1>3, <1>4
  <2>3. QED
    BY <1>1, <2>1, <2>2
<1>6. QED
  BY <1>2, <1>5 DEF DetectCycle

\* push() and shift() move the end of the history by one place.
LEMMA PushedEnd ==
  ASSUME TypeOK, NEW c \in Capability
  PROVE  LET n == Len(actionHistory)
             m == Len(Pushed(c))
         IN  /\ n \in Nat /\ m \in Nat /\ m >= 1 /\ Pushed(c)[m] = c
             /\ n >= 1 => m >= 2 /\ Pushed(c)[m - 1] = actionHistory[n]
             /\ n >= 2 => m >= 3 /\ Pushed(c)[m - 2] = actionHistory[n - 1]
<1> DEFINE n == Len(actionHistory)
           longer == Append(actionHistory, c)
<1>1. n \in Nat /\ actionHistory \in Seq(Capability) /\ n <= HistoryLimit
      /\ HistoryLimit \in Nat /\ HistoryLimit >= 3
  BY HistoryLength, AutonomyAssumption DEF TypeOK
<1>2. /\ longer \in Seq(Capability) /\ Len(longer) = n + 1 /\ longer[n + 1] = c
      /\ \A k \in 1 .. n : longer[k] = actionHistory[k]
  BY <1>1
<1>3. Pushed(c) = IF Len(longer) > HistoryLimit THEN Tail(longer) ELSE longer
  BY DEF Pushed
<1> HIDE DEF longer
<1>4. CASE Len(longer) > HistoryLimit
  <2>1. Pushed(c) = Tail(longer) /\ n = HistoryLimit
    BY <1>1, <1>2, <1>3, <1>4
  <2>2. longer # <<>>
    BY <1>1, <1>2
  <2>3. Len(Tail(longer)) = n /\ \A k \in 1 .. n : Tail(longer)[k] = longer[k + 1]
    BY <1>1, <1>2, <2>2
  <2> HIDE DEF n
  <2>4. /\ Tail(longer)[n] = c /\ Tail(longer)[n - 1] = longer[n] /\ Tail(longer)[n - 2] = longer[n - 1]
    <3>1. n \in 1 .. n /\ n - 1 \in 1 .. n /\ n - 2 \in 1 .. n /\ (n - 1) + 1 = n /\ (n - 2) + 1 = n - 1
      BY <1>1, <2>1
    <3>2. QED
      BY <1>2, <2>3, <3>1
  <2>5. longer[n] = actionHistory[n] /\ longer[n - 1] = actionHistory[n - 1]
    BY <1>1, <1>2, <2>1
  <2>6. QED
    BY <1>1, <2>1, <2>3, <2>4, <2>5 DEF n
<1>5. CASE ~(Len(longer) > HistoryLimit)
  <2>1. Pushed(c) = longer
    BY <1>3, <1>5
  <2> HIDE DEF n
  <2>2. (n >= 1 => longer[n] = actionHistory[n]) /\ (n >= 2 => longer[n - 1] = actionHistory[n - 1])
    BY <1>1, <1>2
  <2>3. Len(longer) - 1 = n /\ Len(longer) - 2 = n - 1
    BY <1>1, <1>2
  <2>4. QED
    BY <1>1, <1>2, <2>1, <2>2, <2>3 DEF n
<1>6. QED
  BY <1>4, <1>5

LEMMA RecordedRepetition ==
  ASSUME TypeOK, Repetition, NEW c \in Capability,
         actionHistory' = Pushed(c), repeats' = Repeats(c)
  PROVE  Repetition' /\ repeats' <= repeats + 1
<1> DEFINE n == Len(actionHistory)
           m == Len(actionHistory')
<1>1. /\ n \in Nat /\ m \in Nat /\ m >= 1 /\ actionHistory'[m] = c
      /\ n >= 1 => m >= 2 /\ actionHistory'[m - 1] = actionHistory[n]
      /\ n >= 2 => m >= 3 /\ actionHistory'[m - 2] = actionHistory[n - 1]
  BY PushedEnd
<1>2. /\ repeats >= 1 => n >= 1 /\ actionHistory[n] # "none"
      /\ repeats >= 2 => n >= 2 /\ actionHistory[n - 1] = actionHistory[n]
  BY DEF Repetition
<1>3. /\ repeats' = IF c = "none" THEN 0 ELSE IF n > 0 /\ actionHistory[n] = c THEN repeats + 1 ELSE 1
      /\ repeats \in Nat
  BY HistoryLength DEF Repeats
<1> HIDE DEF n, m
<1>4. repeats' >= 1 => c # "none"
  BY <1>3
<1>5. repeats' >= 2 => n >= 1 /\ actionHistory[n] = c /\ repeats' = repeats + 1
  BY <1>1, <1>3
<1>6. /\ repeats' >= 1 => m >= 1 /\ actionHistory'[m] # "none"
      /\ repeats' >= 2 => m >= 2 /\ actionHistory'[m - 1] = actionHistory'[m]
  BY <1>1, <1>4, <1>5
<1>7. repeats' >= 3 => m >= 3 /\ actionHistory'[m - 2] = actionHistory'[m]
  BY <1>1, <1>2, <1>3, <1>5
<1>8. repeats' <= repeats + 1
  BY <1>3
<1>9. QED
  BY <1>6, <1>7, <1>8 DEF Repetition, m

\* A thread whose call is refused or caught, or that moves on, does not come under way again.
LEMMA EndedFlight ==
  ASSUME TypeOK, NEW t \in Thread, \A u \in Thread : u # t => thread'[u] = thread[u],
         thread'[t] = None \/ thread'[t].place \in Ended
  PROVE  Flight' \subseteq Flight \ {t}
BY DEF Flight, Busy

LEMMA MovesFlight ==
  ASSUME TypeOK, NEW t \in Thread, Busy(t), NEW place \in Place, Moves(t, place)
  PROVE  /\ \A u \in Thread : u # t => thread'[u] = thread[u]
         /\ thread'[t].place = place
<1>1. thread[t] \in Record
  BY BusyThread
<1>2. thread'[t] = [thread[t] EXCEPT !.place = place]
  BY DEF Moves, TypeOK
<1>3. QED
  BY <1>1, <1>2 DEF Moves, TypeOK, Record

LEMMA CaughtFlight ==
  ASSUME TypeOK, DetectCycle, NEW t \in Thread, NEW kind, NEW i, NEW attempt,
         Enters(t, kind, i, attempt)
  PROVE  Flight' \subseteq Flight
<1>1. thread' = [thread EXCEPT ![t] = Called(kind, i, attempt, "thrown")]
  BY EntersShape
<1>2. thread'[t].place = "thrown" /\ \A u \in Thread : u # t => thread'[u] = thread[u]
  BY <1>1 DEF TypeOK, Called
<1>3. QED
  BY <1>2, EndedFlight DEF Ended

\* While the repetition can be seen, no run begins.
LEMMA NoNewFlight ==
  ASSUME TypeOK, DetectCycle, NEW t \in Thread, Steps(t)
  PROVE  Flight' \subseteq Flight
<1>1. CASE \E kind, i, attempt : Enters(t, kind, i, attempt)
  BY <1>1, CaughtFlight
<1>2. CASE thread' = [thread EXCEPT ![t] = None]
  <2>1. thread'[t] = None /\ \A u \in Thread : u # t => thread'[u] = thread[u]
    BY <1>2 DEF TypeOK
  <2>2. QED
    BY <2>1, EndedFlight
<1>3. CASE GateRefuses(t) \/ GatePermits(t) \/ ExecutorAnswers(t)
  <2>1. t \in Flight
    BY <1>3 DEF GateRefuses, GatePermits, ExecutorAnswers, At, Flight, Ended
  <2>2. \A u \in Thread : u # t => thread'[u] = thread[u]
    BY <1>3 DEF GateRefuses, GatePermits, ExecutorAnswers, Moves, TypeOK
  <2>3. QED
    BY <2>1, <2>2 DEF Flight, Busy
<1>4. CASE RunIsOver(t) \/ RunCompletes(t)
  <2>1. PICK place \in Ended : Moves(t, place) /\ Busy(t)
    BY <1>4 DEF RunIsOver, RunCompletes, At, Ended
  <2>2. place \in Place
    BY <2>1 DEF Ended, Place
  <2>3. QED
    BY <2>1, <2>2, MovesFlight, EndedFlight
<1>5. CASE CallEnds(t) \/ Leaves(t)
  BY <1>2, <1>5 DEF CallEnds, Leaves
<1>6. QED
  BY <1>1, <1>3, <1>4, <1>5 DEF Steps, Continues, Tick, ExecuteRoutine, Remediate, NextRoutine, Proceeds

LEMMA FlightFinite ==
  ASSUME TypeOK
  PROVE  /\ IsFiniteSet(Flight) /\ Cardinality(Flight) \in Nat
         /\ IsFiniteSet(Thread) /\ Cardinality(Thread) \in Nat
<1>1. Flight \subseteq Thread
  BY DEF Flight
<1>2. QED
  BY <1>1, AutonomyAssumption, FS_Subset, FS_CardinalityType

\* A run that is recorded is no longer under way.
LEMMA CompletedFlight ==
  ASSUME TypeOK, NEW t \in Thread, RunCompletes(t)
  PROVE  /\ Cardinality(Flight') \in Nat
         /\ Cardinality(Flight') <= Cardinality(Flight) - 1
         /\ Cardinality(Flight') <= Cardinality(Thread) - 1
<1>1. Busy(t) /\ Moves(t, "returned") /\ t \in Flight
  BY DEF RunCompletes, At, Flight, Ended
<1>2. Flight' \subseteq Flight \ {t}
  BY <1>1, MovesFlight, EndedFlight DEF Place, Ended
<1>3. Flight' \subseteq Thread \ {t}
  BY <1>2 DEF Flight
<1>4. /\ IsFiniteSet(Flight \ {t}) /\ Cardinality(Flight \ {t}) = Cardinality(Flight) - 1
      /\ IsFiniteSet(Thread \ {t}) /\ Cardinality(Thread \ {t}) = Cardinality(Thread) - 1
  BY <1>1, FlightFinite, FS_RemoveElement
<1> DEFINE after == Flight'
<1>5. after \subseteq Flight \ {t} /\ after \subseteq Thread \ {t}
  BY <1>2, <1>3
<1> HIDE DEF after
<1>6. /\ Cardinality(after) <= Cardinality(Flight \ {t}) /\ Cardinality(after) \in Nat
      /\ Cardinality(after) <= Cardinality(Thread \ {t})
  BY <1>4, <1>5, FS_Subset, FS_CardinalityType
<1>7. QED
  BY <1>4, <1>6 DEF after

LEMMA FlightShrinks ==
  ASSUME TypeOK, Flight' \subseteq Flight
  PROVE  Cardinality(Flight') \in Nat /\ Cardinality(Flight') <= Cardinality(Flight)
<1> DEFINE after == Flight'
<1>1. after \subseteq Flight /\ IsFiniteSet(Flight)
  BY FlightFinite
<1> HIDE DEF after
<1>2. Cardinality(after) <= Cardinality(Flight) /\ Cardinality(after) \in Nat
  BY <1>1, FS_Subset, FS_CardinalityType
<1>3. QED
  BY <1>2 DEF after

LEMMA RepetitionStep == TypeOK /\ RepetitionInv /\ [Next]_vars => RepetitionInv'
<1> SUFFICES ASSUME TypeOK, RepetitionInv, [Next]_vars PROVE RepetitionInv'
  OBVIOUS
<1>0. /\ Cardinality(Flight) \in Nat /\ Cardinality(Thread) \in Nat /\ repeats \in Nat
      /\ repeats >= 3 => repeats + Cardinality(Flight) <= 2 + Cardinality(Thread)
  BY FlightFinite, HistoryLength DEF RepetitionInv
<1>1. ASSUME NEW t \in Thread, RunCompletes(t) PROVE RepetitionInv'
  <2>1. Recorded(t) \in Capability
    BY <1>1, BusyThread DEF RunCompletes, At
  <2>2. Repetition' /\ repeats' <= repeats + 1 /\ repeats' \in Nat
    BY <1>1, <2>1, RecordedRepetition, RepeatsTypes DEF RunCompletes, RepetitionInv
  <2> DEFINE after == Cardinality(Flight')
  <2>3. after \in Nat /\ after <= Cardinality(Flight) - 1 /\ after <= Cardinality(Thread) - 1
    BY <1>1, CompletedFlight
  <2> HIDE DEF after
  <2>4. repeats' >= 3 => repeats' + after <= 2 + Cardinality(Thread)
    BY <1>0, <2>2, <2>3
  <2>5. QED
    BY <2>2, <2>4 DEF RepetitionInv, after
<1>2. CASE UNCHANGED historyVars /\ (repeats >= 3 => Flight' \subseteq Flight)
  <2>1. Repetition' /\ repeats' = repeats
    BY <1>2 DEF RepetitionInv, Repetition, historyVars
  <2> DEFINE after == Cardinality(Flight')
  <2>2. repeats >= 3 => after \in Nat /\ after <= Cardinality(Flight)
    BY <1>2, FlightShrinks
  <2> HIDE DEF after
  <2>3. repeats' >= 3 => repeats' + after <= 2 + Cardinality(Thread)
    BY <1>0, <2>1, <2>2
  <2>4. QED
    BY <2>1, <2>3 DEF RepetitionInv, after
<1>3. CASE Switches \/ UNCHANGED vars
  <2>1. UNCHANGED thread /\ UNCHANGED historyVars
    BY <1>3 DEF Switches, SetAutonomyLevel, ActivateKillSwitch, ResetKillSwitch,
                StartSelfRunningLoop, StopSelfRunningLoop, vars, historyVars
  <2>2. Flight' = Flight
    BY <2>1 DEF Flight, Busy
  <2>3. QED
    BY <1>2, <2>1, <2>2
<1>4. ASSUME NEW t \in Thread, Steps(t), ~RunCompletes(t) PROVE RepetitionInv'
  <2>1. UNCHANGED historyVars
    BY <1>4 DEF Steps, Continues, Tick, ExecuteRoutine, GateRefuses, GatePermits, ExecutorAnswers,
                RunIsOver, Remediate, NextRoutine, CallEnds
  <2>2. repeats >= 3 => Flight' \subseteq Flight
    BY <1>4, RepetitionIsSeen, NoNewFlight DEF RepetitionInv
  <2>3. QED
    BY <1>2, <2>1, <2>2
<1>5. QED
  BY <1>1, <1>3, <1>4, NextShape

\* A capability is repeated twice, and then once more at most for each thread, whatever threads
\* there are (autonomyEngine.ts:196, 218-226, 235-243).
THEOREM RepetitionIsBounded == Spec => []RepetitionBounded
<1>1. Init => RepetitionInv
  BY DEF Init, RepetitionInv, Repetition
<1>2. TypeOK /\ RepetitionInv => RepetitionBounded
  <2> SUFFICES ASSUME TypeOK, RepetitionInv PROVE repeats <= 2 + Cardinality(Thread)
    BY DEF RepetitionBounded
  <2>1. Cardinality(Flight) \in Nat /\ Cardinality(Thread) \in Nat /\ repeats \in Nat
    BY FlightFinite, HistoryLength
  <2>2. QED
    BY <2>1 DEF RepetitionInv
<1>3. QED
  BY <1>1, <1>2, RepetitionStep, AutonomyTypes, PTL DEF Spec
=============================================================================
