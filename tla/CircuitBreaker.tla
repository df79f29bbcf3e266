---------------------------- MODULE CircuitBreaker ----------------------------
(***************************************************************************)
(* The circuit breaker of the tool executor (class CircuitBreaker of       *)
(* src/tools/executor.ts): one record per tool.  A tool without a          *)
(* record behaves as one with a fresh CLOSED record.  The clock is         *)
(* abstracted to the moment the cooldown since the last failure is over.   *)
(***************************************************************************)
EXTENDS Naturals

CONSTANTS
  Tool,               \* tool ids
  FailureThreshold    \* failures that open the circuit

ASSUME ThresholdAssumption == FailureThreshold \in Nat \ {0}

VARIABLE breaker

BreakerState == {"CLOSED", "OPEN", "HALF_OPEN"}

BreakerTypeOK ==
  breaker \in [Tool -> [count : Nat, state : BreakerState, cooled : BOOLEAN]]

BreakerInit ==
  breaker = [t \in Tool |-> [count |-> 0, state |-> "CLOSED", cooled |-> FALSE]]

-----------------------------------------------------------------------------

\* checkState lets the call through: CLOSED, or the cooldown has passed.
\* Every call that finds the cooldown over is admitted, not one probe alone.
Admits(t) == breaker[t].state = "CLOSED" \/ breaker[t].cooled

\* checkState on an admitted call marks a cooled circuit HALF_OPEN.
CheckState(t) ==
  breaker' = [breaker EXCEPT ![t].state = IF @ = "CLOSED" THEN @ ELSE "HALF_OPEN"]

RecordSuccess(t) ==
  breaker' = [breaker EXCEPT ![t] = [count |-> 0, state |-> "CLOSED", cooled |-> FALSE]]

\* The count is not reset on the way to HALF_OPEN: one more failure reopens.
RecordFailure(t) ==
  LET n == breaker[t].count + 1
  IN breaker' = [breaker EXCEPT ![t] =
       [count  |-> n,
        state  |-> IF n >= FailureThreshold THEN "OPEN" ELSE breaker[t].state,
        cooled |-> FALSE]]

\* More than cooldownMs has passed since lastFailure.
CooldownElapses(t) ==
  /\ breaker[t].state # "CLOSED"
  /\ ~breaker[t].cooled
  /\ breaker' = [breaker EXCEPT ![t].cooled = TRUE]

\* The circuit is closed exactly while the failures since the last success are
\* below the threshold.
BreakerCoherent ==
  \A t \in Tool : breaker[t].state = "CLOSED" <=> breaker[t].count < FailureThreshold

=============================================================================
