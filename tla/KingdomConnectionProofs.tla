------------------------- MODULE KingdomConnectionProofs -------------------------
(***************************************************************************)
(* Proofs about KingdomConnection, for any number of endpoints, fetches,   *)
(* sockets and retry timers and any failure limit.  Each safety invariant  *)
(* is inductive together with the types; the action property of the        *)
(* observations needs ReadsAreOfThisEndpoint.                              *)
(***************************************************************************)
EXTENDS KingdomConnection, TLAPS

-----------------------------------------------------------------------------

\* What the helpers leave behind has its type.

LEMMA MovesTypes ==
  ASSUME TypeOK, NEW f \in Fetch, NEW from, NEW to \in Phase,
         Moves(f, from, to)
  PROVE  phase' \in [Fetch -> Phase]
BY DEF TypeOK, Phase, Moves

LEMMA NotifyTypes ==
  ASSUME TypeOK, NEW s \in ConnectionState, Notify(s)
  PROVE  state' \in ConnectionState /\ fresh' \in [Reads -> BOOLEAN]
<1>1. state' \in ConnectionState
  BY DEF Notify
<1>2. fresh' = [r \in Reads |-> fresh[r] /\ s = state]
  BY DEF Notify
<1>3. \A r \in Reads : (fresh[r] /\ s = state) \in BOOLEAN
  OBVIOUS
<1>4. QED
  BY <1>1, <1>2, <1>3

LEMMA CloseTypes ==
  ASSUME TypeOK, CloseWebSocket
  PROVE  /\ ws' \in Socket \cup {NONE}
         /\ sockets' \in [Socket -> {"closed", "open", "closing"}]
BY DEF TypeOK, Phase, CloseWebSocket

LEMMA CountTypes ==
  ASSUME TypeOK, NEW n \in Nat, CountFailures(n)
  PROVE  failures' \in 0..MaxConsecutiveFailures
BY ConnectionAssumption DEF TypeOK, Phase, CountFailures

LEMMA RecordSuccessTypes ==
  ASSUME TypeOK, RecordSuccess
  PROVE  /\ failures' \in 0..MaxConsecutiveFailures
         /\ reconnecting' \in BOOLEAN
         /\ state' \in ConnectionState /\ fresh' \in [Reads -> BOOLEAN]
         /\ ws' \in Socket \cup {NONE}
         /\ sockets' \in [Socket -> {"closed", "open", "closing"}]
<1>1. failures' \in 0..MaxConsecutiveFailures /\ reconnecting' \in BOOLEAN
  <2>1. failures' = 0 /\ reconnecting' = FALSE
    BY Zenon DEF RecordSuccess
  <2>2. 0 \in 0..MaxConsecutiveFailures
    BY ConnectionAssumption
  <2>3. QED
    BY <2>1, <2>2
<1>2. CASE UNCHANGED <<state, fresh, socketVars>>
  BY <1>1, <1>2 DEF TypeOK, Phase, socketVars
<1>3. CASE Notify("CONNECTED") /\ InitWebSocket
  <2>1. state' \in ConnectionState /\ fresh' \in [Reads -> BOOLEAN]
    BY <1>3, NotifyTypes DEF ConnectionState
  <2>2. /\ ws' \in Socket \cup {NONE}
        /\ sockets' \in [Socket -> {"closed", "open", "closing"}]
    BY <1>3 DEF InitWebSocket, socketVars, TypeOK
  <2>3. QED
    BY <1>1, <2>1, <2>2
<1>4. QED
  BY <1>2, <1>3 DEF RecordSuccess

LEMMA RecordFailureTypes ==
  ASSUME TypeOK, RecordFailure
  PROVE  /\ failures' \in 0..MaxConsecutiveFailures
         /\ state' \in ConnectionState /\ fresh' \in [Reads -> BOOLEAN]
         /\ ws' \in Socket \cup {NONE}
         /\ sockets' \in [Socket -> {"closed", "open", "closing"}]
<1>1. failures' \in 0..MaxConsecutiveFailures
  BY CountTypes DEF RecordFailure
<1>2. CASE UNCHANGED <<state, fresh, socketVars>>
  BY <1>1, <1>2 DEF TypeOK, Phase, socketVars
<1>3. CASE Notify("DISCONNECTED") /\ CloseWebSocket
  BY <1>1, <1>3, NotifyTypes, CloseTypes DEF ConnectionState
<1>4. QED
  BY <1>2, <1>3 DEF RecordFailure

LEMMA HandshakeFailsTypes ==
  ASSUME TypeOK, NEW n \in Nat, NEW s, HandshakeFails(n, s)
  PROVE  /\ failures' \in 0..MaxConsecutiveFailures
         /\ reconnecting' \in BOOLEAN /\ timer' \in BOOLEAN /\ orphans' \in Nat
         /\ state' \in ConnectionState /\ fresh' \in [Reads -> BOOLEAN]
         /\ ws' \in Socket \cup {NONE}
         /\ sockets' \in [Socket -> {"closed", "open", "closing"}]
<1>1. failures' \in 0..MaxConsecutiveFailures
  BY CountTypes DEF HandshakeFails
<1>2. reconnecting' \in BOOLEAN /\ timer' \in BOOLEAN
  BY DEF HandshakeFails, TypeOK
<1>3. orphans' \in Nat
  BY DEF HandshakeFails, TypeOK
<1>4. state' \in ConnectionState
  BY DEF HandshakeFails, ConnectionState
<1>5. fresh' \in [Reads -> BOOLEAN]
  <2>1. fresh' = [r \in Reads |-> fresh[r] /\ ~Drops(n, s) /\ s = state /\ s = "RECONNECTING"]
    BY DEF HandshakeFails
  <2>2. \A r \in Reads :
          (fresh[r] /\ ~Drops(n, s) /\ s = state /\ s = "RECONNECTING") \in BOOLEAN
    OBVIOUS
  <2>3. QED
    BY <2>1, <2>2
<1>6. /\ ws' \in Socket \cup {NONE}
      /\ sockets' \in [Socket -> {"closed", "open", "closing"}]
  BY CloseTypes DEF HandshakeFails, socketVars, TypeOK
<1>7. QED
  BY <1>1, <1>2, <1>3, <1>4, <1>5, <1>6

LEMMA StartHandshakeTypes ==
  ASSUME TypeOK, NEW f \in Handshakes, StartHandshake(f)
  PROVE  /\ phase' \in [Fetch -> Phase]
         /\ reconnecting' \in BOOLEAN /\ timer' \in BOOLEAN
         /\ state' \in ConnectionState /\ fresh' \in [Reads -> BOOLEAN]
<1>1. phase' \in [Fetch -> Phase]
  BY MovesTypes DEF Phase, StartHandshake, Fetch
<1>2. QED
  BY <1>1 DEF StartHandshake, NewGeneration, ConnectionState

\* Steps preserve TypeOK.
LEMMA TypesStep ==
  ASSUME TypeOK, [Next]_vars
  PROVE  TypeOK'
<1>1. TypeOK /\ [Next]_vars
  OBVIOUS
<1>2. ASSUME NEW f \in Polls, Poll(f) PROVE TypeOK'
  BY <1>1, <1>2, ConnectionAssumption DEF TypeOK, Phase, Fetch, ConnectionState, Verdict,
     Poll, Moves, retryVars, socketVars, readVars
<1>3. ASSUME NEW f \in Calls, ApiCall(f) PROVE TypeOK'
  BY <1>1, <1>3, ConnectionAssumption DEF TypeOK, Phase, Fetch, ConnectionState, Verdict,
     ApiCall, Moves, retryVars, socketVars, readVars
<1>4. ASSUME NEW f \in Reads, ReadObservation(f) PROVE TypeOK'
  BY <1>1, <1>4, ConnectionAssumption DEF TypeOK, Phase, Fetch, ConnectionState, Verdict,
     ReadObservation, Moves, retryVars, socketVars, readVars
<1>5. ASSUME NEW f \in Handshakes, Reconnect(f) PROVE TypeOK'
  BY <1>1, <1>5, ConnectionAssumption DEF TypeOK, Phase, Fetch, ConnectionState, Verdict,
     Reconnect, StartHandshake, NewGeneration, Moves, retryVars, socketVars,
     readVars
<1>6. ASSUME NEW f \in Handshakes, NEW u \in Url, SetBaseUrl(u, f)
      PROVE  TypeOK'
  BY <1>1, <1>6, ConnectionAssumption DEF TypeOK, Phase, Fetch, ConnectionState, Verdict,
     SetBaseUrl, CloseWebSocket, StartHandshake, NewGeneration, Moves, retryVars,
     socketVars, readVars
<1>7. ASSUME NEW f \in Handshakes, RetryTimerFires(f) PROVE TypeOK'
  <2>1. StartHandshake(f)
    BY <1>7 DEF RetryTimerFires
  <2>2. phase' \in [Fetch -> Phase] /\ reconnecting' \in BOOLEAN /\ timer' \in BOOLEAN
    BY <1>1, <2>1, StartHandshakeTypes
  <2>3. state' \in ConnectionState /\ fresh' \in [Reads -> BOOLEAN]
    BY <1>1, <2>1, StartHandshakeTypes
  <2>4. orphans' \in Nat
    BY <1>1, <1>7 DEF RetryTimerFires, TypeOK
  <2>5. /\ url' \in Url
        /\ compat' \in Verdict
        /\ heartbeat' \in BOOLEAN
        /\ asked' \in [Reads -> Url \cup {NONE}]
        /\ shown' \in Url \cup {NONE}
        /\ failures' \in 0..MaxConsecutiveFailures
    BY <1>1, <1>7, <2>1 DEF RetryTimerFires, StartHandshake, TypeOK, readVars
  <2>6. /\ ws' \in Socket \cup {NONE}
        /\ sockets' \in [Socket -> {"closed", "open", "closing"}]
    BY <1>1, <1>7 DEF RetryTimerFires, TypeOK, socketVars
  <2>7. QED
    BY <1>1, <2>1, <2>2, <2>3, <2>4, <2>5, <2>6 DEF TypeOK, Phase
<1>8. ASSUME NEW f \in Fetch, Responds(f) PROVE TypeOK'
  <2>1. phase' \in [Fetch -> Phase]
    BY <1>1, <1>8, MovesTypes DEF Phase, Responds
  <2>2. /\ failures' \in 0..MaxConsecutiveFailures /\ reconnecting' \in BOOLEAN
        /\ state' \in ConnectionState /\ fresh' \in [Reads -> BOOLEAN]
        /\ ws' \in Socket \cup {NONE}
        /\ sockets' \in [Socket -> {"closed", "open", "closing"}]
    BY <1>1, <1>8, RecordSuccessTypes DEF Responds, socketVars, TypeOK
  <2>3. timer' \in BOOLEAN /\ orphans' \in Nat
    BY <1>1, <1>8 DEF Responds, TypeOK
  <2>4. /\ url' \in Url
        /\ compat' \in Verdict
        /\ heartbeat' \in BOOLEAN
        /\ asked' \in [Reads -> Url \cup {NONE}]
        /\ shown' \in Url \cup {NONE}
    BY <1>1, <1>8 DEF Responds, TypeOK, readVars
  <2>5. QED
    BY <1>1, <2>1, <2>2, <2>3, <2>4 DEF TypeOK, Phase
<1>9. ASSUME NEW f \in Fetch, ErrorStatus(f) PROVE TypeOK'
  <2>1. phase' \in [Fetch -> Phase]
    BY <1>1, <1>9, MovesTypes DEF Phase, ErrorStatus
  <2>2. /\ url' \in Url
        /\ compat' \in Verdict
        /\ heartbeat' \in BOOLEAN
        /\ asked' \in [Reads -> Url \cup {NONE}]
        /\ shown' \in Url \cup {NONE}
    BY <1>1, <1>9 DEF ErrorStatus, TypeOK, readVars
  <2>3. /\ failures' \in 0..MaxConsecutiveFailures
        /\ reconnecting' \in BOOLEAN /\ timer' \in BOOLEAN /\ orphans' \in Nat
        /\ state' \in ConnectionState /\ fresh' \in [Reads -> BOOLEAN]
        /\ ws' \in Socket \cup {NONE}
        /\ sockets' \in [Socket -> {"closed", "open", "closing"}]
    <3>1. CASE HandshakeFails(1, state)
      BY <1>1, <3>1, HandshakeFailsTypes
    <3>2. CASE UNCHANGED <<state, failures, retryVars, fresh, socketVars>>
      BY <1>1, <3>2 DEF TypeOK, Phase, retryVars, socketVars
    <3>3. QED
      BY <1>9, <3>1, <3>2 DEF ErrorStatus
  <2>4. QED
    BY <2>1, <2>2, <2>3 DEF TypeOK, Phase
<1>10. ASSUME NEW f \in Fetch, Unauthorized(f) PROVE TypeOK'
  <2>1. phase' \in [Fetch -> Phase]
    BY <1>1, <1>10, MovesTypes DEF Phase, Unauthorized
  <2>2. /\ url' \in Url
        /\ compat' \in Verdict
        /\ heartbeat' \in BOOLEAN
        /\ asked' \in [Reads -> Url \cup {NONE}]
        /\ shown' \in Url \cup {NONE}
    BY <1>1, <1>10 DEF Unauthorized, TypeOK, readVars
  <2>3. /\ failures' \in 0..MaxConsecutiveFailures
        /\ reconnecting' \in BOOLEAN /\ timer' \in BOOLEAN /\ orphans' \in Nat
        /\ state' \in ConnectionState /\ fresh' \in [Reads -> BOOLEAN]
        /\ ws' \in Socket \cup {NONE}
        /\ sockets' \in [Socket -> {"closed", "open", "closing"}]
    <3>1. CASE HandshakeFails(1, "AUTHENTICATION_FAILED")
      BY <1>1, <3>1, HandshakeFailsTypes
    <3>2. CASE UNCHANGED <<state, failures, retryVars, fresh, socketVars>>
      BY <1>1, <3>2 DEF TypeOK, Phase, retryVars, socketVars
    <3>3. CASE Notify("AUTHENTICATION_FAILED") /\ UNCHANGED <<failures, retryVars, socketVars>>
      <4>1. state' \in ConnectionState /\ fresh' \in [Reads -> BOOLEAN]
        BY <1>1, <3>3, NotifyTypes DEF ConnectionState
      <4>2. QED
        BY <1>1, <3>3, <4>1 DEF TypeOK, Phase, retryVars, socketVars
    <3>4. QED
      BY <1>10, <3>1, <3>2, <3>3 DEF Unauthorized
  <2>4. QED
    BY <2>1, <2>2, <2>3 DEF TypeOK, Phase
<1>11. ASSUME NEW f \in Fetch, Fails(f) PROVE TypeOK'
  <2>1. phase' \in [Fetch -> Phase]
    BY <1>1, <1>11, MovesTypes DEF Phase, Fails
  <2>2. /\ url' \in Url
        /\ compat' \in Verdict
        /\ heartbeat' \in BOOLEAN
        /\ asked' \in [Reads -> Url \cup {NONE}]
        /\ shown' \in Url \cup {NONE}
    BY <1>1, <1>11 DEF Fails, TypeOK, readVars
  <2>3. /\ failures' \in 0..MaxConsecutiveFailures
        /\ reconnecting' \in BOOLEAN /\ timer' \in BOOLEAN /\ orphans' \in Nat
        /\ state' \in ConnectionState /\ fresh' \in [Reads -> BOOLEAN]
        /\ ws' \in Socket \cup {NONE}
        /\ sockets' \in [Socket -> {"closed", "open", "closing"}]
    <3>1. CASE HandshakeFails(2, state)
      BY <1>1, <3>1, HandshakeFailsTypes
    <3>2. CASE UNCHANGED <<state, failures, retryVars, fresh, socketVars>>
      BY <1>1, <3>2 DEF TypeOK, Phase, retryVars, socketVars
    <3>3. CASE RecordFailure /\ UNCHANGED retryVars
      BY <1>1, <3>3, RecordFailureTypes DEF TypeOK, Phase, retryVars
    <3>4. QED
      BY <1>11, <3>1, <3>2, <3>3 DEF Fails
  <2>4. QED
    BY <2>1, <2>2, <2>3 DEF TypeOK, Phase
<1>12. ASSUME NEW f \in Polls, NEW v \in Verdict, StatusArrives(f, v)
       PROVE  TypeOK'
  BY <1>1, <1>12, ConnectionAssumption DEF TypeOK, Phase, Fetch, ConnectionState, Verdict,
     StatusArrives, CheckVersion, Notify, Moves, retryVars, socketVars, readVars
<1>13. ASSUME NEW f \in Calls, CallReturns(f) PROVE TypeOK'
  BY <1>1, <1>13, ConnectionAssumption DEF TypeOK, Phase, Fetch, ConnectionState, Verdict,
     CallReturns, Moves, retryVars, socketVars, readVars
<1>14. ASSUME NEW f \in Reads, ObservationArrives(f) PROVE TypeOK'
  BY <1>1, <1>14, ConnectionAssumption DEF TypeOK, Phase, Fetch, ConnectionState, Verdict,
     ObservationArrives, Moves, retryVars, socketVars, readVars
<1>15. ASSUME NEW f \in Handshakes, NEW v \in Verdict, HandshakeCompletes(f, v)
       PROVE  TypeOK'
  <2>1. phase' \in [Fetch -> Phase]
    BY <1>1, <1>15, MovesTypes DEF Phase, HandshakeCompletes, Fetch
  <2>2. state' \in ConnectionState /\ fresh' \in [Reads -> BOOLEAN]
    BY <1>15 DEF HandshakeCompletes, NewGeneration, ConnectionState
  <2>3. failures' \in 0..MaxConsecutiveFailures
    BY <1>1, <1>15, ConnectionAssumption DEF HandshakeCompletes, TypeOK
  <2>4. reconnecting' \in BOOLEAN /\ timer' \in BOOLEAN /\ orphans' \in Nat
    BY <1>1, <1>15 DEF HandshakeCompletes, TypeOK
  <2>5. compat' \in Verdict
    BY <1>15 DEF HandshakeCompletes
  <2>6. /\ url' \in Url
        /\ heartbeat' \in BOOLEAN
        /\ asked' \in [Reads -> Url \cup {NONE}]
        /\ shown' \in Url \cup {NONE}
    BY <1>1, <1>15 DEF HandshakeCompletes, TypeOK, readVars
  <2>7. /\ ws' \in Socket \cup {NONE}
        /\ sockets' \in [Socket -> {"closed", "open", "closing"}]
    BY <1>1, <1>15 DEF HandshakeCompletes, TypeOK, socketVars
  <2>8. QED
    BY <1>1, <2>1, <2>2, <2>3, <2>4, <2>5, <2>6, <2>7 DEF TypeOK, Phase
<1>16. ASSUME NEW s \in Socket, NEW v \in Verdict, SocketMessage(s, v)
       PROVE  TypeOK'
  BY <1>1, <1>16, ConnectionAssumption DEF TypeOK, Phase, Fetch, ConnectionState, Verdict,
     SocketMessage, CheckVersion, Notify, retryVars, socketVars, readVars
<1>17. ASSUME NEW s \in Socket, SocketCloses(s) PROVE TypeOK'
  BY <1>1, <1>17, ConnectionAssumption DEF TypeOK, Phase, Fetch, ConnectionState, Verdict,
     SocketCloses, Notify, retryVars, socketVars, readVars
<1>18. ASSUME NEW f \in Fetch, ErrorBegins(f) PROVE TypeOK'
  BY <1>1, <1>18, ConnectionAssumption DEF TypeOK, Phase, Fetch, ConnectionState, Verdict,
     ErrorBegins, Moves, retryVars, socketVars, readVars
<1>19. CASE UNCHANGED vars
  BY <1>1, <1>19 DEF TypeOK, Phase, Fetch, ConnectionState, Verdict, vars
<1>20. QED
  BY <1>1, <1>2, <1>3, <1>4, <1>5, <1>6, <1>7, <1>8, <1>9, <1>10, <1>11, <1>12,
     <1>13, <1>14, <1>15, <1>16, <1>17, <1>18, <1>19 DEF Next, Retry, Answered,
     Trouble, Finishes

\* Type correctness of the adapter's fields, fetches, timers and sockets.
THEOREM ConnectionTypes == Spec => []TypeOK
<1>1. ASSUME Init PROVE TypeOK
  <2>1. /\ failures \in 0..MaxConsecutiveFailures
        /\ orphans \in Nat
    BY <1>1, ConnectionAssumption DEF Init
  <2>2. /\ url \in Url /\ state \in ConnectionState /\ compat \in Verdict
        /\ reconnecting \in BOOLEAN /\ heartbeat \in BOOLEAN
        /\ timer \in BOOLEAN
    BY <1>1 DEF Init, ConnectionState, Verdict
  <2>3. /\ phase \in [Fetch -> Phase]
        /\ fresh \in [Reads -> BOOLEAN]
        /\ asked \in [Reads -> Url \cup {NONE}]
        /\ shown \in Url \cup {NONE}
    BY <1>1 DEF Init, Phase
  <2>4. /\ ws \in Socket \cup {NONE}
        /\ sockets \in [Socket -> {"closed", "open", "closing"}]
    BY <1>1 DEF Init
  <2>5. QED
    BY <2>1, <2>2, <2>3, <2>4 DEF TypeOK, Phase
<1>2. TypeOK /\ [Next]_vars => TypeOK'
  BY TypesStep
<1>3. QED
  BY <1>1, <1>2, PTL DEF Spec

-----------------------------------------------------------------------------

\* Steps preserve IncompatibleNeverConnected.
LEMMA IncompatibleStep ==
  ASSUME TypeOK, IncompatibleNeverConnected, [Next]_vars
  PROVE  IncompatibleNeverConnected'
<1>1. TypeOK /\ IncompatibleNeverConnected /\ [Next]_vars
  OBVIOUS
<1>2. ASSUME NEW f \in Polls, Poll(f) PROVE IncompatibleNeverConnected'
  BY <1>1, <1>2, ConnectionAssumption DEF IncompatibleNeverConnected, Poll, Moves,
     retryVars, socketVars, readVars
<1>3. ASSUME NEW f \in Calls, ApiCall(f) PROVE IncompatibleNeverConnected'
  BY <1>1, <1>3, ConnectionAssumption DEF IncompatibleNeverConnected, ApiCall,
     Moves, retryVars, socketVars, readVars
<1>4. ASSUME NEW f \in Reads, ReadObservation(f)
      PROVE  IncompatibleNeverConnected'
  BY <1>1, <1>4, ConnectionAssumption DEF IncompatibleNeverConnected,
     ReadObservation, Moves, retryVars, socketVars, readVars
<1>5. ASSUME NEW f \in Handshakes, Reconnect(f)
      PROVE  IncompatibleNeverConnected'
  BY <1>1, <1>5, ConnectionAssumption DEF IncompatibleNeverConnected, Reconnect,
     StartHandshake, NewGeneration, Moves, retryVars, socketVars, readVars
<1>6. ASSUME NEW f \in Handshakes, NEW u \in Url, SetBaseUrl(u, f)
      PROVE  IncompatibleNeverConnected'
  BY <1>1, <1>6, ConnectionAssumption DEF IncompatibleNeverConnected, SetBaseUrl,
     CloseWebSocket, StartHandshake, NewGeneration, Moves, retryVars, socketVars,
     readVars
<1>7. ASSUME NEW f \in Handshakes, RetryTimerFires(f)
      PROVE  IncompatibleNeverConnected'
  BY <1>1, <1>7, ConnectionAssumption DEF IncompatibleNeverConnected,
     RetryTimerFires, StartHandshake, NewGeneration, Moves, retryVars, socketVars,
     readVars
<1>8. ASSUME NEW f \in Fetch, Responds(f) PROVE IncompatibleNeverConnected'
  BY <1>1, <1>8, ConnectionAssumption DEF IncompatibleNeverConnected, Responds,
     RecordSuccess, Notify, InitWebSocket, Moves, retryVars, socketVars, readVars
<1>9. ASSUME NEW f \in Fetch, ErrorStatus(f) PROVE IncompatibleNeverConnected'
  BY <1>1, <1>9, ConnectionAssumption DEF IncompatibleNeverConnected, ErrorStatus,
     HandshakeFails, CountFailures, Drops, CloseWebSocket, Moves, retryVars,
     socketVars, readVars
<1>10. ASSUME NEW f \in Fetch, Unauthorized(f)
       PROVE  IncompatibleNeverConnected'
  BY <1>1, <1>10, ConnectionAssumption DEF IncompatibleNeverConnected, Unauthorized,
     HandshakeFails, CountFailures, Drops, CloseWebSocket, Notify, Moves, retryVars,
     socketVars, readVars
<1>11. ASSUME NEW f \in Fetch, Fails(f) PROVE IncompatibleNeverConnected'
  BY <1>1, <1>11, ConnectionAssumption DEF IncompatibleNeverConnected, Fails,
     HandshakeFails, RecordFailure, CountFailures, Drops, CloseWebSocket, Notify,
     Moves, retryVars, socketVars, readVars
<1>12. ASSUME NEW f \in Polls, NEW v \in Verdict, StatusArrives(f, v)
       PROVE  IncompatibleNeverConnected'
  BY <1>1, <1>12, ConnectionAssumption DEF IncompatibleNeverConnected,
     StatusArrives, CheckVersion, Notify, Moves, retryVars, socketVars, readVars
<1>13. ASSUME NEW f \in Calls, CallReturns(f) PROVE IncompatibleNeverConnected'
  BY <1>1, <1>13, ConnectionAssumption DEF IncompatibleNeverConnected, CallReturns,
     Moves, retryVars, socketVars, readVars
<1>14. ASSUME NEW f \in Reads, ObservationArrives(f)
       PROVE  IncompatibleNeverConnected'
  BY <1>1, <1>14, ConnectionAssumption DEF IncompatibleNeverConnected,
     ObservationArrives, Moves, retryVars, socketVars, readVars
<1>15. ASSUME NEW f \in Handshakes, NEW v \in Verdict, HandshakeCompletes(f, v)
       PROVE  IncompatibleNeverConnected'
  BY <1>1, <1>15, ConnectionAssumption DEF IncompatibleNeverConnected,
     HandshakeCompletes, NewGeneration, Moves, retryVars, socketVars, readVars
<1>16. ASSUME NEW s \in Socket, NEW v \in Verdict, SocketMessage(s, v)
       PROVE  IncompatibleNeverConnected'
  BY <1>1, <1>16, ConnectionAssumption DEF IncompatibleNeverConnected,
     SocketMessage, CheckVersion, Notify, retryVars, socketVars, readVars
<1>17. ASSUME NEW s \in Socket, SocketCloses(s)
       PROVE  IncompatibleNeverConnected'
  BY <1>1, <1>17, ConnectionAssumption DEF IncompatibleNeverConnected, SocketCloses,
     Notify, retryVars, socketVars, readVars
<1>18. ASSUME NEW f \in Fetch, ErrorBegins(f) PROVE IncompatibleNeverConnected'
  BY <1>1, <1>18, ConnectionAssumption DEF IncompatibleNeverConnected, ErrorBegins, Moves,
     retryVars, socketVars, readVars
<1>19. CASE UNCHANGED vars
  BY <1>1, <1>19 DEF IncompatibleNeverConnected, vars
<1>20. QED
  BY <1>1, <1>2, <1>3, <1>4, <1>5, <1>6, <1>7, <1>8, <1>9, <1>10, <1>11, <1>12,
     <1>13, <1>14, <1>15, <1>16, <1>17, <1>18, <1>19 DEF Next, Retry, Answered,
     Trouble, Finishes

\* notifyConnection is never told CONNECTED while the last verdict on Kingdom's
\* protocol is INCOMPATIBLE_PROTOCOL, whatever arrives late or twice.
THEOREM IncompatibleIsShut == Spec => []IncompatibleNeverConnected
<1>1. Init => IncompatibleNeverConnected
  BY ConnectionAssumption DEF Init, IncompatibleNeverConnected
<1>2. TypeOK /\ IncompatibleNeverConnected /\ [Next]_vars => IncompatibleNeverConnected'
  BY IncompatibleStep
<1>3. QED
  BY <1>1, <1>2, ConnectionTypes, PTL DEF Spec

\* Steps preserve FailingLinkIsDropped.
LEMMA FailingStep ==
  ASSUME TypeOK, FailingLinkIsDropped, [Next]_vars
  PROVE  FailingLinkIsDropped'
<1>1. TypeOK /\ FailingLinkIsDropped /\ [Next]_vars
  OBVIOUS
<1>2. ASSUME NEW f \in Polls, Poll(f) PROVE FailingLinkIsDropped'
  BY <1>1, <1>2, ConnectionAssumption DEF FailingLinkIsDropped, TypeOK, Poll, Moves,
     retryVars, socketVars, readVars
<1>3. ASSUME NEW f \in Calls, ApiCall(f) PROVE FailingLinkIsDropped'
  BY <1>1, <1>3, ConnectionAssumption DEF FailingLinkIsDropped, TypeOK, ApiCall,
     Moves, retryVars, socketVars, readVars
<1>4. ASSUME NEW f \in Reads, ReadObservation(f) PROVE FailingLinkIsDropped'
  BY <1>1, <1>4, ConnectionAssumption DEF FailingLinkIsDropped, TypeOK,
     ReadObservation, Moves, retryVars, socketVars, readVars
<1>5. ASSUME NEW f \in Handshakes, Reconnect(f) PROVE FailingLinkIsDropped'
  BY <1>1, <1>5, ConnectionAssumption DEF FailingLinkIsDropped, TypeOK, Reconnect,
     StartHandshake, NewGeneration, Moves, retryVars, socketVars, readVars
<1>6. ASSUME NEW f \in Handshakes, NEW u \in Url, SetBaseUrl(u, f)
      PROVE  FailingLinkIsDropped'
  BY <1>1, <1>6, ConnectionAssumption DEF FailingLinkIsDropped, TypeOK, SetBaseUrl,
     CloseWebSocket, StartHandshake, NewGeneration, Moves, retryVars, socketVars,
     readVars
<1>7. ASSUME NEW f \in Handshakes, RetryTimerFires(f)
      PROVE  FailingLinkIsDropped'
  BY <1>1, <1>7, ConnectionAssumption DEF FailingLinkIsDropped, TypeOK,
     RetryTimerFires, StartHandshake, NewGeneration, Moves, retryVars, socketVars,
     readVars
<1>8. ASSUME NEW f \in Fetch, Responds(f) PROVE FailingLinkIsDropped'
  BY <1>1, <1>8, ConnectionAssumption DEF FailingLinkIsDropped, TypeOK, Responds,
     RecordSuccess, Notify, InitWebSocket, Moves, retryVars, socketVars, readVars
<1>9. ASSUME NEW f \in Fetch, ErrorStatus(f) PROVE FailingLinkIsDropped'
  BY <1>1, <1>9, ConnectionAssumption DEF FailingLinkIsDropped, TypeOK, ErrorStatus,
     HandshakeFails, CountFailures, Drops, CloseWebSocket, Moves, retryVars,
     socketVars, readVars
<1>10. ASSUME NEW f \in Fetch, Unauthorized(f) PROVE FailingLinkIsDropped'
  BY <1>1, <1>10, ConnectionAssumption DEF FailingLinkIsDropped, TypeOK,
     Unauthorized, HandshakeFails, CountFailures, Drops, CloseWebSocket, Notify,
     Moves, retryVars, socketVars, readVars
<1>11. ASSUME NEW f \in Fetch, Fails(f) PROVE FailingLinkIsDropped'
  BY <1>1, <1>11, ConnectionAssumption DEF FailingLinkIsDropped, TypeOK, Fails,
     HandshakeFails, RecordFailure, CountFailures, Drops, CloseWebSocket, Notify,
     Moves, retryVars, socketVars, readVars
<1>12. ASSUME NEW f \in Polls, NEW v \in Verdict, StatusArrives(f, v)
       PROVE  FailingLinkIsDropped'
  BY <1>1, <1>12, ConnectionAssumption DEF FailingLinkIsDropped, TypeOK,
     StatusArrives, CheckVersion, Notify, Moves, retryVars, socketVars, readVars
<1>13. ASSUME NEW f \in Calls, CallReturns(f) PROVE FailingLinkIsDropped'
  BY <1>1, <1>13, ConnectionAssumption DEF FailingLinkIsDropped, TypeOK,
     CallReturns, Moves, retryVars, socketVars, readVars
<1>14. ASSUME NEW f \in Reads, ObservationArrives(f)
       PROVE  FailingLinkIsDropped'
  BY <1>1, <1>14, ConnectionAssumption DEF FailingLinkIsDropped, TypeOK,
     ObservationArrives, Moves, retryVars, socketVars, readVars
<1>15. ASSUME NEW f \in Handshakes, NEW v \in Verdict, HandshakeCompletes(f, v)
       PROVE  FailingLinkIsDropped'
  BY <1>1, <1>15, ConnectionAssumption DEF FailingLinkIsDropped, TypeOK,
     HandshakeCompletes, NewGeneration, Moves, retryVars, socketVars, readVars
<1>16. ASSUME NEW s \in Socket, NEW v \in Verdict, SocketMessage(s, v)
       PROVE  FailingLinkIsDropped'
  BY <1>1, <1>16, ConnectionAssumption DEF FailingLinkIsDropped, TypeOK,
     SocketMessage, CheckVersion, Notify, retryVars, socketVars, readVars
<1>17. ASSUME NEW s \in Socket, SocketCloses(s) PROVE FailingLinkIsDropped'
  BY <1>1, <1>17, ConnectionAssumption DEF FailingLinkIsDropped, TypeOK,
     SocketCloses, Notify, retryVars, socketVars, readVars
<1>18. ASSUME NEW f \in Fetch, ErrorBegins(f) PROVE FailingLinkIsDropped'
  BY <1>1, <1>18, ConnectionAssumption DEF FailingLinkIsDropped, TypeOK,
     ErrorBegins, Moves, retryVars, socketVars, readVars
<1>19. CASE UNCHANGED vars
  BY <1>1, <1>19 DEF FailingLinkIsDropped, TypeOK, vars
<1>20. QED
  BY <1>1, <1>2, <1>3, <1>4, <1>5, <1>6, <1>7, <1>8, <1>9, <1>10, <1>11, <1>12,
     <1>13, <1>14, <1>15, <1>16, <1>17, <1>18, <1>19 DEF Next, Retry, Answered,
     Trouble, Finishes

\* recordFailure and recordSuccess never leave a failed link CONNECTED.
THEOREM FailingIsDropped == Spec => []FailingLinkIsDropped
<1>1. Init => FailingLinkIsDropped
  BY ConnectionAssumption DEF Init, FailingLinkIsDropped
<1>2. TypeOK /\ FailingLinkIsDropped /\ [Next]_vars => FailingLinkIsDropped'
  BY FailingStep
<1>3. QED
  BY <1>1, <1>2, ConnectionTypes, PTL DEF Spec

\* Steps preserve ReconnectNotStuck.
LEMMA StuckStep ==
  ASSUME TypeOK, ReconnectNotStuck, [Next]_vars
  PROVE  ReconnectNotStuck'
<1>1. TypeOK /\ ReconnectNotStuck /\ [Next]_vars
  OBVIOUS
<1>2. ASSUME NEW f \in Polls, Poll(f) PROVE ReconnectNotStuck'
  BY <1>1, <1>2, ConnectionAssumption DEF ReconnectNotStuck, TypeOK, Fetch, Poll,
     Moves, retryVars, socketVars, readVars
<1>3. ASSUME NEW f \in Calls, ApiCall(f) PROVE ReconnectNotStuck'
  BY <1>1, <1>3, ConnectionAssumption DEF ReconnectNotStuck, TypeOK, Fetch, ApiCall,
     Moves, retryVars, socketVars, readVars
<1>4. ASSUME NEW f \in Reads, ReadObservation(f) PROVE ReconnectNotStuck'
  BY <1>1, <1>4, ConnectionAssumption DEF ReconnectNotStuck, TypeOK, Fetch,
     ReadObservation, Moves, retryVars, socketVars, readVars
<1>5. ASSUME NEW f \in Handshakes, Reconnect(f) PROVE ReconnectNotStuck'
  BY <1>1, <1>5, ConnectionAssumption DEF ReconnectNotStuck, TypeOK, Fetch,
     Reconnect, StartHandshake, NewGeneration, Moves, retryVars, socketVars,
     readVars
<1>6. ASSUME NEW f \in Handshakes, NEW u \in Url, SetBaseUrl(u, f)
      PROVE  ReconnectNotStuck'
  BY <1>1, <1>6, ConnectionAssumption DEF ReconnectNotStuck, TypeOK, Fetch,
     SetBaseUrl, CloseWebSocket, StartHandshake, NewGeneration, Moves, retryVars,
     socketVars, readVars
<1>7. ASSUME NEW f \in Handshakes, RetryTimerFires(f) PROVE ReconnectNotStuck'
  BY <1>1, <1>7, ConnectionAssumption DEF ReconnectNotStuck, TypeOK, Fetch,
     RetryTimerFires, StartHandshake, NewGeneration, Moves, retryVars, socketVars,
     readVars
<1>8. ASSUME NEW f \in Fetch, Responds(f) PROVE ReconnectNotStuck'
  BY <1>1, <1>8, ConnectionAssumption DEF ReconnectNotStuck, TypeOK, Fetch,
     Responds, RecordSuccess, Notify, InitWebSocket, Moves, retryVars, socketVars,
     readVars
<1>9. ASSUME NEW f \in Fetch, ErrorStatus(f) PROVE ReconnectNotStuck'
  <2>1. CASE f \in Handshakes
    BY <1>9, <2>1, ConnectionAssumption DEF ErrorStatus, HandshakeFails, ReconnectNotStuck
  <2>2. CASE f \notin Handshakes
    <3>1. UNCHANGED retryVars
      BY <1>9, <2>2 DEF ErrorStatus
    <3>2. \A h \in Handshakes : phase'[h] = phase[h]
      BY <1>1, <1>9, <2>2 DEF ErrorStatus, Moves, TypeOK, Fetch
    <3>3. QED
      BY <1>1, <3>1, <3>2 DEF ReconnectNotStuck, retryVars
  <2>3. QED
    BY <2>1, <2>2
<1>10. ASSUME NEW f \in Fetch, Unauthorized(f) PROVE ReconnectNotStuck'
  <2>1. CASE f \in Handshakes
    BY <1>10, <2>1, ConnectionAssumption DEF Unauthorized, HandshakeFails, ReconnectNotStuck
  <2>2. CASE f \notin Handshakes
    <3>1. UNCHANGED retryVars
      BY <1>10, <2>2 DEF Unauthorized
    <3>2. \A h \in Handshakes : phase'[h] = phase[h]
      BY <1>1, <1>10, <2>2 DEF Unauthorized, Moves, TypeOK, Fetch
    <3>3. QED
      BY <1>1, <3>1, <3>2 DEF ReconnectNotStuck, retryVars
  <2>3. QED
    BY <2>1, <2>2
<1>11. ASSUME NEW f \in Fetch, Fails(f) PROVE ReconnectNotStuck'
  <2>1. CASE f \in Handshakes
    BY <1>11, <2>1, ConnectionAssumption DEF Fails, HandshakeFails, ReconnectNotStuck
  <2>2. CASE f \notin Handshakes
    <3>1. UNCHANGED retryVars
      BY <1>11, <2>2 DEF Fails
    <3>2. \A h \in Handshakes : phase'[h] = phase[h]
      BY <1>1, <1>11, <2>2 DEF Fails, Moves, TypeOK, Fetch
    <3>3. QED
      BY <1>1, <3>1, <3>2 DEF ReconnectNotStuck, retryVars
  <2>3. QED
    BY <2>1, <2>2
<1>12. ASSUME NEW f \in Polls, NEW v \in Verdict, StatusArrives(f, v)
       PROVE  ReconnectNotStuck'
  BY <1>1, <1>12, ConnectionAssumption DEF ReconnectNotStuck, TypeOK, Fetch,
     StatusArrives, CheckVersion, Notify, Moves, retryVars, socketVars, readVars
<1>13. ASSUME NEW f \in Calls, CallReturns(f) PROVE ReconnectNotStuck'
  BY <1>1, <1>13, ConnectionAssumption DEF ReconnectNotStuck, TypeOK, Fetch,
     CallReturns, Moves, retryVars, socketVars, readVars
<1>14. ASSUME NEW f \in Reads, ObservationArrives(f) PROVE ReconnectNotStuck'
  BY <1>1, <1>14, ConnectionAssumption DEF ReconnectNotStuck, TypeOK, Fetch,
     ObservationArrives, Moves, retryVars, socketVars, readVars
<1>15. ASSUME NEW f \in Handshakes, NEW v \in Verdict, HandshakeCompletes(f, v)
       PROVE  ReconnectNotStuck'
  BY <1>1, <1>15, ConnectionAssumption DEF ReconnectNotStuck, TypeOK, Fetch,
     HandshakeCompletes, NewGeneration, Moves, retryVars, socketVars, readVars
<1>16. ASSUME NEW s \in Socket, NEW v \in Verdict, SocketMessage(s, v)
       PROVE  ReconnectNotStuck'
  BY <1>1, <1>16, ConnectionAssumption DEF ReconnectNotStuck, TypeOK, Fetch,
     SocketMessage, CheckVersion, Notify, retryVars, socketVars, readVars
<1>17. ASSUME NEW s \in Socket, SocketCloses(s) PROVE ReconnectNotStuck'
  BY <1>1, <1>17, ConnectionAssumption DEF ReconnectNotStuck, TypeOK, Fetch,
     SocketCloses, Notify, retryVars, socketVars, readVars
<1>18. ASSUME NEW f \in Fetch, ErrorBegins(f) PROVE ReconnectNotStuck'
  BY <1>1, <1>18, ConnectionAssumption DEF ReconnectNotStuck, TypeOK, Fetch,
     ErrorBegins, Moves, retryVars, socketVars, readVars
<1>19. CASE UNCHANGED vars
  BY <1>1, <1>19 DEF ReconnectNotStuck, TypeOK, Fetch, vars
<1>20. QED
  BY <1>1, <1>2, <1>3, <1>4, <1>5, <1>6, <1>7, <1>8, <1>9, <1>10, <1>11, <1>12,
     <1>13, <1>14, <1>15, <1>16, <1>17, <1>18, <1>19 DEF Next, Retry, Answered,
     Trouble, Finishes

\* isReconnecting, which silences the heartbeat, is set only while a handshake or
\* a retry timer is there to clear it.
THEOREM NeverStuck == Spec => []ReconnectNotStuck
<1>1. Init => ReconnectNotStuck
  BY ConnectionAssumption DEF Init, ReconnectNotStuck
<1>2. TypeOK /\ ReconnectNotStuck /\ [Next]_vars => ReconnectNotStuck'
  BY StuckStep
<1>3. QED
  BY <1>1, <1>2, ConnectionTypes, PTL DEF Spec

-----------------------------------------------------------------------------

\* A read of the current observation generation was sent to the current endpoint.
ReadsAreOfThisEndpoint == \A r \in Reads : fresh[r] => asked[r] = url

\* Steps preserve ReadsAreOfThisEndpoint.
LEMMA ReadsStep ==
  ASSUME TypeOK, ReadsAreOfThisEndpoint, [Next]_vars
  PROVE  ReadsAreOfThisEndpoint'
<1>1. TypeOK /\ ReadsAreOfThisEndpoint /\ [Next]_vars
  OBVIOUS
<1>2. ASSUME NEW f \in Polls, Poll(f) PROVE ReadsAreOfThisEndpoint'
  BY <1>1, <1>2, ConnectionAssumption DEF ReadsAreOfThisEndpoint, TypeOK, Fetch,
     Poll, Moves, retryVars, socketVars, readVars
<1>3. ASSUME NEW f \in Calls, ApiCall(f) PROVE ReadsAreOfThisEndpoint'
  BY <1>1, <1>3, ConnectionAssumption DEF ReadsAreOfThisEndpoint, TypeOK, Fetch,
     ApiCall, Moves, retryVars, socketVars, readVars
<1>4. ASSUME NEW f \in Reads, ReadObservation(f) PROVE ReadsAreOfThisEndpoint'
  BY <1>1, <1>4, ConnectionAssumption DEF ReadsAreOfThisEndpoint, TypeOK, Fetch,
     ReadObservation, Moves, retryVars, socketVars, readVars
<1>5. ASSUME NEW f \in Handshakes, Reconnect(f) PROVE ReadsAreOfThisEndpoint'
  BY <1>1, <1>5, ConnectionAssumption DEF ReadsAreOfThisEndpoint, TypeOK, Fetch,
     Reconnect, StartHandshake, NewGeneration, Moves, retryVars, socketVars,
     readVars
<1>6. ASSUME NEW f \in Handshakes, NEW u \in Url, SetBaseUrl(u, f)
      PROVE  ReadsAreOfThisEndpoint'
  BY <1>1, <1>6, ConnectionAssumption DEF ReadsAreOfThisEndpoint, TypeOK, Fetch,
     SetBaseUrl, CloseWebSocket, StartHandshake, NewGeneration, Moves, retryVars,
     socketVars, readVars
<1>7. ASSUME NEW f \in Handshakes, RetryTimerFires(f)
      PROVE  ReadsAreOfThisEndpoint'
  BY <1>1, <1>7, ConnectionAssumption DEF ReadsAreOfThisEndpoint, TypeOK, Fetch,
     RetryTimerFires, StartHandshake, NewGeneration, Moves, retryVars, socketVars,
     readVars
<1>8. ASSUME NEW f \in Fetch, Responds(f) PROVE ReadsAreOfThisEndpoint'
  BY <1>1, <1>8, ConnectionAssumption DEF ReadsAreOfThisEndpoint, TypeOK, Fetch,
     Responds, RecordSuccess, Notify, InitWebSocket, Moves, retryVars, socketVars,
     readVars
<1>9. ASSUME NEW f \in Fetch, ErrorStatus(f) PROVE ReadsAreOfThisEndpoint'
  BY <1>1, <1>9, ConnectionAssumption DEF ReadsAreOfThisEndpoint, TypeOK, Fetch,
     ErrorStatus, HandshakeFails, CountFailures, Drops, CloseWebSocket, Moves,
     retryVars, socketVars, readVars
<1>10. ASSUME NEW f \in Fetch, Unauthorized(f) PROVE ReadsAreOfThisEndpoint'
  BY <1>1, <1>10, ConnectionAssumption DEF ReadsAreOfThisEndpoint, TypeOK, Fetch,
     Unauthorized, HandshakeFails, CountFailures, Drops, CloseWebSocket, Notify,
     Moves, retryVars, socketVars, readVars
<1>11. ASSUME NEW f \in Fetch, Fails(f) PROVE ReadsAreOfThisEndpoint'
  BY <1>1, <1>11, ConnectionAssumption DEF ReadsAreOfThisEndpoint, TypeOK, Fetch,
     Fails, HandshakeFails, RecordFailure, CountFailures, Drops, CloseWebSocket,
     Notify, Moves, retryVars, socketVars, readVars
<1>12. ASSUME NEW f \in Polls, NEW v \in Verdict, StatusArrives(f, v)
       PROVE  ReadsAreOfThisEndpoint'
  BY <1>1, <1>12, ConnectionAssumption DEF ReadsAreOfThisEndpoint, TypeOK, Fetch,
     StatusArrives, CheckVersion, Notify, Moves, retryVars, socketVars, readVars
<1>13. ASSUME NEW f \in Calls, CallReturns(f) PROVE ReadsAreOfThisEndpoint'
  BY <1>1, <1>13, ConnectionAssumption DEF ReadsAreOfThisEndpoint, TypeOK, Fetch,
     CallReturns, Moves, retryVars, socketVars, readVars
<1>14. ASSUME NEW f \in Reads, ObservationArrives(f)
       PROVE  ReadsAreOfThisEndpoint'
  BY <1>1, <1>14, ConnectionAssumption DEF ReadsAreOfThisEndpoint, TypeOK, Fetch,
     ObservationArrives, Moves, retryVars, socketVars, readVars
<1>15. ASSUME NEW f \in Handshakes, NEW v \in Verdict, HandshakeCompletes(f, v)
       PROVE  ReadsAreOfThisEndpoint'
  BY <1>1, <1>15, ConnectionAssumption DEF ReadsAreOfThisEndpoint, TypeOK, Fetch,
     HandshakeCompletes, NewGeneration, Moves, retryVars, socketVars, readVars
<1>16. ASSUME NEW s \in Socket, NEW v \in Verdict, SocketMessage(s, v)
       PROVE  ReadsAreOfThisEndpoint'
  BY <1>1, <1>16, ConnectionAssumption DEF ReadsAreOfThisEndpoint, TypeOK, Fetch,
     SocketMessage, CheckVersion, Notify, retryVars, socketVars, readVars
<1>17. ASSUME NEW s \in Socket, SocketCloses(s) PROVE ReadsAreOfThisEndpoint'
  BY <1>1, <1>17, ConnectionAssumption DEF ReadsAreOfThisEndpoint, TypeOK, Fetch,
     SocketCloses, Notify, retryVars, socketVars, readVars
<1>18. ASSUME NEW f \in Fetch, ErrorBegins(f) PROVE ReadsAreOfThisEndpoint'
  BY <1>1, <1>18, ConnectionAssumption DEF ReadsAreOfThisEndpoint, TypeOK, Fetch,
     ErrorBegins, Moves, retryVars, socketVars, readVars
<1>19. CASE UNCHANGED vars
  BY <1>1, <1>19 DEF ReadsAreOfThisEndpoint, TypeOK, Fetch, vars
<1>20. QED
  BY <1>1, <1>2, <1>3, <1>4, <1>5, <1>6, <1>7, <1>8, <1>9, <1>10, <1>11, <1>12,
     <1>13, <1>14, <1>15, <1>16, <1>17, <1>18, <1>19 DEF Next, Retry, Answered,
     Trouble, Finishes

\* The generation counter tells reads of the old endpoint from those of the new one.
THEOREM ReadsOfThisEndpoint == Spec => []ReadsAreOfThisEndpoint
<1>1. Init => ReadsAreOfThisEndpoint
  BY ConnectionAssumption DEF Init, ReadsAreOfThisEndpoint
<1>2. TypeOK /\ ReadsAreOfThisEndpoint /\ [Next]_vars => ReadsAreOfThisEndpoint'
  BY ReadsStep
<1>3. QED
  BY <1>1, <1>2, ConnectionTypes, PTL DEF Spec

\* get_read_observations never shows what another endpoint answered.
THEOREM ObservationsAreCurrent == Spec => ObservationsOfThisEndpoint
<1>1. ASSUME ReadsAreOfThisEndpoint, [Next]_vars
      PROVE  [shown' \in {shown, NONE, url}]_vars
  <2>1. ReadsAreOfThisEndpoint /\ [Next]_vars
    BY <1>1
  <2>2. ASSUME NEW f \in Polls, Poll(f) PROVE shown' \in {shown, NONE, url}
    BY <2>1, <2>2, ConnectionAssumption DEF ReadsAreOfThisEndpoint, Poll, Moves,
       retryVars, socketVars, readVars
  <2>3. ASSUME NEW f \in Calls, ApiCall(f) PROVE shown' \in {shown, NONE, url}
    BY <2>1, <2>3, ConnectionAssumption DEF ReadsAreOfThisEndpoint, ApiCall, Moves,
       retryVars, socketVars, readVars
  <2>4. ASSUME NEW f \in Reads, ReadObservation(f)
        PROVE  shown' \in {shown, NONE, url}
    BY <2>1, <2>4, ConnectionAssumption DEF ReadsAreOfThisEndpoint, ReadObservation,
       Moves, retryVars, socketVars, readVars
  <2>5. ASSUME NEW f \in Handshakes, Reconnect(f)
        PROVE  shown' \in {shown, NONE, url}
    BY <2>1, <2>5, ConnectionAssumption DEF ReadsAreOfThisEndpoint, Reconnect,
       StartHandshake, NewGeneration, Moves, retryVars, socketVars, readVars
  <2>6. ASSUME NEW f \in Handshakes, NEW u \in Url, SetBaseUrl(u, f)
        PROVE  shown' \in {shown, NONE, url}
    BY <2>1, <2>6, ConnectionAssumption DEF ReadsAreOfThisEndpoint, SetBaseUrl,
       CloseWebSocket, StartHandshake, NewGeneration, Moves, retryVars, socketVars,
       readVars
  <2>7. ASSUME NEW f \in Handshakes, RetryTimerFires(f)
        PROVE  shown' \in {shown, NONE, url}
    BY <2>1, <2>7, ConnectionAssumption DEF ReadsAreOfThisEndpoint, RetryTimerFires,
       StartHandshake, NewGeneration, Moves, retryVars, socketVars, readVars
  <2>8. ASSUME NEW f \in Fetch, Responds(f) PROVE shown' \in {shown, NONE, url}
    BY <2>1, <2>8, ConnectionAssumption DEF ReadsAreOfThisEndpoint, Responds,
       RecordSuccess, Notify, InitWebSocket, Moves, retryVars, socketVars, readVars
  <2>9. ASSUME NEW f \in Fetch, ErrorStatus(f)
        PROVE  shown' \in {shown, NONE, url}
    BY <2>1, <2>9, ConnectionAssumption DEF ReadsAreOfThisEndpoint, ErrorStatus,
       HandshakeFails, CountFailures, Drops, CloseWebSocket, Moves, retryVars,
       socketVars, readVars
  <2>10. ASSUME NEW f \in Fetch, Unauthorized(f)
         PROVE  shown' \in {shown, NONE, url}
    BY <2>1, <2>10, ConnectionAssumption DEF ReadsAreOfThisEndpoint, Unauthorized,
       HandshakeFails, CountFailures, Drops, CloseWebSocket, Notify, Moves, retryVars,
       socketVars, readVars
  <2>11. ASSUME NEW f \in Fetch, Fails(f) PROVE shown' \in {shown, NONE, url}
    BY <2>1, <2>11, ConnectionAssumption DEF ReadsAreOfThisEndpoint, Fails,
       HandshakeFails, RecordFailure, CountFailures, Drops, CloseWebSocket, Notify,
       Moves, retryVars, socketVars, readVars
  <2>12. ASSUME NEW f \in Polls, NEW v \in Verdict, StatusArrives(f, v)
         PROVE  shown' \in {shown, NONE, url}
    BY <2>1, <2>12, ConnectionAssumption DEF ReadsAreOfThisEndpoint, StatusArrives,
       CheckVersion, Notify, Moves, retryVars, socketVars, readVars
  <2>13. ASSUME NEW f \in Calls, CallReturns(f)
         PROVE  shown' \in {shown, NONE, url}
    BY <2>1, <2>13, ConnectionAssumption DEF ReadsAreOfThisEndpoint, CallReturns,
       Moves, retryVars, socketVars, readVars
  <2>14. ASSUME NEW f \in Reads, ObservationArrives(f)
         PROVE  shown' \in {shown, NONE, url}
    BY <2>1, <2>14, ConnectionAssumption DEF ReadsAreOfThisEndpoint,
       ObservationArrives, Moves, retryVars, socketVars, readVars
  <2>15. ASSUME NEW f \in Handshakes, NEW v \in Verdict, HandshakeCompletes(f, v)
         PROVE  shown' \in {shown, NONE, url}
    BY <2>1, <2>15, ConnectionAssumption DEF ReadsAreOfThisEndpoint,
       HandshakeCompletes, NewGeneration, Moves, retryVars, socketVars, readVars
  <2>16. ASSUME NEW s \in Socket, NEW v \in Verdict, SocketMessage(s, v)
         PROVE  shown' \in {shown, NONE, url}
    BY <2>1, <2>16, ConnectionAssumption DEF ReadsAreOfThisEndpoint, SocketMessage,
       CheckVersion, Notify, retryVars, socketVars, readVars
  <2>17. ASSUME NEW s \in Socket, SocketCloses(s)
         PROVE  shown' \in {shown, NONE, url}
    BY <2>1, <2>17, ConnectionAssumption DEF ReadsAreOfThisEndpoint, SocketCloses,
       Notify, retryVars, socketVars, readVars
  <2>18. ASSUME NEW f \in Fetch, ErrorBegins(f) PROVE shown' \in {shown, NONE, url}
    BY <2>1, <2>18, ConnectionAssumption DEF ReadsAreOfThisEndpoint, ErrorBegins, Moves,
       retryVars, socketVars, readVars
  <2>19. CASE UNCHANGED vars
    BY <2>1, <2>19 DEF ReadsAreOfThisEndpoint, vars
  <2>20. QED
    BY <2>1, <2>2, <2>3, <2>4, <2>5, <2>6, <2>7, <2>8, <2>9, <2>10, <2>11, <2>12,
       <2>13, <2>14, <2>15, <2>16, <2>17, <2>18, <2>19 DEF Next, Retry, Answered,
       Trouble, Finishes
<1>2. QED
  BY <1>1, ReadsOfThisEndpoint, PTL DEF Spec, ObservationsOfThisEndpoint

\* CONNECTED says that the link is usable: of a compatible protocol, and not failing.
THEOREM ConnectedIsUsable == Spec => []ConnectedMeansUsable
<1>1. IncompatibleNeverConnected /\ FailingLinkIsDropped => ConnectedMeansUsable
  BY DEF ConnectedMeansUsable
<1>2. QED
  BY <1>1, IncompatibleIsShut, FailingIsDropped, PTL
=============================================================================
