--------------------------- MODULE KingdomConnection ---------------------------
(***************************************************************************)
(* The connection state machine of KingdomAdapter                          *)
(* (src/api/kingdomAdapter.ts): heartbeat polls, the reconnect             *)
(* handshake with its retry timer, every other API call, the WebSocket and *)
(* the read-only observations, all of them asynchronous and all of them    *)
(* writing the same fields.  A fetch is cut at its two awaits: the         *)
(* response headers, for ten seconds at most, and the body, of an answer   *)
(* or of an error, which nothing bounds.  DISCOVERING, NEGOTIATING and     *)
(* VALIDATING are entered and left within one turn and so are not seen;    *)
(* DEGRADED cannot be reached, because discoveredCapabilities never holds  *)
(* a FALSE and a foreign protocol was turned away before.                  *)
(***************************************************************************)
EXTENDS Integers

CONSTANTS
  Url, ReadProxy,                 \* endpoints; those served by Centipede's read proxy
  Polls, Handshakes, Calls, Reads,   \* fetches that may be under way, by caller
  Socket,                         \* WebSocket objects (a bound)
  MaxConsecutiveFailures,         \* maxConsecutiveFailures
  MaxOrphans,                     \* bound on retry timers nobody refers to
  NONE

ASSUME ConnectionAssumption ==
  /\ MaxConsecutiveFailures \in Nat \ {0}
  /\ MaxOrphans \in Nat
  /\ NONE \notin Socket \cup Url
  /\ ReadProxy \subseteq Url
  /\ Handshakes \cap (Polls \cup Calls \cup Reads) = {}
  /\ Reads \cap (Polls \cup Calls) = {}
  /\ Polls \cap Calls = {}

VARIABLES
  url,            \* baseUrl
  state,          \* connectionState
  failures,       \* consecutiveFailures, not told apart above the maximum
  reconnecting,   \* isReconnecting
  compat,         \* compatibilityInfo.status
  heartbeat,      \* the heartbeat interval is set
  timer,          \* reconnectTimer refers to a timer that has not fired
  orphans,        \* timers that have not fired and that nothing refers to
  phase,          \* where each fetch is
  fresh,          \* observationGeneration is still the one each read started in
  asked,          \* history: the endpoint each read was sent to
  shown,          \* endpoint of the last observation, NONE for an unavailable one
  ws, sockets     \* the field ws, and what each WebSocket object is doing

vars == <<url, state, failures, reconnecting, compat, heartbeat, timer, orphans,
          phase, fresh, asked, shown, ws, sockets>>
retryVars == <<reconnecting, timer, orphans>>
socketVars == <<ws, sockets>>
readVars == <<asked, shown>>

Fetch == Polls \cup Handshakes \cup Calls \cup Reads
ConnectionState == {"DISCONNECTED", "AUTHENTICATING", "CONNECTED", "INCOMPATIBLE",
                    "AUTHENTICATION_FAILED", "RECONNECTING"}
Verdict == {"UNKNOWN", "COMPATIBLE", "INCOMPATIBLE_PROTOCOL"}

\* Not under way; waiting for the headers; reading the body of an answer or an error.
Phase == {"free", "sent", "body", "error"}

-----------------------------------------------------------------------------

\* notifyConnection: every change of state starts a new observation generation.
Notify(s) ==
  /\ state' = s
  /\ fresh' = [r \in Reads |-> fresh[r] /\ s = state]

NewGeneration == fresh' = [r \in Reads |-> FALSE]

\* initWebSocket: nothing to do behind the proxy or with a socket open; the
\* constructor may also be missing or throw.
InitWebSocket ==
  \/ UNCHANGED socketVars
  \/ /\ url \notin ReadProxy
     /\ ws \in Socket => sockets[ws] # "open"
     /\ \E s \in Socket : /\ sockets[s] = "closed"
                          /\ ws' = s
                          /\ sockets' = [sockets EXCEPT ![s] = "open"]

CloseWebSocket ==
  /\ ws' = NONE
  /\ sockets' = [s \in Socket |-> IF s = ws THEN "closing" ELSE sockets[s]]

\* Mutant: the incompatible verdict is not looked at.
RecordSuccessAlways ==
  /\ failures' = 0
  /\ reconnecting' = FALSE
  /\ \/ state = "CONNECTED" /\ UNCHANGED <<state, fresh, socketVars>>
     \/ state # "CONNECTED" /\ Notify("CONNECTED") /\ InitWebSocket

\* recordSuccess: any answered call makes the adapter CONNECTED, also one that was
\* sent before a disconnect, to another endpoint or during a handshake.
RecordSuccess ==
  LET silent == state = "CONNECTED" \/ compat = "INCOMPATIBLE_PROTOCOL"
  IN /\ failures' = 0
     /\ reconnecting' = FALSE
     /\ \/ silent /\ UNCHANGED <<state, fresh, socketVars>>
        \/ ~silent /\ Notify("CONNECTED") /\ InitWebSocket

\* n calls of recordFailure that find the adapter in state s drop the link.
Drops(n, s) == failures + n >= MaxConsecutiveFailures /\ s # "DISCONNECTED"

CountFailures(n) ==
  failures' = IF failures + n >= MaxConsecutiveFailures
                THEN MaxConsecutiveFailures ELSE failures + n

RecordFailure ==
  /\ CountFailures(1)
  /\ \/ Drops(1, state) /\ Notify("DISCONNECTED") /\ CloseWebSocket
     \/ ~Drops(1, state) /\ UNCHANGED <<state, fresh, socketVars>>

\* checkVersionCompatibility
CheckVersion(v) ==
  /\ compat' = v
  /\ \/ v = "INCOMPATIBLE_PROTOCOL" /\ Notify("INCOMPATIBLE")
     \/ v # "INCOMPATIBLE_PROTOCOL" /\ UNCHANGED <<state, fresh>>

-----------------------------------------------------------------------------

\* Fetches begin.

Moves(f, from, to) ==
  /\ phase[f] = from
  /\ phase' = [phase EXCEPT ![f] = to]

\* The heartbeat polls unless isReconnecting is set.
Poll(f) ==
  /\ heartbeat
  /\ ~reconnecting
  /\ Moves(f, "free", "sent")
  /\ UNCHANGED <<url, state, failures, compat, heartbeat, retryVars, fresh, readVars,
                 socketVars>>

ApiCall(f) ==
  /\ Moves(f, "free", "sent")
  /\ UNCHANGED <<url, state, failures, compat, heartbeat, retryVars, fresh, readVars,
                 socketVars>>

\* get_read_observations notes the generation it starts in.
ReadObservation(f) ==
  /\ url \in ReadProxy
  /\ Moves(f, "free", "sent")
  /\ fresh' = [fresh EXCEPT ![f] = TRUE]
  /\ asked' = [asked EXCEPT ![f] = url]
  /\ UNCHANGED <<url, state, failures, compat, heartbeat, retryVars, shown, socketVars>>

\* reconnect() past its guard, up to its await of get_status.
StartHandshake(f) ==
  /\ Moves(f, "free", "sent")
  /\ reconnecting' = TRUE
  /\ timer' = FALSE
  /\ state' = "AUTHENTICATING"
  /\ NewGeneration
  /\ UNCHANGED <<failures, compat, readVars>>

Reconnect(f) ==
  /\ ~reconnecting
  /\ StartHandshake(f)
  /\ UNCHANGED <<url, heartbeat, orphans, socketVars>>

\* A retry timer clears isReconnecting and reconnects, whatever happened meanwhile.
RetryTimerFires(f) ==
  /\ \/ timer /\ UNCHANGED orphans
     \/ orphans > 0 /\ orphans' = orphans - 1
  /\ StartHandshake(f)
  /\ UNCHANGED <<url, heartbeat, socketVars>>

\* Mutant: disconnect() leaves isReconnecting set, and reconnect() turns back.
SetBaseUrlKeepsFlag(u, f) ==
  /\ url' = u
  /\ heartbeat' = FALSE
  /\ CloseWebSocket
  /\ UNCHANGED orphans
  /\ \/ ~reconnecting /\ StartHandshake(f)
     \/ /\ reconnecting
        /\ timer' = FALSE
        /\ state' = "DISCONNECTED"
        /\ NewGeneration
        /\ UNCHANGED <<failures, reconnecting, compat, phase, readVars>>

\* setBaseUrl, then reconnect(): its callers do both in one turn.  disconnect()
\* stops the heartbeat for good, clears the timer it knows and aborts no fetch.
SetBaseUrl(u, f) ==
  /\ url' = u
  /\ heartbeat' = FALSE
  /\ CloseWebSocket
  /\ StartHandshake(f)
  /\ UNCHANGED orphans

-----------------------------------------------------------------------------

\* Fetches end.

\* Response headers with a 2xx status.
Responds(f) ==
  /\ Moves(f, "sent", "body")
  /\ \/ f \in Reads /\ UNCHANGED <<state, failures, reconnecting, fresh, socketVars>>
     \/ f \notin Reads /\ RecordSuccess
  /\ UNCHANGED <<url, compat, heartbeat, timer, orphans, readVars>>

\* The body of a heartbeat's answer.
StatusArrives(f, v) ==
  /\ Moves(f, "body", "free")
  /\ CheckVersion(v)
  /\ UNCHANGED <<url, failures, heartbeat, retryVars, readVars, socketVars>>

CallReturns(f) ==
  /\ Moves(f, "body", "free")
  /\ UNCHANGED <<url, state, failures, compat, heartbeat, retryVars, fresh, readVars,
                 socketVars>>

\* Mutant: an observation is accepted whatever happened since it was asked for.
ObservationAccepted(f) ==
  /\ Moves(f, "body", "free")
  /\ shown' = asked[f]
  /\ UNCHANGED <<url, state, failures, compat, heartbeat, retryVars, fresh, asked,
                 socketVars>>

\* An observation counts only in the generation it was asked in.
ObservationArrives(f) ==
  /\ Moves(f, "body", "free")
  /\ shown' = IF fresh[f] THEN asked[f] ELSE NONE
  /\ UNCHANGED <<url, state, failures, compat, heartbeat, retryVars, fresh, asked,
                 socketVars>>

\* reconnect() after get_status: NEGOTIATING, VALIDATING and the outcome.
HandshakeCompletes(f, v) ==
  /\ Moves(f, "body", "free")
  /\ compat' = v
  /\ reconnecting' = FALSE
  /\ NewGeneration
  /\ \/ v = "INCOMPATIBLE_PROTOCOL" /\ state' = "INCOMPATIBLE" /\ UNCHANGED failures
     \/ v # "INCOMPATIBLE_PROTOCOL" /\ state' = "CONNECTED" /\ failures' = 0
  /\ UNCHANGED <<url, heartbeat, timer, orphans, readVars, socketVars>>

\* Mutant: no retry is armed.
HandshakeGivesUp(n, s) ==
  /\ CountFailures(n)
  /\ state' = "RECONNECTING"
  /\ fresh' = [r \in Reads |-> fresh[r] /\ ~Drops(n, s) /\ s = state /\ s = "RECONNECTING"]
  /\ \/ Drops(n, s) /\ CloseWebSocket
     \/ ~Drops(n, s) /\ UNCHANGED socketVars
  /\ UNCHANGED retryVars

\* The catch block of reconnect(), after n failures counted in state s.  A timer
\* armed by another handshake is overwritten and can no longer be cleared.
HandshakeFails(n, s) ==
  /\ CountFailures(n)
  /\ state' = "RECONNECTING"
  /\ fresh' = [r \in Reads |-> fresh[r] /\ ~Drops(n, s) /\ s = state /\ s = "RECONNECTING"]
  /\ \/ Drops(n, s) /\ CloseWebSocket
     \/ ~Drops(n, s) /\ UNCHANGED socketVars
  /\ timer' = TRUE
  /\ orphans' = orphans + (IF timer THEN 1 ELSE 0)
  /\ orphans' <= MaxOrphans
  /\ UNCHANGED reconnecting

\* The headers of an error with a text: 400, 422 or any status not named below.
ErrorBegins(f) ==
  /\ Moves(f, "sent", "error")
  /\ UNCHANGED <<url, state, failures, compat, heartbeat, retryVars, fresh, readVars,
                 socketVars>>

\* That text is read, or the status was 403, 404 or 503, which end at once.  None of
\* them is a connection failure, but reconnect() counts it as one.
ErrorStatus(f) ==
  /\ Moves(f, "sent", "free") \/ Moves(f, "error", "free")
  /\ \/ f \in Handshakes /\ HandshakeFails(1, state)
     \/ f \notin Handshakes /\ UNCHANGED <<state, failures, retryVars, fresh, socketVars>>
  /\ UNCHANGED <<url, compat, heartbeat, readVars>>

\* 401
Unauthorized(f) ==
  /\ Moves(f, "sent", "free")
  /\ \/ f \in Handshakes /\ HandshakeFails(1, "AUTHENTICATION_FAILED")
     \/ /\ f \in Polls \cup Calls
        /\ Notify("AUTHENTICATION_FAILED")
        /\ UNCHANGED <<failures, retryVars, socketVars>>
     \/ f \in Reads /\ UNCHANGED <<state, failures, retryVars, fresh, socketVars>>
  /\ UNCHANGED <<url, compat, heartbeat, readVars>>

\* No connection, the ten-second abort, or a body that cannot be read.  A handshake
\* counts the failure once in fetchJson and once in reconnect().
Fails(f) ==
  /\ \E from \in {"sent", "body", "error"} : Moves(f, from, "free")
  /\ \/ f \in Handshakes /\ HandshakeFails(2, state)
     \/ f \in Polls \cup Calls /\ RecordFailure /\ UNCHANGED retryVars
     \/ f \in Reads /\ UNCHANGED <<state, failures, retryVars, fresh, socketVars>>
  /\ UNCHANGED <<url, compat, heartbeat, readVars>>

-----------------------------------------------------------------------------

\* The WebSocket.

\* runtime.snapshot and heartbeat frames carry the version.
SocketMessage(s, v) ==
  /\ sockets[s] = "open"
  /\ CheckVersion(v)
  /\ UNCHANGED <<url, failures, heartbeat, retryVars, phase, readVars, socketVars>>

\* onclose clears the field ws even if a newer socket is there by now.
SocketCloses(s) ==
  /\ sockets[s] # "closed"
  /\ sockets' = [sockets EXCEPT ![s] = "closed"]
  /\ ws' = NONE
  /\ \/ state = "CONNECTED" /\ Notify("DISCONNECTED")
     \/ state # "CONNECTED" /\ UNCHANGED <<state, fresh>>
  /\ UNCHANGED <<url, failures, compat, heartbeat, retryVars, phase, readVars>>

-----------------------------------------------------------------------------

\* The desktop shell has started the heartbeat.
Init ==
  /\ url \in Url
  /\ state = "DISCONNECTED"
  /\ failures = 0
  /\ reconnecting = FALSE
  /\ compat = "UNKNOWN"
  /\ heartbeat = TRUE
  /\ timer = FALSE
  /\ orphans = 0
  /\ phase = [f \in Fetch |-> "free"]
  /\ fresh = [r \in Reads |-> FALSE]
  /\ asked = [r \in Reads |-> NONE]
  /\ shown = NONE
  /\ ws = NONE
  /\ sockets = [s \in Socket |-> "closed"]
 
\* A request that is not answered as it should be.
Trouble(f) == ErrorBegins(f) \/ ErrorStatus(f) \/ Unauthorized(f) \/ Fails(f)

Answered(f) == Responds(f) \/ Trouble(f)

Finishes(f) ==
  \/ f \in Polls /\ \E v \in Verdict : StatusArrives(f, v)
  \/ f \in Calls /\ CallReturns(f)
  \/ f \in Reads /\ ObservationArrives(f)
  \/ f \in Handshakes /\ \E v \in Verdict : HandshakeCompletes(f, v)

Retry == \E f \in Handshakes : RetryTimerFires(f)

Next ==
  \/ \E f \in Polls : Poll(f)
  \/ \E f \in Calls : ApiCall(f)
  \/ \E f \in Reads : ReadObservation(f)
  \/ \E f \in Handshakes : Reconnect(f) \/ \E u \in Url : SetBaseUrl(u, f)
  \/ Retry
  \/ \E f \in Fetch : Answered(f) \/ Finishes(f)
  \/ \E s \in Socket : SocketCloses(s) \/ \E v \in Verdict : SocketMessage(s, v)

Spec == Init /\ [][Next]_vars

\* The interval and the retry timers fire, and a request without headers is aborted
\* after ten seconds.  That a body ends, of an answer or of an error, is nobody's
\* promise: the abort timer is cleared with the headers.
Fairness ==
  /\ \A f \in Polls : WF_vars(Poll(f))
  /\ WF_vars(Retry)
  /\ \A f \in Fetch : WF_vars(phase[f] = "sent" /\ Answered(f))

FairSpec == Spec /\ Fairness

-----------------------------------------------------------------------------

TypeOK ==
  /\ url \in Url
  /\ state \in ConnectionState
  /\ failures \in 0..MaxConsecutiveFailures
  /\ reconnecting \in BOOLEAN
  /\ compat \in Verdict
  /\ heartbeat \in BOOLEAN
  /\ timer \in BOOLEAN
  /\ orphans \in Nat
  /\ phase \in [Fetch -> Phase]
  /\ fresh \in [Reads -> BOOLEAN]
  /\ asked \in [Reads -> Url \cup {NONE}]
  /\ shown \in Url \cup {NONE}
  /\ ws \in Socket \cup {NONE}
  /\ sockets \in [Socket -> {"closed", "open", "closing"}]
 
\* A Kingdom last seen with a foreign protocol is never CONNECTED: no late success,
\* retry or socket frame opens the executor's gate to it.
IncompatibleNeverConnected == compat = "INCOMPATIBLE_PROTOCOL" => state # "CONNECTED"

\* A link that has failed maxConsecutiveFailures times in a row is not CONNECTED.
FailingLinkIsDropped == state = "CONNECTED" => failures < MaxConsecutiveFailures

\* CONNECTED says that the link is usable: of a compatible protocol, and not failing.
ConnectedMeansUsable == IncompatibleNeverConnected /\ FailingLinkIsDropped

\* isReconnecting silences the heartbeat, so it may be set only while a handshake
\* is under way or a retry is due.
ReconnectNotStuck ==
  reconnecting => timer \/ orphans > 0 \/ \E f \in Handshakes : phase[f] # "free"

\* An observation is shown only while the adapter still points at the endpoint it
\* was read from.
ObservationsOfThisEndpoint == [][shown' \in {shown, NONE, url}]_vars

Settled == state \in {"CONNECTED", "INCOMPATIBLE"}

\* Kingdom is back: from some time on requests, late ones too, are answered as they
\* should be, and no body of a handshake is left open for good (nor of a poll: the
\* code would start another, of which the model has a bounded number).
KingdomIsBack ==
  /\ <>[][~\E f \in Fetch : Trouble(f)]_vars
  /\ \A f \in Polls \cup Handshakes : []<>(phase[f] \notin {"body", "error"})

\* An adapter whose heartbeat keeps running and whose Kingdom is back finds it again.
\* Both premises are needed: changing the endpoint stops the heartbeat for good, and a
\* handshake whose error body never ends leaves isReconnecting set, with no timer to
\* clear it, and so silences the heartbeat.
RecoversWithHeartbeat == <>[]heartbeat /\ KingdomIsBack => []<>Settled

=============================================================================
