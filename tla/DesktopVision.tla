---------------------------- MODULE DesktopVision ----------------------------
(***************************************************************************)
(* The desktop vision engine: the captured frame with the opportunities    *)
(* read off it, the emergency stop, the elevation of privileges with its   *)
(* expiry, and the log of control actions.                                 *)
(***************************************************************************)
EXTENDS Common, Sequences

CONSTANTS
    Window,       \* windows on the screen; those of TerminalWindow show a terminal
    TerminalWindow,
    Duration,     \* durations an elevation is asked for
    MaxClock,     \* bound: the clock
    MaxLog        \* bound: logged control actions

ASSUME VisionAssumption == Duration \subseteq Nat /\ MaxClock \in Nat

VARIABLES
    clock,           \* Date.now()
    opportunities,   \* what the last frame suggests
    stopped,         \* emergencyStopActive
    expires,         \* the moment the elevation expires; None without one
    log,             \* the control actions and what became of them
    stops            \* the emergency stops so far and the stops before the elevation, for the property

visionVars == <<clock, opportunities, stopped, expires, log, stops>>

VisionInit ==
    /\ clock = 0
    /\ opportunities = {}
    /\ stopped = FALSE
    /\ expires = None
    /\ log = <<>>
    /\ stops = [all |-> 0, before |-> 0]

Suggested(windows, invoice) ==
    {<<"process.execute", w>> : w \in windows \cap TerminalWindow}
       \cup (IF invoice THEN {<<"wf_invoice_cleanup", None>>} ELSE {})

\* Every frame replaces the opportunities of the one before.
CaptureFrame(windows, invoice) ==
    /\ opportunities' = Suggested(windows, invoice)
    /\ UNCHANGED <<clock, stopped, expires, log, stops>>

\* Mutant: the emergency stop leaves the elevation standing.
StoppedExpiry == expires

Dropped == None

TriggerEmergencyStop ==
    /\ stops.all < MaxLog
    /\ stopped' = TRUE
    /\ expires' = Dropped
    /\ stops' = [stops EXCEPT !.all = @ + 1]
    /\ UNCHANGED <<clock, opportunities, log>>

ResetEmergencyStop ==
    /\ stopped' = FALSE
    /\ UNCHANGED <<clock, opportunities, expires, log, stops>>

ElevatePrivileges(duration) ==
    /\ ~stopped
    /\ expires' = clock + duration
    /\ stops' = [stops EXCEPT !.before = stops.all]
    /\ UNCHANGED <<clock, opportunities, stopped, log>>

DropPrivileges ==
    /\ expires' = None
    /\ UNCHANGED <<clock, opportunities, stopped, log, stops>>

\* getPrivilegeState drops an elevation that is over: it holds through its last millisecond.
Expired == expires # None /\ clock > expires

Elevation == IF Expired THEN None ELSE expires

Logged(root, status) == Append(log, [root |-> root, status |-> status])

ExecuteControlAction(root) ==
    /\ Len(log) < MaxLog
    /\ \/ /\ stopped
          /\ log' = Logged(root, "BLOCKED_EMERGENCY_STOP")
          /\ UNCHANGED expires
       \/ /\ ~stopped /\ root
          /\ expires' = Elevation
          /\ log' = IF Elevation = None THEN log ELSE Logged(root, "EXECUTED")
       \/ /\ ~stopped /\ ~root
          /\ log' = Logged(root, "EXECUTED")
          /\ UNCHANGED expires
    /\ UNCHANGED <<clock, opportunities, stopped, stops>>

ClockTicks ==
    /\ clock < MaxClock
    /\ clock' = clock + 1
    /\ UNCHANGED <<opportunities, stopped, expires, log, stops>>

VisionNext ==
    \/ \E windows \in SUBSET Window, invoice \in BOOLEAN : CaptureFrame(windows, invoice)
    \/ TriggerEmergencyStop
    \/ ResetEmergencyStop
    \/ \E duration \in Duration : ElevatePrivileges(duration)
    \/ DropPrivileges
    \/ \E root \in BOOLEAN : ExecuteControlAction(root)
    \/ ClockTicks

VisionSpec == VisionInit /\ [][VisionNext]_visionVars

-----------------------------------------------------------------------------
(* Properties. *)

VisionTypeOK ==
    /\ clock \in 0 .. MaxClock /\ stopped \in BOOLEAN
    /\ opportunities \subseteq ({"process.execute", "wf_invoice_cleanup"} \X (Window \cup {None}))
    /\ expires \in Nat \cup {None}
    /\ log \in Seq([root : BOOLEAN, status : {"EXECUTED", "BLOCKED_EMERGENCY_STOP"}])
    /\ stops \in [all : Nat, before : Nat]

\* A root action is executed only under an elevation that was asked for after the last emergency
\* stop and has not run out: neither a stop nor its reset leaves an old elevation usable.
RootNeedsFreshElevation ==
    /\ []VisionTypeOK
    /\ [][\A i \in DOMAIN log' \ DOMAIN log :
             log'[i].root /\ log'[i].status = "EXECUTED" =>
                ~stopped /\ expires # None /\ clock <= expires /\ stops.before = stops.all]_visionVars
=============================================================================
