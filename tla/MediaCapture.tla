---------------------------- MODULE MediaCapture ----------------------------
(***************************************************************************)
(* Camera, screen and microphone: the capture controllers that the         *)
(* perception panel makes at every mount, the browser's permission         *)
(* prompts, which are answered at any time or never, and what the panel    *)
(* shows.  A prompt's answer counts only in the generation of its          *)
(* controller that asked; every stop begins a new one.                     *)
(***************************************************************************)
EXTENDS Common, FiniteSets

CONSTANTS
    Prompt,       \* permission prompts, each for one stream
    Kind,         \* "camera", "screen", "microphone"
    Supported,    \* the kinds the browser has an interface for
    MaxMounts,    \* bound: times the panel is mounted
    MaxUses       \* bound: generation in which the user still starts, stops or hides

ASSUME CaptureAssumption ==
    /\ None \notin Prompt
    /\ "camera" \in Kind
    /\ MaxMounts \in Nat

VARIABLES
    prompts,       \* each prompt and the stream it may become
    controllers,   \* the controllers made so far
    panel          \* the panel and its page

captureVars == <<prompts, controllers, panel>>

Controller == 1 .. MaxMounts

Unasked == [at |-> "free", by |-> None, generation |-> None]

CaptureInit ==
    /\ prompts = [p \in Prompt |-> Unasked]
    /\ controllers = [c \in Controller |-> [disposed |-> FALSE, generation |-> 0, stream |-> None]]
    /\ panel = [mounts |-> 0, mounted |-> FALSE, hidden |-> FALSE, state |-> "idle", kind |-> "camera",
                frame |-> FALSE]

Current == panel.mounts

-----------------------------------------------------------------------------
(* The controller. *)

\* The tracks of the stream a controller holds are stopped.
Silenced(c) == [p \in Prompt |-> IF p = controllers[c].stream THEN [prompts[p] EXCEPT !.at = "stopped"]
                                 ELSE prompts[p]]

Released(c) == [controllers[c] EXCEPT !.generation = @ + 1, !.stream = None]

\* changed(): the panel's state, and away with the preview unless capture is active.
Shows(state) == [panel EXCEPT !.state = state, !.frame = @ /\ state = "active"]

StopController(c) ==
    /\ prompts' = Silenced(c)
    /\ controllers' = [controllers EXCEPT ![c] = Released(c)]

\* Whether an answer still belongs to what the controller is doing.
Awaited(p) ==
    LET c == controllers[prompts[p].by]
    IN  ~c.disposed /\ c.generation = prompts[p].generation

-----------------------------------------------------------------------------
(* The panel. *)

Mount ==
    /\ ~panel.mounted
    /\ panel.mounts < MaxMounts
    /\ panel' = [panel EXCEPT !.mounts = @ + 1, !.mounted = TRUE, !.state = "idle", !.kind = "camera",
                              !.frame = FALSE]
    /\ UNCHANGED <<prompts, controllers>>

\* Leaving disposes of the controller, which then reports nothing any more.
Unmount ==
    /\ panel.mounted
    /\ prompts' = Silenced(Current)
    /\ controllers' = [controllers EXCEPT ![Current] = [Released(Current) EXCEPT !.disposed = TRUE]]
    /\ panel' = [panel EXCEPT !.mounted = FALSE]

\* Bound: the generation grows with every use.
Usable == panel.mounted => controllers[Current].generation < MaxUses

\* start() first stops what runs; the buttons are disabled while a prompt is open.
Start(p, kind) ==
    /\ panel.mounted /\ ~panel.hidden /\ panel.state # "requesting" /\ Usable
    /\ prompts[p].at = "free"
    /\ controllers' = [controllers EXCEPT ![Current] = Released(Current)]
    /\ IF kind \in Supported
       THEN /\ prompts' = [Silenced(Current) EXCEPT
                              ![p] = [at |-> "asked", by |-> Current,
                                      generation |-> Released(Current).generation]]
            /\ panel' = [Shows("requesting") EXCEPT !.kind = kind]
       ELSE /\ prompts' = Silenced(Current)
            /\ panel' = [Shows("unsupported") EXCEPT !.kind = kind]

\* A stream nobody waits for any more is stopped as soon as it is there.
Granted(p) ==
    /\ prompts[p].at = "asked"
    /\ IF Awaited(p)
       THEN /\ prompts' = [prompts EXCEPT ![p].at = "live"]
            /\ controllers' = [controllers EXCEPT ![prompts[p].by].stream = p]
            /\ panel' = Shows("active")
       ELSE prompts' = [prompts EXCEPT ![p].at = "stopped"] /\ UNCHANGED <<controllers, panel>>

\* Mutant: a refusal is shown whatever it was asked for.
DeniedLate(p) ==
    /\ prompts[p].at = "asked"
    /\ prompts' = [prompts EXCEPT ![p].at = "stopped"]
    /\ panel' = Shows("denied")
    /\ UNCHANGED controllers

Denied(p) ==
    /\ prompts[p].at = "asked"
    /\ prompts' = [prompts EXCEPT ![p].at = "stopped"]
    /\ panel' = IF Awaited(p) THEN Shows("denied") ELSE panel
    /\ UNCHANGED controllers

\* The browser or the device ends a track; its stream's controller stops if it still holds it.
TrackEnds(p) ==
    /\ prompts[p].at = "live"
    /\ LET c == prompts[p].by
       IN  IF controllers[c].stream = p THEN StopController(c) /\ panel' = Shows("idle")
           ELSE prompts' = [prompts EXCEPT ![p].at = "stopped"] /\ UNCHANGED <<controllers, panel>>

Stop ==
    /\ panel.mounted /\ Usable
    /\ StopController(Current)
    /\ panel' = Shows("idle")

\* The visibility listener stops the capture of a hidden page.
Hide ==
    /\ ~panel.hidden /\ Usable
    /\ IF panel.mounted THEN StopController(Current) /\ panel' = [Shows("idle") EXCEPT !.hidden = TRUE]
       ELSE panel' = [panel EXCEPT !.hidden = TRUE] /\ UNCHANGED <<prompts, controllers>>

Reveal ==
    /\ panel.hidden
    /\ panel' = [panel EXCEPT !.hidden = FALSE]
    /\ UNCHANGED <<prompts, controllers>>

\* A preview needs a picture; one that is too large or not there yet is not kept.
Snapshot ==
    /\ panel.mounted /\ ~panel.hidden
    /\ panel.state = "active" /\ panel.kind # "microphone"
    /\ panel' = [panel EXCEPT !.frame = TRUE]
    /\ UNCHANGED <<prompts, controllers>>

CaptureNext ==
    \/ Mount \/ Unmount \/ Stop \/ Hide \/ Reveal \/ Snapshot
    \/ \E p \in Prompt :
          \/ \E kind \in Kind : Start(p, kind)
          \/ Granted(p)
          \/ Denied(p)
          \/ TrackEnds(p)

CaptureSpec == CaptureInit /\ [][CaptureNext]_captureVars

-----------------------------------------------------------------------------
(* Properties. *)

CaptureTypeOK ==
    /\ prompts \in [Prompt -> [at : {"free", "asked", "live", "stopped"},
                               by : Controller \cup {None}, generation : Nat \cup {None}]]
    /\ controllers \in [Controller -> [disposed : BOOLEAN, generation : Nat,
                                       stream : Prompt \cup {None}]]
    /\ panel \in [mounts : 0 .. MaxMounts, mounted : BOOLEAN, hidden : BOOLEAN, frame : BOOLEAN,
                  kind : Kind, state : {"idle", "requesting", "active", "denied", "unsupported"}]

\* No track runs that the panel cannot stop: whatever runs is the stream of the mounted panel's
\* controller on a visible page, however late the prompts of earlier starts are answered.
NoStrayTrack ==
    \A p \in Prompt :
       prompts[p].at = "live" => panel.mounted /\ ~panel.hidden /\ controllers[Current].stream = p

\* What the mounted panel shows is so: active exactly while a stream runs, requesting only while a
\* prompt that will be listened to is open, a preview only of an active camera or screen.
PanelTruthful ==
    panel.mounted =>
       /\ panel.state = "active" <=> \E p \in Prompt : prompts[p].at = "live"
       /\ panel.state = "requesting" => \E p \in Prompt : prompts[p].at = "asked" /\ Awaited(p)
       /\ panel.frame => panel.state = "active" /\ panel.kind # "microphone"

\* The three together: the owner sees and can stop all that is captured.
CaptureUnderControl == CaptureTypeOK /\ NoStrayTrack /\ PanelTruthful
=============================================================================
