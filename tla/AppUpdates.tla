------------------------------ MODULE AppUpdates ------------------------------
(***************************************************************************)
(* Updates of the browser app: the page asks its server for the version it *)
(* serves, offers what is newer, and reloads itself at once for a patch of *)
(* its own release line.  Checks of the interval, of the focus and of the  *)
(* user's reloads overlap and are answered in any order; a reload may      *)
(* bring the old page again, from a cache.  What was attempted is kept in  *)
(* the session's storage, which outlives the page.                         *)
(***************************************************************************)
EXTENDS Common

CONSTANTS
    AppVersion,   \* versions, in their order
    Line,         \* the release line of a version: its major and minor number
    Request,      \* requests of the health endpoint that are under way at once
    MaxReleases,  \* bound: changes of the served version
    MaxLoads      \* bound: loads of the page

ASSUME VersionsAssumption == AppVersion \subseteq Nat /\ None \notin AppVersion

VARIABLES
    server,    \* the version that is served, and how often it has changed
    page,      \* the page that is loaded
    requests,  \* the requests under way
    attempts,  \* the versions whose reload sessionStorage remembers
    futile     \* history: versions that were reloaded for and did not arrive

updatesVars == <<server, page, requests, attempts, futile>>

Free == [at |-> "free", apply |-> FALSE, user |-> FALSE, offer |-> None, answer |-> None]

Loaded(version, loads) ==
    [version |-> version, loads |-> loads, offer |-> None, state |-> "idle", dismissed |-> None,
     target |-> None]

\* With storage or without, which the browser may refuse.
UpdatesInit ==
    /\ \E v \in AppVersion :
          /\ server = [version |-> v, releases |-> 0]
          /\ page = Loaded(v, 0)
    /\ requests = [r \in Request |-> Free]
    /\ attempts \in [stored : {{}}, works : BOOLEAN]
    /\ futile = {}

-----------------------------------------------------------------------------
(* The policy. *)

\* classifyAppUpdate: only a later version is an update, and small is one of the same line.
Classify(installed, available) ==
    IF available <= installed THEN None
    ELSE IF Line[available] = Line[installed] THEN "small" ELSE "large"

Offered == page.offer # None /\ page.offer # page.dismissed /\ page.state # "idle"

\* recordAttempt; storage that is refused remembers nothing.
Recorded(v) == IF attempts.works THEN attempts.stored \cup {v} ELSE attempts.stored

\* Mutant: every reload counts as a success.
ClearedAlways(version) == attempts.stored \ {page.target}

\* The new page forgets the attempt of the reload that brought it only when it is what was wanted.
Cleared(version) ==
    IF page.target # None /\ version >= page.target THEN attempts.stored \ {page.target}
    ELSE attempts.stored

-----------------------------------------------------------------------------
(* Checks and reloads. *)

\* At the load, at every interval and at every focus.
CheckForUpdate(r) ==
    /\ requests[r].at = "free"
    /\ requests' = [requests EXCEPT ![r] = [Free EXCEPT !.at = "sent"]]
    /\ UNCHANGED <<server, page, attempts, futile>>

\* The server answers with the version of that moment, or fails; the answer travels on its own.
ServerAnswers(r) ==
    /\ requests[r].at = "sent"
    /\ \E answer \in {server.version, None} :
          requests' = [requests EXCEPT ![r].at = "answered", ![r].answer = answer]
    /\ UNCHANGED <<server, page, attempts, futile>>

\* Whether the answered version is reloaded for without asking.
Automatic(v) == Classify(page.version, v) = "small" /\ v \notin attempts.stored

CheckAnswered(r) ==
    /\ requests[r].at = "answered" /\ ~requests[r].apply
    /\ LET v == requests[r].answer
           kind == IF v = None THEN None ELSE Classify(page.version, v)
           reload == kind # None /\ Automatic(v)
       IN  /\ page' =
                IF v = None THEN page
                ELSE IF kind = None THEN [page EXCEPT !.offer = None, !.state = "idle"]
                ELSE [page EXCEPT !.offer = v, !.state = IF reload THEN "refreshing" ELSE "offered"]
           /\ requests' =
                [requests EXCEPT ![r] =
                    IF reload THEN [Free EXCEPT !.at = "sent", !.apply = TRUE, !.offer = v] ELSE Free]
    /\ UNCHANGED <<server, attempts, futile>>

\* "Load and restart app" of a large update, "Try again" of any that failed.
ApplyUpdate(r) ==
    /\ Offered
    /\ \/ page.state = "failed"
       \/ page.state = "offered" /\ Classify(page.version, page.offer) = "large"
    /\ requests[r].at = "free"
    /\ requests' = [requests EXCEPT ![r] =
                        [Free EXCEPT !.at = "sent", !.apply = TRUE, !.user = TRUE, !.offer = page.offer]]
    /\ page' = [page EXCEPT !.state = "refreshing"]
    /\ UNCHANGED <<server, attempts, futile>>

\* "Later", and the cross of a small update.
Dismiss ==
    /\ Offered /\ page.state # "refreshing"
    /\ page' = [page EXCEPT !.dismissed = page.offer]
    /\ UNCHANGED <<server, requests, attempts, futile>>

\* The server still serves what was offered: the attempt is recorded and the page replaced.
Replaces(r) ==
    /\ requests[r].at = "answered" /\ requests[r].apply
    /\ requests[r].answer = requests[r].offer
    /\ page' = [page EXCEPT !.target = requests[r].offer]
    /\ attempts' = [attempts EXCEPT !.stored = Recorded(requests[r].offer)]
    /\ requests' = [requests EXCEPT ![r] = Free]
    /\ UNCHANGED <<server, futile>>

ApplyFails(r) ==
    /\ requests[r].at = "answered" /\ requests[r].apply
    /\ requests[r].answer # requests[r].offer
    /\ page' = [page EXCEPT !.state = "failed"]
    /\ requests' = [requests EXCEPT ![r] = Free]
    /\ UNCHANGED <<server, attempts, futile>>

-----------------------------------------------------------------------------
(* The browser and the server. *)

\* The replacement, or a reload of the user's: the served page or, from a cache, the old one again.
\* The requests of the page that is left end with it.
PageLoads ==
    /\ page.loads < MaxLoads
    /\ \E version \in {server.version, page.version} :
          /\ page' = Loaded(version, page.loads + 1)
          /\ attempts' = [attempts EXCEPT !.stored = Cleared(version)]
          /\ futile' = {v \in futile \cup ({page.target} \ {None}) : v > version}
    /\ requests' = [r \in Request |-> Free]
    /\ UNCHANGED server

\* Another build is deployed; also an older one.
Release ==
    /\ server.releases < MaxReleases
    /\ \E v \in AppVersion \ {server.version} :
          server' = [version |-> v, releases |-> server.releases + 1]
    /\ UNCHANGED <<page, requests, attempts, futile>>

UpdatesNext ==
    \/ \E r \in Request :
          \/ CheckForUpdate(r)
          \/ ServerAnswers(r)
          \/ CheckAnswered(r)
          \/ ApplyUpdate(r)
          \/ Replaces(r)
          \/ ApplyFails(r)
    \/ Dismiss
    \/ PageLoads
    \/ Release

UpdatesSpec == UpdatesInit /\ [][UpdatesNext]_updatesVars

-----------------------------------------------------------------------------
(* Properties. *)

\* A request whose answer was accepted: it is over.
Ended(r) == requests[r].at = "answered" /\ requests'[r].at = "free"

\* However checks, answers and releases interleave, the page is replaced only by what the server
\* still served after the decision, for a later version than its own, and without a word of the user
\* only within its line and, where storage works, never twice for a version that did not arrive
\* (AppUpdateManager.tsx); and it says that it is refreshing only while it is.
UpdatesUnderControl ==
    /\ [](page.state = "refreshing" => page.target # None \/ \E r \in Request : requests[r].apply)
    /\ [][ page'.target # page.target /\ page'.target # None =>
            \E r \in Request :
                LET v == page'.target
                IN  /\ Ended(r) /\ requests[r].apply /\ requests[r].answer = v /\ v > page.version
                    /\ \/ requests[r].user
                       \/ Line[v] = Line[page.version] /\ (attempts.works => v \notin futile) ]_updatesVars
=============================================================================
