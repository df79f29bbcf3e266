----------------------------- MODULE KingdomReads -----------------------------
(***************************************************************************)
(* An observation on its way to the status panel: Kingdom stamps it, the   *)
(* read proxy judges its age by Kingdom's clock, the adapter stamps its    *)
(* receipt by the browser's clock, and the panel judges that whenever it   *)
(* renders.  Refreshes overlap.  The three observations of a refresh do    *)
(* not influence each other: the model follows one of them, "path".        *)
(***************************************************************************)
EXTENDS Common

CONSTANTS
    Refresh,        \* calls of refreshDetails
    RecentLimit,    \* age an observation may have at the proxy (60 s)
    FetchLimit,     \* time a fetch is given for its headers (10 s)
    CurrentLimit,   \* time a received observation counts as current (60 s)
    Interval,       \* period of the refresh, which renders the panel (4 s)
    MaxTime         \* bound: the clock

ASSUME LimitsAssumption ==
    RecentLimit \in Nat /\ FetchLimit \in Nat /\ CurrentLimit \in Nat /\ Interval \in Nat

VARIABLES
    path,        \* the observation that is followed
    now,         \* true time; every clock ticks with it
    sample,      \* when Kingdom last took the observation
    online,      \* the adapter is CONNECTED
    refreshes,   \* the refreshes under way
    view         \* what the panel holds, and what it last rendered

readsVars == <<path, now, sample, online, refreshes, view>>

Paths == {"activity", "discovery", "hierarchy"}

\* "opened", when the headers of the answer came, is only here: the code does not keep it.
Unseen(state) == [state |-> state, taken |-> None, opened |-> None, received |-> None]

Unavailable == Unseen("unavailable")

ReadsInit ==
    /\ path \in Paths
    /\ now = 0
    /\ sample = 0
    /\ online \in BOOLEAN
    /\ refreshes = [r \in Refresh |-> None]
    /\ view = [held |-> Unavailable, current |-> FALSE, rendered |-> 0]

-----------------------------------------------------------------------------
(* The proxy's summary of what Kingdom answers. *)

\* Mutant: the age of the observation is not looked at.
RecentAlways(taken) == taken <= now

Recent(taken) == now - taken <= RecentLimit

\* Local activity and services: "dated" says whether the response carries Kingdom's time.
Timed(state, dated) ==
    IF path = "discovery" /\ state = "unsupported" THEN Unseen("unsupported")
    ELSE IF state # "observed" \/ ~dated THEN Unavailable
    ELSE IF ~Recent(sample) THEN Unseen("stale")
    ELSE [Unseen("observed") EXCEPT !.taken = sample]

\* Peer reports: Kingdom has judged their ages; one that is not current spoils the sum, and so
\* does one without readable activity.
Peers(reports) ==
    IF "old" \in reports THEN Unseen("stale")
    ELSE IF "unreadable" \in reports THEN Unavailable
    ELSE Unseen("observed")

Summaries ==
    IF path = "hierarchy" THEN {Peers(reports) : reports \in SUBSET {"current", "old", "unreadable"}}
    ELSE {Timed(state, dated) : state \in {"observed", "unsupported", "other"}, dated \in BOOLEAN}

-----------------------------------------------------------------------------

At(r, place) == refreshes[r] # None /\ refreshes[r].at = place

\* A refresh renders the panel, and goes on to ask while the adapter is connected.
Rendered(held) ==
    [view EXCEPT !.held = held, !.rendered = now,
                  !.current = /\ online
                              /\ held.state = "observed" /\ held.received # None
                              /\ now - held.received <= CurrentLimit]

RefreshDetails(r) ==
    /\ refreshes[r] = None
    /\ view' = Rendered(view.held)
    /\ refreshes' = IF online
                    THEN [refreshes EXCEPT ![r] = [at |-> "asked", sent |-> now, fresh |-> TRUE,
                                                   got |-> Unavailable]]
                    ELSE refreshes
    /\ UNCHANGED <<path, now, sample, online>>

InTime(r) == now - refreshes[r].sent <= FetchLimit

\* The proxy answers with a summary, or with a status that makes the observation unavailable:
\* not the host's own browser, not configured, refused, too large, not JSON, timed out.
ProxyAnswers(r) ==
    /\ At(r, "asked")
    /\ \E summary \in Summaries \union {Unavailable} :
           refreshes' = [refreshes EXCEPT ![r].at = "answered", ![r].got = summary]
    /\ UNCHANGED <<path, now, sample, online, view>>

\* Nothing reads the times of what is no observation: they are left out.
Opening(summary) == IF summary.state = "observed" THEN [summary EXCEPT !.opened = now] ELSE summary
Receipt(summary) == IF summary.state = "observed" THEN [summary EXCEPT !.received = now] ELSE summary

\* The headers stop the abort timer, which ran since the refresh was sent.
HeadersCome(r) ==
    /\ At(r, "answered")
    /\ InTime(r)
    /\ refreshes' = [refreshes EXCEPT ![r].at = "opened", ![r].sent = None, ![r].got = Opening(@)]
    /\ UNCHANGED <<path, now, sample, online, view>>

\* The body is in, however long it took, and only now the adapter stamps the receipt; an observation
\* asked for in another generation is dropped.
Received(r) ==
    /\ At(r, "opened")
    /\ refreshes' = [refreshes EXCEPT
           ![r].at = "received",
           ![r].got = IF refreshes[r].fresh THEN Receipt(@) ELSE Unavailable]
    /\ UNCHANGED <<path, now, sample, online, view>>

\* The fetch is aborted before its headers, or its body breaks off.
Fails(r) ==
    /\ \/ (At(r, "asked") \/ At(r, "answered")) /\ now - refreshes[r].sent >= FetchLimit
       \/ At(r, "opened")
    /\ refreshes' = [refreshes EXCEPT ![r].at = "received", ![r].sent = None, ![r].got = Unavailable]
    /\ UNCHANGED <<path, now, sample, online, view>>

\* All reads of the refresh are in: the panel takes them unless its generation has passed.
\* An older refresh that ends later replaces what a newer one brought.
Shown(r) ==
    /\ At(r, "received")
    /\ view' = IF refreshes[r].fresh THEN Rendered(refreshes[r].got) ELSE view
    /\ refreshes' = [refreshes EXCEPT ![r] = None]
    /\ UNCHANGED <<path, now, sample, online>>

\* Every change of the connection empties the panel and starts a new generation, of the adapter
\* and of the panel, to which no refresh under way belongs.
ConnectionSwitches ==
    /\ online' = ~online
    /\ view' = [held |-> Unavailable, current |-> FALSE, rendered |-> now]
    /\ refreshes' = [r \in Refresh |-> IF refreshes[r] = None THEN None
                                      ELSE [refreshes[r] EXCEPT !.fresh = FALSE]]
    /\ UNCHANGED <<path, now, sample>>

KingdomObserves ==
    /\ sample # now
    /\ sample' = now
    /\ UNCHANGED <<path, now, online, refreshes, view>>

\* Timers are on time: a fetch without headers ends at its limit, and the panel is rendered every
\* interval.  A body may take any time, and so may the other reads of a refresh.
TimePasses ==
    /\ now < MaxTime
    /\ \A r \in Refresh : At(r, "asked") \/ At(r, "answered") => now - refreshes[r].sent < FetchLimit
    /\ now - view.rendered < Interval
    /\ now' = now + 1
    /\ UNCHANGED <<path, sample, online, refreshes, view>>

ReadsNext ==
    \/ \E r \in Refresh :
          \/ RefreshDetails(r) \/ ProxyAnswers(r) \/ HeadersCome(r)
          \/ Received(r) \/ Fails(r) \/ Shown(r)
    \/ ConnectionSwitches
    \/ KingdomObserves
    \/ TimePasses

ReadsSpec == ReadsInit /\ [][ReadsNext]_readsVars

-----------------------------------------------------------------------------
(* Properties *)

\* What the panel renders as current belongs to the connection of this moment and was received no
\* longer ago than it may count as current, with the time between two renderings; and Kingdom had
\* taken it no longer before the headers of its answer than its age at the proxy and the fetch
\* allow, whatever the clocks' offset.  Between headers and receipt lies the body, which no timer
\* bounds and no clock judges: an observation whose body stalls is older by that, and still current.
CurrentIsFresh ==
    view.current =>
        /\ online
        /\ view.held.opened <= view.held.received
        /\ now - view.held.received <= CurrentLimit + Interval
        /\ path # "hierarchy" => view.held.opened - view.held.taken <= RecentLimit + FetchLimit
=============================================================================
