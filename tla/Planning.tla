------------------------------ MODULE Planning ------------------------------
(***************************************************************************)
(* From words to a tool: the parser's ordered phrase groups, the           *)
(* capability each intent resolves to, the verified tools in the order of  *)
(* their registration, the workspace integrations, and what the permission *)
(* gate and the tool executor's entry make of a request without a grant.   *)
(* No state: the tables and decisions that Assistant.tla steps through.    *)
(***************************************************************************)
EXTENDS Common, Sequences, Functions

\* Whoever must be asked: a high risk counts as a declared need for an approval.
NeedsHuman(x) == x.approval \/ x.risk \in {"HIGH", "CRITICAL"}

-----------------------------------------------------------------------------
(* The intent parser.  A text is the set of phrase groups it contains a phrase of; the groups are *)
(* tried in this order and the first that matches decides.                                        *)

PrivilegedPhrases ==
    <<"UPDATE_KINGDOM", "RESTART_KINGDOM", "ROLLBACK_KINGDOM", "RESTRICTED_DELETE",
      "RESTRICTED_EXECUTE">>

RuntimePhrases == <<"START_RUNTIME", "STOP_RUNTIME">>

TaskPhrases == <<"CANCEL_TASK", "CREATE_TASK", "LIST_TASKS">>

QueryPhrases == <<"QUERY_STORAGE", "QUERY_STATUS", "GET_KNIGHTS", "GET_SECURITY_STATUS">>

Phrases == PrivilegedPhrases \o RuntimePhrases \o TaskPhrases \o QueryPhrases

Texts == SUBSET Range(Phrases)

Parse(text) ==
    LET matching == {i \in DOMAIN Phrases : Phrases[i] \in text}
    IN  IF matching = {} THEN "UNKNOWN" ELSE Phrases[Earliest(matching)]

\* Only the task to cancel may be missing from a text that was understood: the other parameters
\* are the text itself.
Complete(intent, named) == intent = "CANCEL_TASK" => named

-----------------------------------------------------------------------------
(* The capability resolver. *)

Needs(capability, risk, approval) == [capability |-> capability, risk |-> risk, approval |-> approval]

RuntimeNeeds ==
    [QUERY_STATUS |-> Needs("runtime.status", "LOW", FALSE),
     START_RUNTIME |-> Needs("runtime.start", "MEDIUM", FALSE),
     STOP_RUNTIME |-> Needs("runtime.stop", "HIGH", FALSE)]

TaskNeeds ==
    [CREATE_TASK |-> Needs("tasks.create", "MEDIUM", FALSE),
     LIST_TASKS |-> Needs("tasks.read", "LOW", FALSE),
     CANCEL_TASK |-> Needs("tasks.cancel", "HIGH", FALSE),
     GET_KNIGHTS |-> Needs("knights.read", "LOW", FALSE)]

SecurityNeeds == [GET_SECURITY_STATUS |-> Needs("security.status.read", "LOW", FALSE)]

KingdomNeeds ==
    [UPDATE_KINGDOM |-> Needs("kingdom.update", "CRITICAL", TRUE),
     RESTART_KINGDOM |-> Needs("kingdom.restart", "HIGH", TRUE),
     ROLLBACK_KINGDOM |-> Needs("kingdom.rollback", "CRITICAL", TRUE),
     RESTRICTED_DELETE |-> Needs("filesystem.delete", "CRITICAL", TRUE),
     RESTRICTED_EXECUTE |-> Needs("process.execute", "CRITICAL", TRUE)]

\* What the resolver knows and no phrase of the parser yields.
UnspokenNeeds ==
    [GET_MODE |-> Needs("runtime.mode.read", "LOW", FALSE),
     SET_MODE |-> Needs("runtime.mode.write", "MEDIUM", FALSE),
     GET_TASK |-> Needs("tasks.read", "LOW", FALSE),
     GET_MODELS |-> Needs("models.read", "LOW", FALSE),
     GET_MEMORY |-> Needs("memory.read", "LOW", FALSE),
     SEARCH_MEMORY |-> Needs("memory.search", "LOW", FALSE),
     GET_MAPS |-> Needs("ai_map.read", "LOW", FALSE),
     GET_PERMISSIONS |-> Needs("security.permissions.read", "LOW", FALSE),
     LIST_APPROVALS |-> Needs("security.approvals.read", "LOW", FALSE),
     CREATE_APPROVAL |-> Needs("security.approvals.create", "HIGH", TRUE)]

\* An intent the resolver does not list, the storage query among them, needs nothing anyone has.
NoNeeds == Needs("none", "LOW", FALSE)

Resolve(intent) ==
    CASE intent \in DOMAIN RuntimeNeeds -> RuntimeNeeds[intent]
      [] intent \in DOMAIN TaskNeeds -> TaskNeeds[intent]
      [] intent \in DOMAIN SecurityNeeds -> SecurityNeeds[intent]
      [] intent \in DOMAIN KingdomNeeds -> KingdomNeeds[intent]
      [] intent \in DOMAIN UnspokenNeeds -> UnspokenNeeds[intent]
      [] OTHER -> NoNeeds

\* The plan is the one capability its intent resolves to; for what was not understood it is empty.
CreatePlan(intent) == IF intent = "UNKNOWN" THEN NoNeeds ELSE Resolve(intent)

-----------------------------------------------------------------------------
(* The verified tools, in the order of their registration.  "effects" is the declared sideEffects, *)
(* "required" says whether a parameter must be given.                                              *)

Reader(id, capabilities, required) ==
    [id |-> id, capabilities |-> capabilities, category |-> "READ_ONLY", risk |-> "LOW",
     approval |-> FALSE, effects |-> FALSE, required |-> required]

Changer(id, capability, risk, approval, required) ==
    [id |-> id, capabilities |-> {capability}, category |-> "MUTATING", risk |-> risk,
     approval |-> approval, effects |-> TRUE, required |-> required]

Privileged(id, capability) ==
    [Changer(id, capability, "CRITICAL", TRUE, TRUE) EXCEPT !.category = "PRIVILEGED"]

RuntimeTools ==
    <<Reader("runtime.get_status", {"runtime.status", "node.execute"}, FALSE),
      Changer("runtime.start", "runtime.start", "MEDIUM", FALSE, FALSE),
      Changer("runtime.stop", "runtime.stop", "HIGH", FALSE, FALSE),
      Reader("runtime.get_mode", {"runtime.mode.read"}, FALSE),
      Changer("runtime.set_mode", "runtime.mode.write", "MEDIUM", FALSE, TRUE)>>

TaskTools ==
    <<Changer("tasks.submit", "tasks.create", "MEDIUM", FALSE, TRUE),
      Reader("tasks.list", {"tasks.read"}, FALSE),
      Reader("tasks.get", {"tasks.read"}, TRUE),
      Changer("tasks.cancel", "tasks.cancel", "HIGH", FALSE, TRUE)>>

KingdomTools ==
    <<Reader("knights.list", {"knights.read"}, FALSE),
      Reader("models.health", {"models.read"}, FALSE),
      Reader("memory.read", {"memory.read"}, FALSE),
      Reader("memory.search", {"memory.search"}, TRUE),
      Reader("maps.list", {"ai_map.read"}, FALSE)>>

SecurityTools ==
    <<Reader("security.status", {"security.status.read"}, FALSE),
      Reader("security.permissions", {"security.permissions.read"}, FALSE),
      Reader("security.approvals_list", {"security.approvals.read"}, FALSE),
      Changer("security.approval_create", "security.approvals.create", "HIGH", TRUE, TRUE)>>

HostTools ==
    <<Reader("filesystem.read", {"filesystem.read"}, TRUE),
      Changer("filesystem.write", "filesystem.write", "MEDIUM", FALSE, TRUE),
      Privileged("filesystem.delete_restricted", "filesystem.delete"),
      Privileged("process.execute_restricted", "process.execute")>>

Tools == RuntimeTools \o TaskTools \o KingdomTools \o SecurityTools \o HostTools

\* The registry answers with the first tool that has the capability: tasks.list hides tasks.get.
Provides(capability) == {i \in DOMAIN Tools : capability \in Tools[i].capabilities}

ToolFor(capability) == Tools[Earliest(Provides(capability))]

-----------------------------------------------------------------------------
(* The workspace integrations: what each offers and whether a human must be asked. *)

Offer(capability, approval) == [capability |-> capability, approval |-> approval]

LocalOffers ==
    {Offer("filesystem.read", FALSE), Offer("filesystem.write", FALSE), Offer("filesystem.delete", TRUE)}

EmailOffers ==
    {Offer("email.search", FALSE), Offer("email.read", FALSE), Offer("email.draft", FALSE),
     Offer("email.send", TRUE)}

CalendarOffers ==
    {Offer("calendar.read", FALSE), Offer("calendar.create", FALSE), Offer("calendar.delete", TRUE)}

GithubOffers ==
    {Offer("github.repo.read", FALSE), Offer("github.issue.create", FALSE), Offer("github.code.push", TRUE)}

Offers ==
    [int_filesystem |-> LocalOffers, int_email |-> EmailOffers, int_calendar |-> CalendarOffers,
     int_github |-> GithubOffers]

-----------------------------------------------------------------------------
(* Decisions. *)

\* The permission gate: a plan of high risk is never put to Kingdom; the others are, and whatever is
\* not an answer is a denial, as is an adapter that is not connected.
Decisions == {"ALLOWED", "REQUIRES_APPROVAL", "DENIED", "failed"}

Authorization(needs, connected, decision) ==
    IF NeedsHuman(needs) THEN "APPROVAL_REQUIRED"
    ELSE IF ~connected THEN "DENIED"
    ELSE CASE decision = "ALLOWED" -> "AUTHORIZED"
           [] decision = "REQUIRES_APPROVAL" -> "APPROVAL_REQUIRED"
           [] OTHER -> "DENIED"

\* The tool executor's entry for a request that carries no grant: it is refused, it asks for a human,
\* or it goes on to the dispatch.
Guarded(tool) == tool.category # "READ_ONLY" \/ NeedsHuman(tool)

\* Mutant: only what needs a human is guarded.
EntryForHumans(tool, complete) ==
    IF tool.required /\ ~complete THEN "BLOCKED"
    ELSE IF NeedsHuman(tool) THEN "PENDING"
    ELSE "dispatched"

Entry(tool, complete) ==
    IF tool.required /\ ~complete THEN "BLOCKED"
    ELSE IF ~Guarded(tool) THEN "dispatched"
    ELSE IF NeedsHuman(tool) THEN "PENDING"
    ELSE "BLOCKED"

\* What the user is told of an action's result: a timeout is worded like a success.
Explanation(result) ==
    CASE result = "BLOCKED" -> "blocked"
      [] result = "PENDING" -> "approval required"
      [] result = "FAILED" -> "error"
      [] OTHER -> "done"
=============================================================================
