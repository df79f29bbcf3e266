------------------------------ MODULE Assistant ------------------------------
(***************************************************************************)
(* The assistant: commands typed or spoken go through the pipeline (parse, *)
(* plan, Kingdom's verdict, tool executor, answer), capabilities of a      *)
(* workspace integration go straight to the tool executor.  None of them   *)
(* carries a grant.  Calls overlap at every await: the transcription,      *)
(* Kingdom's verdict, the creation of an approval, the dispatched tool.    *)
(* The voice state and the conversation are shared by all of them.         *)
(***************************************************************************)
EXTENDS Planning, FiniteSets

CONSTANTS
    Call,         \* calls of the pipeline and of the workspace registry
    Utterances,   \* the texts that are typed or heard
    Wanted,       \* the <<integration, capability>> pairs that are called
    Changes,      \* the <<integration, status>> pairs that are registered meanwhile
    RecentLimit   \* intents the context remembers (10 in the code)

Statuses == {"CONNECTED", "DISCONNECTED", "NEEDS_AUTH", "RESTRICTED", "ERROR"}

Verdicts == {"AUTHORIZED", "APPROVAL_REQUIRED", "DENIED"}

Results == {"SUCCESS", "FAILED", "TIMEOUT", "BLOCKED", "PENDING"}

\* Of an answered message, or of an integration's result.
Reports == {"SUCCESS", "COMPLETED", "FAILED", "BLOCKED", "APPROVAL_REQUIRED", "DENIED"}

Wordings == {"blocked", "approval required", "error", "done"}

ASSUME UtterancesAssumption == Utterances \subseteq Texts
ASSUME ChangesAssumption == Changes \subseteq (DOMAIN Offers) \X Statuses
ASSUME RecentAssumption == RecentLimit \in Nat
ASSUME NoneAssumption ==
    /\ None \notin Call
    /\ None \notin Range(Tools)
    /\ None \notin Verdicts \cup Results \cup Reports \cup Wordings

VARIABLES
    connected,     \* the adapter is CONNECTED
    integrations,  \* the status of every registered integration
    voice,         \* what the voice interface shows
    calls,         \* the calls under way and answered
    recent,        \* contextManager.recentIntents
    conversation   \* the messages of the active conversation, by their calls

vars == <<connected, integrations, voice, calls, recent, conversation>>

\* Kingdom's answer to the gate, or to the creation of an approval, has begun; its body is read.
BodyOpen == {"ruling", "creating"}

Stages == {"free", "heard", "asked", "gate", "approval", "tool", "done"} \cup BodyOpen

Fresh ==
    [at |-> "free", source |-> None, intent |-> None, verdict |-> None,
     tool |-> None, result |-> None, status |-> None, said |-> None]

Init ==
    /\ connected \in BOOLEAN
    /\ integrations =
          [i \in DOMAIN Offers |-> IF i = "int_filesystem" THEN "CONNECTED" ELSE "NEEDS_AUTH"]
    /\ voice = [processing |-> FALSE, confirm |-> FALSE, pending |-> None]
    /\ calls = [c \in Call |-> Fresh]
    /\ recent = <<>>
    /\ conversation = <<>>

-----------------------------------------------------------------------------
(* A call on its way through pipeline and executor, as functions of its record. *)

\* The status of the message, or of the integration's result, that the tool's result becomes.
Reported(call, result) ==
    IF call.source = "workspace" THEN (IF result = "SUCCESS" THEN "SUCCESS" ELSE "FAILED")
    ELSE CASE call.verdict \in {"APPROVAL_REQUIRED", "DENIED"} -> call.verdict
           [] OTHER -> IF result = "SUCCESS" THEN "COMPLETED" ELSE "FAILED"

Answered(call, result) ==
    [call EXCEPT !.at = "done", !.result = result, !.status = Reported(call, result),
                 !.said = IF call.source = "workspace" THEN None ELSE Explanation(result)]

\* The executor's entry: an open circuit refuses first; a guarded tool without a grant is refused
\* or made an approval, which is created in Kingdom when it is connected.
Entered(call, tool, complete, open) ==
    LET entry == IF open THEN "BLOCKED" ELSE Entry(tool, complete)
    IN  CASE entry = "dispatched" -> [call EXCEPT !.at = "tool", !.tool = tool]
          [] entry = "PENDING" /\ connected -> [call EXCEPT !.at = "approval"]
          [] OTHER -> Answered(call, entry)

\* Without a tool the action is blocked: by the action executor, or for the workspace, which then
\* takes the capability for a tool's name, by the tool executor.
Routed(call, capability, complete, open) ==
    IF Provides(capability) = {} THEN Answered(call, "BLOCKED")
    ELSE Entered(call, ToolFor(capability), complete, open)

Executed(call, complete, open) ==
    Routed(call, CreatePlan(call.intent).capability, complete, open)

\* Mutant: every verdict is left to the executor.
JudgedByExecutor(call, verdict, complete, open) ==
    Executed([call EXCEPT !.verdict = verdict], complete, open)

\* Only a denial stops the pipeline: a verdict that an approval is required leaves it to the executor.
Judged(call, verdict, complete, open) ==
    LET judged == [call EXCEPT !.verdict = verdict]
    IN  IF verdict = "DENIED" THEN Answered(judged, "BLOCKED") ELSE Executed(judged, complete, open)

\* What is not understood is answered at once, as a completed message about a failure.
Unknown(call) ==
    [call EXCEPT !.at = "done", !.intent = "UNKNOWN", !.result = "FAILED", !.status = "COMPLETED",
                 !.said = Explanation("FAILED")]

\* Parsing, planning and the part of the gate that asks nobody.
Understood(call, text, named, open) ==
    LET intent == Parse(text)
        parsed == [call EXCEPT !.intent = intent]
        plan == CreatePlan(intent)
    IN  IF intent = "UNKNOWN" THEN Unknown(call)
        ELSE IF connected /\ ~NeedsHuman(plan) THEN [parsed EXCEPT !.at = "gate"]
        ELSE Judged(parsed, Authorization(plan, connected, "failed"), Complete(intent, named), open)

-----------------------------------------------------------------------------
(* The shared state a step of a call touches. *)

\* Mutant: the oldest intent is never dropped.
RememberedAll(intent) == <<intent>> \o recent

\* recordIntent puts the newest first and drops the oldest.
Remembered(intent) ==
    LET all == <<intent>> \o recent
    IN  IF Len(all) > RecentLimit THEN SubSeq(all, 1, RecentLimit) ELSE all

\* A pipeline call that is over adds its message to whatever conversation is active.
Becomes(c, call) ==
    /\ calls' = [calls EXCEPT ![c] = call]
    /\ conversation' =
          IF call.at = "done" /\ call.source # "workspace" THEN Append(conversation, c)
          ELSE conversation

\* Mutant: a command that is blocked or fails leaves the indicator on.
SettledOnSuccess(call, shown) ==
    IF call.source = "voice" /\ call.status = "COMPLETED" THEN [shown EXCEPT !.processing = FALSE]
    ELSE shown

\* The finally of a spoken command; the others leave the voice interface alone.
Settled(call, shown) ==
    IF call.source = "voice" /\ call.at = "done" THEN [shown EXCEPT !.processing = FALSE] ELSE shown

Submit(c, call, text, shown) ==
    /\ \E next \in {Understood(call, text, named, open) : named, open \in BOOLEAN} :
          /\ Becomes(c, next)
          /\ recent' = Remembered(next.intent)
          /\ voice' = Settled(next, shown)
    /\ UNCHANGED <<connected, integrations>>

-----------------------------------------------------------------------------
(* Typing, speaking, confirming. *)

TypeCommand(c, text) ==
    /\ calls[c].at = "free"
    /\ Submit(c, [Fresh EXCEPT !.source = "typed"], text, voice)

\* A new recording drops the text that waits for its confirmation.
ProcessVoiceInput(c) ==
    /\ calls[c].at = "free"
    /\ calls' = [calls EXCEPT ![c] = [Fresh EXCEPT !.at = "heard", !.source = "voice"]]
    /\ voice' = [processing |-> TRUE, confirm |-> FALSE, pending |-> None]
    /\ UNCHANGED <<connected, integrations, recent, conversation>>

\* A transcription that fails, or is empty or too long, leaves the pending text of another one.
TranscriptionFails(c) ==
    /\ calls[c].at = "heard"
    /\ calls' = [calls EXCEPT ![c].at = "done"]
    /\ voice' = [voice EXCEPT !.processing = FALSE]
    /\ UNCHANGED <<connected, integrations, recent, conversation>>

\* "stop", "cancel", "halt", "never mind", "abort"
HeardStop(c) ==
    /\ calls[c].at = "heard"
    /\ calls' = [calls EXCEPT ![c].at = "done"]
    /\ voice' = [processing |-> FALSE, confirm |-> FALSE, pending |-> None]
    /\ UNCHANGED <<connected, integrations, recent, conversation>>

HeardUnclearly(c) ==
    /\ calls[c].at = "heard"
    /\ calls' = [calls EXCEPT ![c].at = "asked"]
    /\ voice' = [processing |-> FALSE, confirm |-> TRUE, pending |-> c]
    /\ UNCHANGED <<connected, integrations, recent, conversation>>

HeardClearly(c, text) ==
    /\ calls[c].at = "heard"
    /\ Submit(c, calls[c], text, [voice EXCEPT !.processing = TRUE])

\* The text was fixed when it was heard; it makes no difference before this step.
ConfirmPendingVoiceInput(text) ==
    /\ voice.pending # None
    /\ Submit(voice.pending, calls[voice.pending], text,
              [processing |-> TRUE, confirm |-> FALSE, pending |-> None])

CancelPendingVoiceInput ==
    /\ voice.pending # None
    /\ voice' = [voice EXCEPT !.confirm = FALSE, !.pending = None]
    /\ UNCHANGED <<connected, integrations, calls, recent, conversation>>

-----------------------------------------------------------------------------
(* The workspace registry: no gate, no plan; a refusal of its own is answered at once. *)

Refused(call, status) == [call EXCEPT !.at = "done", !.status = status]

\* Only NEEDS_AUTH and DISCONNECTED refuse: an integration in ERROR is used.
WorkspaceAnswer(call, integration, capability, complete, open) ==
    LET offered == {o \in Offers[integration] : o.capability = capability}
    IN  IF integration \notin DOMAIN Offers THEN Refused(call, "BLOCKED")
        ELSE IF integrations[integration] \in {"NEEDS_AUTH", "DISCONNECTED"} THEN Refused(call, "BLOCKED")
        ELSE IF offered = {} THEN Refused(call, "BLOCKED")
        ELSE IF \E o \in offered : o.approval THEN Refused(call, "APPROVAL_REQUIRED")
        ELSE Routed(call, capability, complete, open)

ExecuteCapability(c, integration, capability) ==
    /\ calls[c].at = "free"
    /\ LET call == [Fresh EXCEPT !.source = "workspace"]
       IN  \E next \in {WorkspaceAnswer(call, integration, capability, complete, open) :
                            complete, open \in BOOLEAN} : Becomes(c, next)
    /\ UNCHANGED <<connected, integrations, voice, recent>>

-----------------------------------------------------------------------------
(* The awaits. *)

Opened(call) == [call EXCEPT !.at = IF call.at = "gate" THEN "ruling" ELSE "creating"]

\* The headers stop the adapter's abort timer: nothing bounds the body that is read next.
HeadersArrive(c) ==
    /\ calls[c].at \in {"gate", "approval"}
    /\ Becomes(c, Opened(calls[c]))
    /\ UNCHANGED <<connected, integrations, voice, recent>>

\* Before the headers the request can only fail: it is aborted, lost or refused with a status.
Answers(call) == IF call.at = "gate" THEN {"failed"} ELSE Decisions

GateAnswers(c) ==
    /\ calls[c].at \in {"gate", "ruling"}
    /\ LET verdicts == {Authorization(CreatePlan(calls[c].intent), TRUE, decision) :
                           decision \in Answers(calls[c])}
       IN  \E open \in BOOLEAN :
           \E next \in {Judged(calls[c], verdict, TRUE, open) : verdict \in verdicts} :
              /\ Becomes(c, next)
              /\ voice' = Settled(next, voice)
    /\ UNCHANGED <<connected, integrations, recent>>

\* Mutant: the answer waits for the approval to exist in Kingdom.
ApprovalCreatedInKingdom(c) ==
    /\ calls[c].at \in {"approval", "creating"}
    /\ connected
    /\ LET next == Answered(calls[c], "PENDING")
       IN  Becomes(c, next) /\ voice' = Settled(next, voice)
    /\ UNCHANGED <<connected, integrations, recent>>

\* Created or not, the approval is reported as pending.
ApprovalCreated(c) ==
    /\ calls[c].at \in {"approval", "creating"}
    /\ LET next == Answered(calls[c], "PENDING")
       IN  Becomes(c, next) /\ voice' = Settled(next, voice)
    /\ UNCHANGED <<connected, integrations, recent>>

ToolAnswers(c, result) ==
    /\ calls[c].at = "tool"
    /\ LET next == Answered(calls[c], result)
       IN  Becomes(c, next) /\ voice' = Settled(next, voice)
    /\ UNCHANGED <<connected, integrations, recent>>

-----------------------------------------------------------------------------
(* The surroundings. *)

\* The adapter's connection, modelled in KingdomConnection.
ConnectionChanges ==
    /\ connected' = ~connected
    /\ UNCHANGED <<integrations, voice, calls, recent, conversation>>

RegisterIntegration(integration, status) ==
    /\ integrations' = [integrations EXCEPT ![integration] = status]
    /\ UNCHANGED <<connected, voice, calls, recent, conversation>>

Answer(c) ==
    \/ GateAnswers(c)
    \/ ApprovalCreated(c)
    \/ \E result \in {"SUCCESS", "FAILED", "TIMEOUT"} : ToolAnswers(c, result)

Next ==
    \/ \E c \in Call, text \in Utterances : TypeCommand(c, text) \/ HeardClearly(c, text)
    \/ \E c \in Call :
          \/ ProcessVoiceInput(c)
          \/ TranscriptionFails(c)
          \/ HeardStop(c)
          \/ HeardUnclearly(c)
          \/ HeadersArrive(c)
          \/ Answer(c)
    \/ \E text \in Utterances : ConfirmPendingVoiceInput(text)
    \/ CancelPendingVoiceInput
    \/ \E c \in Call, w \in Wanted : ExecuteCapability(c, w[1], w[2])
    \/ ConnectionChanges
    \/ \E x \in Changes : RegisterIntegration(x[1], x[2])

Spec == Init /\ [][Next]_vars

\* The adapter aborts a request whose headers do not come, the executor's timer races the tool.
TimesOut(c) ==
    \/ calls[c].at = "gate" /\ GateAnswers(c)
    \/ calls[c].at = "approval" /\ ApprovalCreated(c)
    \/ ToolAnswers(c, "TIMEOUT")

\* Only the timers are fair: nothing makes Kingdom send headers, or the rest of a body.
FairSpec == Spec /\ \A c \in Call : WF_vars(TimesOut(c))

-----------------------------------------------------------------------------
(* Properties. *)

Working == {"heard", "gate", "approval", "tool"} \cup BodyOpen

CallRecord ==
    [at : Stages, source : {"typed", "voice", "workspace", None},
     intent : Range(Phrases) \cup {"UNKNOWN", None}, verdict : Verdicts \cup {None},
     tool : Range(Tools) \cup {None}, result : Results \cup {None},
     status : Reports \cup {None}, said : Wordings \cup {None}]

\* Every variable keeps its type, the memory of recent intents its bound, and a conversation holds
\* only answered calls, each once: voiceInterface, pipeline, contextManager, conversationManager.
TypeOK ==
    /\ connected \in BOOLEAN
    /\ integrations \in [DOMAIN Offers -> Statuses]
    /\ voice \in [processing : BOOLEAN, confirm : BOOLEAN, pending : Call \cup {None}]
    /\ calls \in [Call -> CallRecord]
    /\ recent \in Seq(Range(Phrases) \cup {"UNKNOWN"}) /\ Len(recent) <= RecentLimit
    /\ conversation \in Seq(Call)
    /\ \A i \in DOMAIN conversation : calls[conversation[i]].at = "done"
    /\ IsInjective(conversation)

\* No words, typed or spoken, and no integration's capability make a tool with side effects run:
\* parser, resolver, registry, gate and executor together let only reads through without a grant.
OnlyReadsDispatched == \A c \in Call : calls[c].tool # None => ~calls[c].tool.effects

\* What an answer allows to conclude of the tool that was called (which may have simulated its effect:
\* the action executor drops that mark, as the workspace does).  A status of success or completion is of a tool that
\* was called and reported success; a denial, a refusal and words of a block or an approval are of
\* none that was called; words reach a tool only after Kingdom's verdict.  Two answers do not say it
\* by themselves: APPROVAL_REQUIRED is also the status of reads that Kingdom wanted approved and the
\* executor ran, where only the words tell; and words of success may follow a tool that timed out,
\* never under a status of completion.
AnswersFitRuns ==
    \A c \in Call :
        LET call == calls[c]
            ran == call.tool # None
        IN  /\ call.status = "SUCCESS" => ran /\ call.result = "SUCCESS"
            /\ call.status = "COMPLETED" /\ call.intent # "UNKNOWN" => ran /\ call.result = "SUCCESS"
            /\ call.result \in {"BLOCKED", "PENDING"} \/ call.verdict = "DENIED" => ~ran
            /\ call.status \in {"BLOCKED", "DENIED"} => ~ran
            /\ call.said \in {"blocked", "approval required"} => ~ran
            /\ call.said = "done" => ran /\ call.result \in {"SUCCESS", "TIMEOUT"}
            /\ call.status = "APPROVAL_REQUIRED" => (ran <=> call.said \in {"done", "error"})
            /\ ran /\ call.source # "workspace" => call.verdict \in {"AUTHORIZED", "APPROVAL_REQUIRED"}

\* What the voice interface shows is so, however recordings overlap: it processes only while one of
\* its calls is under way, and it asks for a confirmation exactly while the text of an unclear
\* recording that was neither dispatched nor discarded waits for it.
VoiceShowsTruth ==
    /\ voice.processing => \E c \in Call : calls[c].source = "voice" /\ calls[c].at \in Working
    /\ voice.confirm <=> voice.pending # None
    /\ voice.pending # None => calls[voice.pending].at = "asked"

\* Every command that was understood is answered, whether Kingdom is silent, unreachable or answers;
\* only the body of an answer that Kingdom began and does not end can hold it: the adapter has no
\* timer for it.
CommandsAnswered ==
    \A c \in Call : calls[c].at \in {"gate", "approval", "tool"} ~> calls[c].at \in {"done"} \cup BodyOpen
=============================================================================
