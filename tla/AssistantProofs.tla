-------------------------- MODULE AssistantProofs --------------------------
(***************************************************************************)
(* Proofs about Assistant, for any calls, utterances and integrations, and *)
(* for the tables of Planning as they are.                                 *)
(***************************************************************************)
EXTENDS Assistant, TLAPS, WellFoundedInduction

-----------------------------------------------------------------------------
(* The tables. *)

\* A tool that is declared to read only has no effects.
Frank(tool) == tool.category = "READ_ONLY" => ~tool.effects

\* A list of such tools.
FrankTools(tools) == tools \in Seq(Range(tools)) /\ \A tool \in Range(tools) : Frank(tool)

\* The makers of the table declare what they make.
LEMMA MakersAreFrank ==
  /\ \A id, capabilities, required : Frank(Reader(id, capabilities, required))
  /\ \A id, capability, risk, approval, required :
        Frank(Changer(id, capability, risk, approval, required))
  /\ \A id, capability : Frank(Privileged(id, capability))
<1>1. ASSUME NEW id, NEW capabilities, NEW required
      PROVE  Frank(Reader(id, capabilities, required))
  BY Zenon DEF Reader, Frank
<1>2. ASSUME NEW id, NEW capability, NEW risk, NEW approval, NEW required
      PROVE  Changer(id, capability, risk, approval, required).category = "MUTATING"
  BY DEF Changer
<1>3. ASSUME NEW id, NEW capability PROVE Privileged(id, capability).category = "PRIVILEGED"
  BY DEF Privileged, Changer
<1>4. QED
  BY <1>1, <1>2, <1>3 DEF Frank

\* Four or five frank tools make a block of the table.
LEMMA FrankBlock ==
  ASSUME NEW a, NEW b, NEW c, NEW d, NEW e, Frank(a), Frank(b), Frank(c), Frank(d), Frank(e)
  PROVE  FrankTools(<<a, b, c, d>>) /\ FrankTools(<<a, b, c, d, e>>)
BY DEF FrankTools, Range

\* Two lists make a list of what is in either.
LEMMA ListedJoin ==
  ASSUME NEW s, NEW t, s \in Seq(Range(s)), t \in Seq(Range(t))
  PROVE  s \o t \in Seq(Range(s \o t)) /\ Range(s \o t) \subseteq Range(s) \cup Range(t)
<1> DEFINE both == s \o t
           all == Range(s) \cup Range(t)
<1>1. s \in Seq(all) /\ t \in Seq(all)
  <2>1. /\ DOMAIN s = 1 .. Len(s) /\ Len(s) \in Nat
        /\ DOMAIN t = 1 .. Len(t) /\ Len(t) \in Nat
        /\ \A i \in DOMAIN s : s[i] \in Range(s)
        /\ \A i \in DOMAIN t : t[i] \in Range(t)
    OBVIOUS
  <2>2. QED
    BY <2>1
<1> HIDE DEF all
<1>2. both \in Seq(all)
  BY <1>1
<1> HIDE DEF both
<1>3. both \in Seq(Range(both)) /\ Range(both) \subseteq all
  BY <1>2 DEF Range
<1>4. QED
  BY <1>3 DEF both, all

\* Two blocks make one.
LEMMA FrankJoin ==
  ASSUME NEW s, NEW t, FrankTools(s), FrankTools(t)
  PROVE  FrankTools(s \o t)
BY ListedJoin DEF FrankTools

\* So does every tool that is registered.
LEMMA ToolsAreFrank == FrankTools(Tools)
<1>1. FrankTools(RuntimeTools)
  BY MakersAreFrank, FrankBlock, Zenon DEF RuntimeTools
<1>2. FrankTools(TaskTools)
  BY MakersAreFrank, FrankBlock, Zenon DEF TaskTools
<1>3. FrankTools(KingdomTools)
  BY MakersAreFrank, FrankBlock, Zenon DEF KingdomTools
<1>4. FrankTools(SecurityTools)
  BY MakersAreFrank, FrankBlock, Zenon DEF SecurityTools
<1>5. FrankTools(HostTools)
  BY MakersAreFrank, FrankBlock, Zenon DEF HostTools
<1>6. QED
  BY <1>1, <1>2, <1>3, <1>4, <1>5, FrankJoin DEF Tools

\* What the executor's entry dispatches without a grant has no effects.
LEMMA DispatchedReads ==
  ASSUME NEW tool \in Range(Tools), NEW complete, Entry(tool, complete) = "dispatched"
  PROVE  ~tool.effects
<1>1. Frank(tool)
  BY ToolsAreFrank DEF FrankTools
<1>2. tool.category = "READ_ONLY"
  BY DEF Entry, Guarded
<1>3. QED
  BY <1>1, <1>2 DEF Frank

\* The entry refuses, asks for a human or dispatches.
LEMMA EntryTypes ==
  \A tool, complete : Entry(tool, complete) \in {"BLOCKED", "PENDING", "dispatched"}
BY DEF Entry

\* The first of several positions is one of them.
LEMMA EarliestIsOne ==
  ASSUME NEW S, S \subseteq Nat, S # {}
  PROVE  Earliest(S) \in S
<1>1. \E i \in S : \A j \in S : ~(<<j, i>> \in OpToRel(<, Nat))
  BY WFMin, NatLessThanWellFounded, Zenon
<1>2. \A i, j \in S : ~(<<j, i>> \in OpToRel(<, Nat)) => i <= j
  BY DEF OpToRel
<1>3. \E i \in S : \A j \in S : i <= j
  BY <1>1, <1>2, Zenon
<1>4. QED
  BY <1>3, Zenon DEF Earliest

\* The registry answers with one of the registered tools.
LEMMA ToolForRegistered ==
  ASSUME NEW capability, Provides(capability) # {}
  PROVE  ToolFor(capability) \in Range(Tools)
<1>0. Tools \in Seq(Range(Tools))
  BY ToolsAreFrank DEF FrankTools
<1>1. Provides(capability) \subseteq DOMAIN Tools /\ DOMAIN Tools \subseteq Nat
  BY <1>0 DEF Provides
<1>2. Earliest(Provides(capability)) \in DOMAIN Tools
  BY <1>1, EarliestIsOne
<1>3. QED
  BY <1>0, <1>2 DEF ToolFor

\* The phrases are a list.
LEMMA PhrasesListed == Phrases \in Seq(Range(Phrases))
<1>1. /\ PrivilegedPhrases \in Seq(Range(PrivilegedPhrases))
      /\ RuntimePhrases \in Seq(Range(RuntimePhrases))
      /\ TaskPhrases \in Seq(Range(TaskPhrases))
      /\ QueryPhrases \in Seq(Range(QueryPhrases))
  BY DEF PrivilegedPhrases, RuntimePhrases, TaskPhrases, QueryPhrases, Range
<1>2. QED
  BY <1>1, ListedJoin DEF Phrases

\* A text is understood as one of the phrases, or not.
LEMMA ParseTypes == \A text : Parse(text) \in Range(Phrases) \cup {"UNKNOWN"}
<1> SUFFICES ASSUME NEW text PROVE Parse(text) \in Range(Phrases) \cup {"UNKNOWN"}
  OBVIOUS
<1> DEFINE matching == {i \in DOMAIN Phrases : Phrases[i] \in text}
<1>1. matching \subseteq DOMAIN Phrases /\ DOMAIN Phrases \subseteq Nat
  BY PhrasesListed
<1>2. matching # {} => Earliest(matching) \in DOMAIN Phrases
  BY <1>1, EarliestIsOne
<1>3. matching # {} => Phrases[Earliest(matching)] \in Range(Phrases)
  BY <1>2, PhrasesListed
<1>4. QED
  BY <1>3 DEF Parse

\* The gate decides one of three ways.
LEMMA AuthorizationTypes ==
  \A needs, linked, decision : Authorization(needs, linked, decision) \in Verdicts
BY DEF Authorization, Verdicts

-----------------------------------------------------------------------------
(* A call. *)

\* What AnswersFitRuns says of one call.
Honest(call) ==
    LET ran == call.tool # None
    IN  /\ call.status = "SUCCESS" => ran /\ call.result = "SUCCESS"
        /\ call.status = "COMPLETED" /\ call.intent # "UNKNOWN" => ran /\ call.result = "SUCCESS"
        /\ call.result \in {"BLOCKED", "PENDING"} \/ call.verdict = "DENIED" => ~ran
        /\ call.status \in {"BLOCKED", "DENIED"} => ~ran
        /\ call.said \in {"blocked", "approval required"} => ~ran
        /\ call.said = "done" => ran /\ call.result \in {"SUCCESS", "TIMEOUT"}
        /\ call.status = "APPROVAL_REQUIRED" => (ran <=> call.said \in {"done", "error"})
        /\ ran /\ call.source # "workspace" => call.verdict \in {"AUTHORIZED", "APPROVAL_REQUIRED"}

\* Nothing has been answered.
Unanswered(call) == call.result = None /\ call.status = None /\ call.said = None

\* What each place implies about a call there.
Sound(call) ==
    /\ call \in CallRecord
    /\ Honest(call)
    /\ call.tool # None => ~call.tool.effects
    /\ call.at # "done" => Unanswered(call)
    /\ call.at = "tool" => call.tool # None
    /\ call.at \notin {"tool", "done"} => call.tool = None
    /\ call.at \in {"free", "heard", "asked", "gate", "ruling"} => call.verdict = None
    /\ call.at \in {"heard", "asked"} => call.source = "voice"
    /\ call.at \in {"gate", "ruling"} => call.source \in {"typed", "voice"}

\* A call on its way to the executor, where no tool has been called for it.
Underway(call) == call \in CallRecord /\ Unanswered(call) /\ call.tool = None

\* Its verdict lets it go there.
Passed(call) ==
    /\ call.verdict # "DENIED"
    /\ call.source # "workspace" => call.verdict \in {"AUTHORIZED", "APPROVAL_REQUIRED"}

\* What became of a call when a step of pipeline and executor was over.
Moves(call, next) ==
    /\ Sound(next)
    /\ next.at \in {"gate", "approval", "tool", "done"} \cup BodyOpen
    /\ next.source = call.source

Proceeds(call, next) == Moves(call, next) /\ next.intent = call.intent

\* The fields of an answer.
LEMMA AnsweredFields ==
  ASSUME NEW call \in CallRecord, NEW result \in Results
  PROVE  /\ Answered(call, result) \in CallRecord
         /\ Answered(call, result).at = "done"
         /\ Answered(call, result).source = call.source
         /\ Answered(call, result).intent = call.intent
         /\ Answered(call, result).verdict = call.verdict
         /\ Answered(call, result).tool = call.tool
         /\ Answered(call, result).result = result
         /\ Answered(call, result).status = Reported(call, result)
         /\ Answered(call, result).said =
               IF call.source = "workspace" THEN None ELSE Explanation(result)
<1> DEFINE status == Reported(call, result)
           said == IF call.source = "workspace" THEN None ELSE Explanation(result)
<1>1. status \in Reports
  BY DEF Reported, Reports
<1>2. said \in Wordings \cup {None}
  BY DEF Explanation, Wordings
<1>3. Answered(call, result) =
        [call EXCEPT !.at = "done", !.result = result, !.status = status, !.said = said]
  BY DEF Answered
<1> HIDE DEF status, said
<1>4. "done" \in Stages
  BY DEF Stages
<1>5. [call EXCEPT !.at = "done", !.result = result, !.status = status, !.said = said] \in CallRecord
  BY <1>1, <1>2, <1>4 DEF CallRecord
<1>6. QED
  BY <1>3, <1>5 DEF CallRecord, status, said

\* What the executor refuses or leaves to a human has run nothing and says so.
LEMMA RefusedSound ==
  ASSUME NEW call, Underway(call), NEW result \in {"BLOCKED", "PENDING"}
  PROVE  Proceeds(call, Answered(call, result))
<1> DEFINE next == Answered(call, result)
<1>1. result \in Results /\ call \in CallRecord /\ call.tool = None
  BY DEF Results, Underway
<1>2. /\ next \in CallRecord /\ next.at = "done" /\ next.source = call.source
      /\ next.intent = call.intent
      /\ next.tool = None /\ next.result = result
      /\ next.status = Reported(call, result)
      /\ next.said = IF call.source = "workspace" THEN None ELSE Explanation(result)
  BY <1>1, AnsweredFields
<1> HIDE DEF next
<1>3. next.status \in {"FAILED", "APPROVAL_REQUIRED", "DENIED"}
  BY <1>2 DEF Reported
<1>4. next.said \in {"blocked", "approval required", None}
  BY <1>2 DEF Explanation
<1>5. next.said \notin {"done", "error"}
  BY <1>4, NoneAssumption DEF Wordings
<1>6. Honest(next)
  BY <1>2, <1>3, <1>5 DEF Honest
<1>7. QED
  BY <1>2, <1>6 DEF Proceeds, Moves, Sound, next

\* What a tool answered is reported as it was.
LEMMA ToolAnsweredSound ==
  ASSUME NEW call, Sound(call), call.at = "tool", NEW result \in {"SUCCESS", "FAILED", "TIMEOUT"}
  PROVE  Proceeds(call, Answered(call, result))
<1> DEFINE next == Answered(call, result)
<1>1. /\ result \in Results /\ call \in CallRecord /\ call.tool # None /\ ~call.tool.effects
      /\ call.verdict # "DENIED"
      /\ call.source # "workspace" => call.verdict \in {"AUTHORIZED", "APPROVAL_REQUIRED"}
  BY DEF Results, Sound, Honest
<1>2. /\ next \in CallRecord /\ next.at = "done" /\ next.source = call.source
      /\ next.intent = call.intent
      /\ next.tool = call.tool /\ next.result = result /\ next.verdict = call.verdict
      /\ next.status = Reported(call, result)
      /\ next.said = IF call.source = "workspace" THEN None ELSE Explanation(result)
  BY <1>1, AnsweredFields
<1> HIDE DEF next
<1>3. /\ next.status \in {"SUCCESS", "COMPLETED", "FAILED", "APPROVAL_REQUIRED"}
      /\ next.status \in {"SUCCESS", "COMPLETED"} => result = "SUCCESS"
  BY <1>1, <1>2 DEF Reported
<1>4. /\ next.said \in {"error", "done", None}
      /\ next.said = "done" => result \in {"SUCCESS", "TIMEOUT"}
      /\ next.status = "APPROVAL_REQUIRED" => next.said \in {"done", "error"}
  <2>1. None \notin {"done", "error"}
    BY NoneAssumption DEF Wordings
  <2>2. next.status = "APPROVAL_REQUIRED" => next.source # "workspace"
    BY <1>2 DEF Reported
  <2>3. QED
    BY <1>2, <2>1, <2>2 DEF Explanation
<1>5. next.said \notin {"blocked", "approval required"}
  BY <1>4, NoneAssumption DEF Wordings
<1>6. Honest(next)
  BY <1>1, <1>2, <1>3, <1>4, <1>5 DEF Honest
<1>7. QED
  BY <1>1, <1>2, <1>6 DEF Proceeds, Moves, Sound, next

\* A call that goes on, unanswered, to its tool or to an approval.
LEMMA UnansweredHonest ==
  ASSUME NEW call, Unanswered(call), call.tool # None => Passed(call)
  PROVE  Honest(call)
BY NoneAssumption DEF Unanswered, Passed, Honest, Results, Reports, Wordings

\* The executor's entry lets only tools without effects run.
LEMMA EnteredSound ==
  ASSUME NEW call, Underway(call), Passed(call), NEW tool \in Range(Tools), NEW complete,
         NEW open \in BOOLEAN
  PROVE  Proceeds(call, Entered(call, tool, complete, open))
<1> DEFINE entry == IF open THEN "BLOCKED" ELSE Entry(tool, complete)
           ready == [call EXCEPT !.at = "tool", !.tool = tool]
           waits == [call EXCEPT !.at = "approval"]
<1>1. entry \in {"BLOCKED", "PENDING", "dispatched"}
  BY EntryTypes
<1>2. CASE entry = "dispatched"
  <2>1. ~tool.effects
    BY <1>2, DispatchedReads
  <2>2. Entered(call, tool, complete, open) = ready
    BY <1>2 DEF Entered
  <2>3. "tool" \in Stages
    BY DEF Stages
  <2>4. /\ ready \in CallRecord /\ ready.at = "tool" /\ ready.tool = tool
        /\ ready.source = call.source /\ ready.intent = call.intent /\ ready.verdict = call.verdict
        /\ ready.result = call.result
        /\ ready.status = call.status /\ ready.said = call.said
    BY <2>3 DEF Underway, CallRecord
  <2> HIDE DEF ready
  <2>5. tool # None
    BY NoneAssumption
  <2>6. Unanswered(ready) /\ Passed(ready)
    BY <2>4 DEF Underway, Unanswered, Passed
  <2>7. Honest(ready)
    BY <2>6, UnansweredHonest
  <2>8. QED
    BY <2>1, <2>2, <2>4, <2>5, <2>6, <2>7 DEF Proceeds, Moves, Sound
<1>3. CASE entry = "PENDING" /\ connected
  <2>1. Entered(call, tool, complete, open) = waits
    BY <1>3 DEF Entered
  <2>2. "approval" \in Stages
    BY DEF Stages
  <2>3. /\ waits \in CallRecord /\ waits.at = "approval" /\ waits.tool = call.tool
        /\ waits.source = call.source /\ waits.intent = call.intent /\ waits.verdict = call.verdict
        /\ waits.result = call.result
        /\ waits.status = call.status /\ waits.said = call.said
    BY <2>2 DEF Underway, CallRecord
  <2> HIDE DEF waits
  <2>4. Unanswered(waits) /\ waits.tool = None
    BY <2>3 DEF Underway, Unanswered
  <2>5. Honest(waits)
    BY <2>4, UnansweredHonest
  <2>6. QED
    BY <2>1, <2>3, <2>4, <2>5 DEF Proceeds, Moves, Sound
<1>4. CASE entry = "BLOCKED" \/ (entry = "PENDING" /\ ~connected)
  <2>1. Entered(call, tool, complete, open) = Answered(call, entry)
    BY <1>4 DEF Entered
  <2>2. entry \in {"BLOCKED", "PENDING"}
    BY <1>4
  <2> HIDE DEF entry
  <2>3. QED
    BY <2>1, <2>2, RefusedSound
<1> HIDE DEF entry, ready, waits
<1>5. QED
  BY <1>1, <1>2, <1>3, <1>4, Zenon

\* The way of a request, with a tool or without one.
LEMMA RoutedSound ==
  ASSUME NEW call, Underway(call), Passed(call), NEW capability, NEW complete, NEW open \in BOOLEAN
  PROVE  Proceeds(call, Routed(call, capability, complete, open))
<1>1. CASE Provides(capability) = {}
  BY <1>1, RefusedSound DEF Routed
<1>2. CASE Provides(capability) # {}
  BY <1>2, ToolForRegistered, EnteredSound DEF Routed
<1>3. QED
  BY <1>1, <1>2

\* A verdict of the gate: a denial ends the call, with any other it goes to the executor.
LEMMA JudgedSound ==
  ASSUME NEW call, Underway(call), call.source # "workspace", NEW verdict \in Verdicts,
         NEW complete, NEW open \in BOOLEAN
  PROVE  Proceeds(call, Judged(call, verdict, complete, open))
<1> DEFINE judged == [call EXCEPT !.verdict = verdict]
<1>1. /\ judged \in CallRecord /\ judged.at = call.at /\ judged.source = call.source
      /\ judged.intent = call.intent
      /\ judged.verdict = verdict /\ judged.tool = call.tool /\ judged.result = call.result
      /\ judged.status = call.status /\ judged.said = call.said
  BY DEF Underway, CallRecord
<1>2. Judged(call, verdict, complete, open) =
         IF verdict = "DENIED" THEN Answered(judged, "BLOCKED") ELSE Executed(judged, complete, open)
  BY DEF Judged
<1> HIDE DEF judged
<1>3. Underway(judged) /\ (verdict # "DENIED" => Passed(judged))
  BY <1>1 DEF Underway, Unanswered, Passed, Verdicts
<1>4. CASE verdict = "DENIED"
  <2>1. Proceeds(judged, Answered(judged, "BLOCKED"))
    BY <1>3, RefusedSound
  <2>2. QED
    BY <1>1, <1>2, <1>4, <2>1 DEF Proceeds, Moves
<1>5. CASE verdict # "DENIED"
  <2>1. Proceeds(judged, Executed(judged, complete, open))
    BY <1>3, <1>5, RoutedSound DEF Executed
  <2>2. QED
    BY <1>1, <1>2, <1>5, <2>1 DEF Proceeds, Moves
<1>6. QED
  BY <1>4, <1>5

\* A text is answered at once, put to Kingdom, or goes to the executor.
LEMMA UnderstoodSound ==
  ASSUME NEW call, Underway(call), call.verdict = None, call.source \in {"typed", "voice"},
         NEW text, NEW named, NEW open \in BOOLEAN
  PROVE  /\ Moves(call, Understood(call, text, named, open))
         /\ Understood(call, text, named, open).intent \in Range(Phrases) \cup {"UNKNOWN"}
<1> DEFINE intent == Parse(text)
           parsed == [call EXCEPT !.intent = intent]
           plan == CreatePlan(intent)
           asked == [parsed EXCEPT !.at = "gate"]
           unknown == Unknown(call)
           next == Understood(call, text, named, open)
<1>1. intent \in Range(Phrases) \cup {"UNKNOWN"}
  BY ParseTypes
<1>2. next = IF intent = "UNKNOWN" THEN unknown
             ELSE IF connected /\ ~NeedsHuman(plan) THEN asked
             ELSE Judged(parsed, Authorization(plan, connected, "failed"), Complete(intent, named), open)
  BY DEF Understood
<1> HIDE DEF intent, plan, next
<1>3. /\ parsed \in CallRecord /\ parsed.at = call.at /\ parsed.source = call.source
      /\ parsed.intent = intent /\ parsed.verdict = None
      /\ parsed.tool = None /\ parsed.result = None /\ parsed.status = None /\ parsed.said = None
  BY <1>1 DEF Underway, Unanswered, CallRecord
<1>4. Underway(parsed) /\ parsed.source # "workspace"
  BY <1>3 DEF Underway, Unanswered
<1>5. CASE intent = "UNKNOWN"
  <2>1. /\ "done" \in Stages /\ "FAILED" \in Results /\ "COMPLETED" \in Reports
        /\ Explanation("FAILED") = "error" /\ "error" \in Wordings
    BY DEF Stages, Results, Reports, Wordings, Explanation
  <2>2. /\ unknown \in CallRecord /\ unknown.at = "done" /\ unknown.source = call.source
        /\ unknown.intent = "UNKNOWN" /\ unknown.verdict = None /\ unknown.tool = None
        /\ unknown.result = "FAILED" /\ unknown.status = "COMPLETED" /\ unknown.said = "error"
    BY <2>1 DEF Unknown, Underway, CallRecord
  <2> HIDE DEF unknown
  <2>3. Honest(unknown)
    BY <2>2 DEF Honest
  <2>4. QED
    BY <1>2, <1>5, <2>2, <2>3 DEF Moves, Sound, next
<1>6. CASE intent # "UNKNOWN" /\ connected /\ ~NeedsHuman(plan)
  <2> HIDE DEF parsed
  <2>1. "gate" \in Stages
    BY DEF Stages
  <2>2. /\ asked \in CallRecord /\ asked.at = "gate" /\ asked.source = call.source
        /\ asked.intent = intent /\ asked.verdict = None /\ asked.tool = None
        /\ asked.result = None /\ asked.status = None /\ asked.said = None
    BY <1>3, <2>1 DEF CallRecord
  <2> HIDE DEF asked
  <2>3. Unanswered(asked) /\ Honest(asked)
    BY <2>2, UnansweredHonest DEF Unanswered
  <2>4. next = asked
    BY <1>2, <1>6
  <2>5. QED
    BY <1>1, <2>2, <2>3, <2>4 DEF Moves, Sound, next
<1>7. CASE intent # "UNKNOWN" /\ ~(connected /\ ~NeedsHuman(plan))
  <2> HIDE DEF parsed
  <2> DEFINE verdict == Authorization(plan, connected, "failed")
             complete == Complete(intent, named)
  <2>1. verdict \in Verdicts
    BY AuthorizationTypes
  <2> HIDE DEF verdict, complete
  <2>2. Proceeds(parsed, Judged(parsed, verdict, complete, open))
    BY <1>4, <2>1, JudgedSound
  <2>3. next = Judged(parsed, verdict, complete, open)
    BY <1>2, <1>7 DEF verdict, complete
  <2>4. QED
    BY <1>1, <1>3, <2>2, <2>3 DEF Proceeds, Moves, next
<1>8. QED
  BY <1>5, <1>6, <1>7

\* A new command or capability.
LEMMA FreshCall ==
  ASSUME NEW source \in {"typed", "workspace"}
  PROVE  LET call == [Fresh EXCEPT !.source = source]
         IN  Underway(call) /\ call.source = source /\ call.verdict = None
<1> DEFINE call == [Fresh EXCEPT !.source = source]
<1>1. /\ call.source = source /\ call.verdict = None /\ call.tool = None
      /\ call.result = None /\ call.status = None /\ call.said = None
  BY DEF Fresh
<1>2. call \in CallRecord
  BY DEF Fresh, CallRecord, Stages
<1>3. QED
  BY <1>1, <1>2 DEF Underway, Unanswered

\* A new recording.
LEMMA FreshRecording ==
  LET call == [Fresh EXCEPT !.at = "heard", !.source = "voice"]
  IN  /\ Underway(call) /\ call.at = "heard" /\ call.source = "voice" /\ call.verdict = None
      /\ call.tool = None
<1> DEFINE call == [Fresh EXCEPT !.at = "heard", !.source = "voice"]
<1>1. /\ call.at = "heard" /\ call.source = "voice" /\ call.verdict = None /\ call.tool = None
      /\ call.result = None /\ call.status = None /\ call.said = None
  BY DEF Fresh
<1>2. call \in CallRecord
  BY DEF Fresh, CallRecord, Stages
<1>3. QED
  BY <1>1, <1>2 DEF Underway, Unanswered

\* The registry refuses, or asks the executor as the pipeline does.
LEMMA WorkspaceSound ==
  ASSUME NEW call, Underway(call), call.source = "workspace", call.verdict = None,
         NEW integration, NEW capability, NEW complete, NEW open \in BOOLEAN
  PROVE  Moves(call, WorkspaceAnswer(call, integration, capability, complete, open))
<1> DEFINE next == WorkspaceAnswer(call, integration, capability, complete, open)
<1>1. \/ next \in {Refused(call, "BLOCKED"), Refused(call, "APPROVAL_REQUIRED")}
      \/ next = Routed(call, capability, complete, open)
  BY DEF WorkspaceAnswer
<1>2. ASSUME NEW status \in {"BLOCKED", "APPROVAL_REQUIRED"}
      PROVE  Moves(call, Refused(call, status))
  <2> DEFINE refused == Refused(call, status)
  <2>1. "done" \in Stages /\ status \in Reports
    BY DEF Stages, Reports
  <2>2. /\ refused \in CallRecord /\ refused.at = "done" /\ refused.source = call.source
        /\ refused.verdict = None /\ refused.tool = None /\ refused.result = None
        /\ refused.status = status /\ refused.said = None
    BY <2>1 DEF Refused, Underway, Unanswered, CallRecord
  <2> HIDE DEF refused
  <2>3. Honest(refused)
    BY <2>2, NoneAssumption DEF Honest, Results, Wordings
  <2>4. QED
    BY <2>2, <2>3 DEF Moves, Sound, refused
<1>3. Moves(call, Routed(call, capability, complete, open))
  <2>1. Passed(call)
    BY NoneAssumption DEF Passed, Verdicts
  <2>2. QED
    BY <2>1, RoutedSound DEF Proceeds
<1> HIDE DEF next
<1>4. QED
  BY <1>1, <1>2, <1>3 DEF next

-----------------------------------------------------------------------------
(* The shared state. *)

VoiceRecord == [processing : BOOLEAN, confirm : BOOLEAN, pending : Call \cup {None}]

Intents == Range(Phrases) \cup {"UNKNOWN"}

AssistantInv == TypeOK /\ VoiceShowsTruth /\ \A c \in Call : Sound(calls[c])

\* A spoken command of which the voice interface knows that it is under way.
Spoken(c) == calls[c].source = "voice" /\ calls[c].at \in Working

\* The memory of intents keeps its bound.
LEMMA RememberedTypes ==
  ASSUME TypeOK, NEW intent \in Intents
  PROVE  Remembered(intent) \in Seq(Intents) /\ Len(Remembered(intent)) <= RecentLimit
<1> DEFINE all == <<intent>> \o recent
<1>1. recent \in Seq(Intents) /\ RecentLimit \in Nat
  BY RecentAssumption DEF TypeOK, Intents
<1> HIDE DEF Intents
<1>2. all \in Seq(Intents) /\ Len(all) \in Nat
  BY <1>1
<1>3. Remembered(intent) = IF Len(all) > RecentLimit THEN SubSeq(all, 1, RecentLimit) ELSE all
  BY DEF Remembered
<1> HIDE DEF all
<1>4. CASE Len(all) > RecentLimit
  <2>1. SubSeq(all, 1, RecentLimit) \in Seq(Intents) /\ Len(SubSeq(all, 1, RecentLimit)) = RecentLimit
    BY <1>1, <1>2, <1>4
  <2>2. QED
    BY <1>1, <1>3, <1>4, <2>1
<1>5. CASE ~(Len(all) > RecentLimit)
  BY <1>1, <1>2, <1>3, <1>5
<1>6. QED
  BY <1>4, <1>5

\* A message is added of a call that had none.
LEMMA ConversationGrows ==
  ASSUME TypeOK, NEW c \in Call, calls[c].at # "done", NEW next, next.at = "done",
         calls' = [calls EXCEPT ![c] = next], conversation' = Append(conversation, c)
  PROVE  /\ conversation' \in Seq(Call) /\ IsInjective(conversation')
         /\ \A i \in DOMAIN conversation' : calls'[conversation'[i]].at = "done"
<1>1. /\ conversation \in Seq(Call) /\ IsInjective(conversation)
      /\ calls \in [Call -> CallRecord]
      /\ \A i \in DOMAIN conversation : calls[conversation[i]].at = "done"
  BY DEF TypeOK
<1>2. /\ conversation' \in Seq(Call)
      /\ DOMAIN conversation' = 1 .. (Len(conversation) + 1)
      /\ conversation'[Len(conversation) + 1] = c
      /\ \A i \in 1 .. Len(conversation) : conversation'[i] = conversation[i]
      /\ DOMAIN conversation = 1 .. Len(conversation) /\ Len(conversation) \in Nat
  BY <1>1
<1>3. \A i \in 1 .. Len(conversation) : conversation[i] # c /\ conversation[i] \in Call
  BY <1>1, <1>2
<1>4. \A i \in DOMAIN conversation' : calls'[conversation'[i]].at = "done"
  BY <1>1, <1>2, <1>3
<1>5. \A i, j \in DOMAIN conversation' : conversation'[i] = conversation'[j] => i = j
  BY <1>1, <1>2, <1>3 DEF IsInjective
<1>6. QED
  BY <1>2, <1>4, <1>5 DEF IsInjective

\* A step that moves one call, and shows what it may.
LEMMA OneCall ==
  ASSUME AssistantInv, NEW c \in Call, calls[c].at # "done", NEW next, Sound(next),
         calls' = [calls EXCEPT ![c] = next],
         \/ conversation' = conversation
         \/ next.at = "done" /\ conversation' = Append(conversation, c),
         UNCHANGED <<connected, integrations>>,
         recent' \in Seq(Intents), Len(recent') <= RecentLimit,
         voice' \in VoiceRecord, voice'.confirm <=> voice'.pending # None,
         voice'.pending # None =>
            IF voice'.pending = c THEN next.at = "asked" ELSE calls[voice'.pending].at = "asked",
         voice'.processing =>
            \/ next.source = "voice" /\ next.at \in Working
            \/ \E d \in Call \ {c} : Spoken(d)
  PROVE  AssistantInv'
<1>1. /\ TypeOK /\ calls \in [Call -> CallRecord] /\ next \in CallRecord
      /\ conversation \in Seq(Call)
      /\ \A i \in DOMAIN conversation : conversation[i] \in Call
  BY DEF AssistantInv, TypeOK, Sound
<1>2. /\ calls' \in [Call -> CallRecord] /\ calls'[c] = next
      /\ \A d \in Call : d # c => calls'[d] = calls[d]
  BY <1>1
<1>3. /\ conversation' \in Seq(Call) /\ IsInjective(conversation')
      /\ \A i \in DOMAIN conversation' : calls'[conversation'[i]].at = "done"
  <2>1. CASE conversation' = conversation
    <3>1. \A i \in DOMAIN conversation : conversation[i] # c /\ calls'[conversation[i]].at = "done"
      BY <1>1, <1>2 DEF TypeOK
    <3>2. QED
      BY <1>1, <2>1, <3>1 DEF TypeOK
  <2>2. CASE next.at = "done" /\ conversation' = Append(conversation, c)
    BY <1>1, <2>2, ConversationGrows
  <2>3. QED
    BY <2>1, <2>2
<1>4. TypeOK'
  BY <1>1, <1>2, <1>3 DEF TypeOK, VoiceRecord, Intents
<1>5. \A d \in Call : Sound(calls'[d])
  BY <1>2 DEF AssistantInv
<1>6. VoiceShowsTruth'
  <2>1. voice'.processing => \E d \in Call : calls'[d].source = "voice" /\ calls'[d].at \in Working
    BY <1>2 DEF Spoken
  <2>2. voice'.pending # None => calls'[voice'.pending].at = "asked"
    BY <1>2 DEF VoiceRecord
  <2>3. QED
    BY <2>1, <2>2 DEF VoiceShowsTruth
<1>7. QED
  BY <1>4, <1>5, <1>6 DEF AssistantInv

\* What is under way, as the invariant has it.
LEMMA Shown ==
  ASSUME AssistantInv
  PROVE  /\ voice \in VoiceRecord /\ (voice.confirm <=> voice.pending # None)
         /\ voice.pending # None => voice.pending \in Call /\ calls[voice.pending].at = "asked"
         /\ voice.processing => \E d \in Call : Spoken(d)
BY DEF AssistantInv, TypeOK, VoiceRecord, VoiceShowsTruth, Spoken

\* A step of pipeline or executor, after which a spoken command that is over is no longer shown.
LEMMA PipelineStep ==
  ASSUME AssistantInv, NEW c \in Call, calls[c].at # "done", NEW call, NEW next, Moves(call, next),
         Becomes(c, next), UNCHANGED <<connected, integrations>>,
         recent' \in Seq(Intents), Len(recent') <= RecentLimit,
         NEW shown \in VoiceRecord, voice' = Settled(next, shown),
         shown.confirm <=> shown.pending # None,
         shown.pending # None => shown.pending # c /\ calls[shown.pending].at = "asked",
         shown.processing => call.source = "voice" \/ \E d \in Call \ {c} : Spoken(d)
  PROVE  AssistantInv'
<1>1. /\ Sound(next) /\ next.source = call.source
      /\ next.at # "done" => next.at \in Working
  BY DEF Moves, Working
<1>2. /\ calls' = [calls EXCEPT ![c] = next]
      /\ \/ conversation' = conversation
         \/ next.at = "done" /\ conversation' = Append(conversation, c)
  BY DEF Becomes
<1>3. CASE next.source = "voice" /\ next.at = "done"
  <2>1. voice' = [shown EXCEPT !.processing = FALSE]
    BY <1>3 DEF Settled
  <2>2. /\ voice' \in VoiceRecord /\ voice'.pending = shown.pending
        /\ voice'.confirm = shown.confirm
    BY <2>1 DEF VoiceRecord
  <2>3. ~voice'.processing
    BY <2>1 DEF VoiceRecord
  <2>4. QED
    BY <1>1, <1>2, <2>2, <2>3, OneCall
<1>4. CASE ~(next.source = "voice" /\ next.at = "done")
  <2>1. voice' = shown
    BY <1>4 DEF Settled
  <2>2. QED
    BY <1>1, <1>2, <1>4, <2>1, OneCall
<1>5. QED
  BY <1>3, <1>4

\* A call that waits is on its way, with what its place implies.
LEMMA WaitingCall ==
  ASSUME NEW call, Sound(call), call.at \in {"heard", "asked", "gate", "approval"} \cup BodyOpen
  PROVE  /\ Underway(call)
         /\ call.at \in {"heard", "asked", "gate", "ruling"} =>
               call.verdict = None /\ call.source \in {"typed", "voice"}
         /\ call.at \in {"heard", "asked"} => call.source = "voice"
BY DEF Sound, Underway, BodyOpen

\* The headers change nothing but the place of the call.
LEMMA HeadersSound ==
  ASSUME NEW call, Sound(call), call.at \in {"gate", "approval"}
  PROVE  Moves(call, Opened(call)) /\ Opened(call).at # "done"
<1> DEFINE at == IF call.at = "gate" THEN "ruling" ELSE "creating"
           next == [call EXCEPT !.at = at]
<1>1. at \in BodyOpen /\ at \in Stages /\ (at = "ruling" => call.at = "gate")
  BY DEF BodyOpen, Stages
<1>2. Opened(call) = next
  BY DEF Opened
<1> HIDE DEF at
<1>3. /\ call \in CallRecord /\ call.tool = None /\ Unanswered(call)
      /\ call.at = "gate" => call.verdict = None /\ call.source \in {"typed", "voice"}
  BY WaitingCall DEF Underway
<1>4. /\ next \in CallRecord /\ next.at = at /\ next.source = call.source
      /\ next.verdict = call.verdict /\ next.tool = None /\ next.result = call.result
      /\ next.status = call.status /\ next.said = call.said
  BY <1>1, <1>3 DEF CallRecord
<1> HIDE DEF next
<1>5. Unanswered(next) /\ Honest(next)
  BY <1>3, <1>4, UnansweredHonest DEF Unanswered
<1>6. next.at \in {"ruling", "creating"}
  BY <1>1, <1>4 DEF BodyOpen
<1>7. QED
  BY <1>1, <1>2, <1>3, <1>4, <1>5, <1>6 DEF Sound, Moves

\* A recording that is discarded, or asks to be confirmed.
LEMMA RecordingSound ==
  ASSUME NEW call, Sound(call), call.at = "heard", NEW at \in {"asked", "done"}
  PROVE  LET next == [call EXCEPT !.at = at]
         IN  Sound(next) /\ next.at = at /\ next.source = "voice"
<1> DEFINE next == [call EXCEPT !.at = at]
<1>1. /\ call \in CallRecord /\ call.source = "voice" /\ call.verdict = None /\ call.tool = None
      /\ call.result = None /\ call.status = None /\ call.said = None
  BY WaitingCall DEF Underway, Unanswered
<1>2. at \in Stages
  BY DEF Stages
<1>3. /\ next \in CallRecord /\ next.at = at /\ next.source = "voice" /\ next.verdict = None
      /\ next.tool = None /\ next.result = None /\ next.status = None /\ next.said = None
  BY <1>1, <1>2 DEF CallRecord
<1> HIDE DEF next
<1>4. Unanswered(next) /\ Honest(next)
  BY <1>3, UnansweredHonest DEF Unanswered
<1>5. QED
  BY <1>3, <1>4 DEF Sound, next

\* A text is dispatched, typed, heard or confirmed.
LEMMA SubmitStep ==
  ASSUME AssistantInv, NEW c \in Call, calls[c].at # "done",
         NEW call, Underway(call), call.verdict = None, call.source \in {"typed", "voice"},
         NEW text, NEW shown \in VoiceRecord, Submit(c, call, text, shown),
         shown.confirm <=> shown.pending # None,
         shown.pending # None => shown.pending # c /\ calls[shown.pending].at = "asked",
         shown.processing => call.source = "voice" \/ \E d \in Call \ {c} : Spoken(d)
  PROVE  AssistantInv'
<1>1. PICK named \in BOOLEAN, open \in BOOLEAN :
        LET next == Understood(call, text, named, open)
        IN  /\ Becomes(c, next)
            /\ recent' = Remembered(next.intent)
            /\ voice' = Settled(next, shown)
  BY DEF Submit
<1> DEFINE next == Understood(call, text, named, open)
<1>2. Moves(call, next) /\ next.intent \in Intents
  BY UnderstoodSound DEF Intents
<1>3. UNCHANGED <<connected, integrations>> /\ TypeOK
  BY DEF Submit, AssistantInv
<1>4. Becomes(c, next) /\ recent' = Remembered(next.intent) /\ voice' = Settled(next, shown)
  BY <1>1
<1> HIDE DEF next
<1>5. recent' \in Seq(Intents) /\ Len(recent') <= RecentLimit
  BY <1>2, <1>3, <1>4, RememberedTypes
<1>6. QED
  BY <1>2, <1>3, <1>4, <1>5, PipelineStep

\* Every step of the assistant and its surroundings keeps the invariant.
LEMMA AssistantStep == AssistantInv /\ [Next]_vars => AssistantInv'
<1> SUFFICES ASSUME AssistantInv, [Next]_vars PROVE AssistantInv'
  OBVIOUS
<1>0. /\ TypeOK /\ \A c \in Call : Sound(calls[c])
      /\ recent \in Seq(Intents) /\ Len(recent) <= RecentLimit
  BY DEF AssistantInv, TypeOK, Intents
<1>1. ASSUME NEW c \in Call, NEW text, TypeCommand(c, text) PROVE AssistantInv'
  <2> DEFINE call == [Fresh EXCEPT !.source = "typed"]
  <2>2. Underway(call) /\ call.source = "typed" /\ call.verdict = None
    BY FreshCall
  <2>3. calls[c].at = "free" /\ Submit(c, call, text, voice)
    BY <1>1 DEF TypeCommand
  <2> HIDE DEF call
  <2>4. voice.processing => \E d \in Call \ {c} : Spoken(d)
    BY <2>3, Shown DEF Spoken, Working, BodyOpen
  <2>5. QED
    BY <2>2, <2>3, <2>4, Shown, SubmitStep
<1>2. ASSUME NEW c \in Call, NEW text, HeardClearly(c, text) PROVE AssistantInv'
  <2> DEFINE shown == [voice EXCEPT !.processing = TRUE]
  <2>1. calls[c].at = "heard" /\ Submit(c, calls[c], text, shown)
    BY <1>2 DEF HeardClearly
  <2>2. Underway(calls[c]) /\ calls[c].source = "voice" /\ calls[c].verdict = None
    BY <1>0, <2>1, WaitingCall
  <2>3. shown \in VoiceRecord /\ shown.pending = voice.pending /\ shown.confirm = voice.confirm
    BY Shown DEF VoiceRecord
  <2> HIDE DEF shown
  <2>4. QED
    BY <2>1, <2>2, <2>3, Shown, SubmitStep
<1>3. ASSUME NEW c \in Call, ProcessVoiceInput(c) PROVE AssistantInv'
  <2> DEFINE next == [Fresh EXCEPT !.at = "heard", !.source = "voice"]
  <2>1. /\ Underway(next) /\ next.at = "heard" /\ next.source = "voice" /\ next.verdict = None
        /\ next.tool = None
    BY FreshRecording
  <2>2. /\ calls[c].at = "free" /\ calls' = [calls EXCEPT ![c] = next]
        /\ voice' = [processing |-> TRUE, confirm |-> FALSE, pending |-> None]
        /\ UNCHANGED <<connected, integrations, recent, conversation>>
    BY <1>3 DEF ProcessVoiceInput
  <2> HIDE DEF next
  <2>3. Sound(next)
    BY <2>1, UnansweredHonest DEF Sound, Underway
  <2>4. voice' \in VoiceRecord /\ ~voice'.confirm /\ voice'.pending = None
    BY <2>2 DEF VoiceRecord
  <2>5. QED
    BY <1>0, <2>1, <2>2, <2>3, <2>4, OneCall DEF Working
<1>4. ASSUME NEW c \in Call, TranscriptionFails(c) PROVE AssistantInv'
  <2> DEFINE next == [calls[c] EXCEPT !.at = "done"]
  <2>1. /\ calls[c].at = "heard" /\ calls' = [calls EXCEPT ![c] = next]
        /\ voice' = [voice EXCEPT !.processing = FALSE]
        /\ UNCHANGED <<connected, integrations, recent, conversation>>
    BY <1>4 DEF TranscriptionFails
  <2>2. Sound(next)
    BY <1>0, <2>1, RecordingSound
  <2> HIDE DEF next
  <2>3. /\ voice' \in VoiceRecord /\ voice'.pending = voice.pending /\ voice'.confirm = voice.confirm
        /\ ~voice'.processing
    BY <2>1, Shown DEF VoiceRecord
  <2>4. QED
    BY <1>0, <2>1, <2>2, <2>3, Shown, OneCall
<1>5. ASSUME NEW c \in Call, HeardStop(c) PROVE AssistantInv'
  <2> DEFINE next == [calls[c] EXCEPT !.at = "done"]
  <2>1. /\ calls[c].at = "heard" /\ calls' = [calls EXCEPT ![c] = next]
        /\ voice' = [processing |-> FALSE, confirm |-> FALSE, pending |-> None]
        /\ UNCHANGED <<connected, integrations, recent, conversation>>
    BY <1>5 DEF HeardStop
  <2>2. Sound(next)
    BY <1>0, <2>1, RecordingSound
  <2> HIDE DEF next
  <2>3. voice' \in VoiceRecord /\ ~voice'.confirm /\ voice'.pending = None /\ ~voice'.processing
    BY <2>1 DEF VoiceRecord
  <2>4. QED
    BY <1>0, <2>1, <2>2, <2>3, OneCall
<1>6. ASSUME NEW c \in Call, HeardUnclearly(c) PROVE AssistantInv'
  <2> DEFINE next == [calls[c] EXCEPT !.at = "asked"]
  <2>1. /\ calls[c].at = "heard" /\ calls' = [calls EXCEPT ![c] = next]
        /\ voice' = [processing |-> FALSE, confirm |-> TRUE, pending |-> c]
        /\ UNCHANGED <<connected, integrations, recent, conversation>>
    BY <1>6 DEF HeardUnclearly
  <2>2. Sound(next) /\ next.at = "asked"
    BY <1>0, <2>1, RecordingSound
  <2> HIDE DEF next
  <2>3. voice' \in VoiceRecord /\ voice'.confirm /\ voice'.pending = c /\ ~voice'.processing
    BY <2>1 DEF VoiceRecord
  <2>4. c # None
    BY NoneAssumption
  <2>5. QED
    BY <1>0, <2>1, <2>2, <2>3, <2>4, OneCall
<1>7. ASSUME NEW text, ConfirmPendingVoiceInput(text) PROVE AssistantInv'
  <2> DEFINE c == voice.pending
             shown == [processing |-> TRUE, confirm |-> FALSE, pending |-> None]
  <2>1. c # None /\ Submit(c, calls[c], text, shown)
    BY <1>7 DEF ConfirmPendingVoiceInput
  <2>2. c \in Call /\ calls[c].at = "asked"
    BY <2>1, Shown
  <2>3. shown \in VoiceRecord /\ ~shown.confirm /\ shown.pending = None
    BY DEF VoiceRecord
  <2> HIDE DEF c, shown
  <2>4. Underway(calls[c]) /\ calls[c].source = "voice" /\ calls[c].verdict = None
    BY <1>0, <2>2, WaitingCall
  <2>5. QED
    BY <2>1, <2>2, <2>3, <2>4, SubmitStep
<1>8. CASE CancelPendingVoiceInput
  <2>1. /\ voice' = [voice EXCEPT !.confirm = FALSE, !.pending = None]
        /\ UNCHANGED <<connected, integrations, calls, recent, conversation>>
    BY <1>8 DEF CancelPendingVoiceInput
  <2>2. /\ voice' \in VoiceRecord /\ ~voice'.confirm /\ voice'.pending = None
        /\ voice'.processing = voice.processing
    BY <2>1, Shown DEF VoiceRecord
  <2>3. TypeOK'
    BY <1>0, <2>1, <2>2 DEF TypeOK, VoiceRecord
  <2>4. VoiceShowsTruth'
    BY <2>1, <2>2 DEF AssistantInv, VoiceShowsTruth
  <2>5. QED
    BY <1>0, <2>1, <2>3, <2>4 DEF AssistantInv
<1>9. ASSUME NEW c \in Call, NEW w \in Wanted, ExecuteCapability(c, w[1], w[2]) PROVE AssistantInv'
  <2> DEFINE call == [Fresh EXCEPT !.source = "workspace"]
  <2>1. PICK complete \in BOOLEAN, open \in BOOLEAN :
          Becomes(c, WorkspaceAnswer(call, w[1], w[2], complete, open))
    BY <1>9 DEF ExecuteCapability
  <2> DEFINE next == WorkspaceAnswer(call, w[1], w[2], complete, open)
  <2>2. calls[c].at = "free" /\ UNCHANGED <<connected, integrations, voice, recent>> /\ Becomes(c, next)
    BY <1>9, <2>1 DEF ExecuteCapability
  <2>4. Underway(call) /\ call.source = "workspace" /\ call.verdict = None
    BY FreshCall
  <2> HIDE DEF call
  <2>5. Moves(call, next)
    BY <2>4, WorkspaceSound
  <2> HIDE DEF next
  <2>6. voice' = Settled(next, voice)
    BY <2>2, <2>4, <2>5 DEF Moves, Settled
  <2>7. voice.processing => \E d \in Call \ {c} : Spoken(d)
    BY <2>2, Shown DEF Spoken, Working, BodyOpen
  <2>8. QED
    BY <1>0, <2>2, <2>5, <2>6, <2>7, Shown, PipelineStep
<1>10. ASSUME NEW c \in Call, NEW next, Becomes(c, next), voice' = Settled(next, voice),
              UNCHANGED <<connected, integrations, recent>>, Moves(calls[c], next),
              calls[c].at \in {"gate", "approval", "tool"} \cup BodyOpen
       PROVE  AssistantInv'
  <2>1. voice.processing => calls[c].source = "voice" \/ \E d \in Call \ {c} : Spoken(d)
    BY Shown DEF Spoken
  <2>2. calls[c].at \notin {"done", "asked"}
    BY <1>10 DEF BodyOpen
  <2>3. QED
    BY <1>0, <1>10, <2>1, <2>2, Shown, PipelineStep
<1>11. ASSUME NEW c \in Call, GateAnswers(c) PROVE AssistantInv'
  <2> DEFINE verdicts == {Authorization(CreatePlan(calls[c].intent), TRUE, decision) : decision \in Answers(calls[c])}
  <2>1. calls[c].at \in {"gate", "ruling"} /\ UNCHANGED <<connected, integrations, recent>>
    BY <1>11 DEF GateAnswers
  <2>2. PICK open \in BOOLEAN :
          \E next \in {Judged(calls[c], verdict, TRUE, open) : verdict \in verdicts} :
             /\ Becomes(c, next)
             /\ voice' = Settled(next, voice)
    BY <1>11, Zenon DEF GateAnswers
  <2>3. PICK verdict \in verdicts :
          /\ Becomes(c, Judged(calls[c], verdict, TRUE, open))
          /\ voice' = Settled(Judged(calls[c], verdict, TRUE, open), voice)
    BY <2>2, Zenon
  <2>4. verdict \in Verdicts
    BY <2>3, AuthorizationTypes, Zenon
  <2>5. Underway(calls[c]) /\ calls[c].source # "workspace"
    BY <1>0, <2>1, WaitingCall DEF BodyOpen
  <2> DEFINE next == Judged(calls[c], verdict, TRUE, open)
  <2>6. Becomes(c, next) /\ voice' = Settled(next, voice)
    BY <2>3, Zenon
  <2>7. Proceeds(calls[c], next)
    BY <2>4, <2>5, JudgedSound, Zenon
  <2> HIDE DEF next
  <2>8. QED
    BY <1>10, <2>1, <2>6, <2>7 DEF Proceeds, BodyOpen
<1>12. ASSUME NEW c \in Call, ApprovalCreated(c) PROVE AssistantInv'
  <2>1. /\ calls[c].at \in {"approval", "creating"} /\ UNCHANGED <<connected, integrations, recent>>
        /\ Becomes(c, Answered(calls[c], "PENDING"))
        /\ voice' = Settled(Answered(calls[c], "PENDING"), voice)
    BY <1>12 DEF ApprovalCreated
  <2>2. Underway(calls[c])
    BY <1>0, <2>1, WaitingCall DEF BodyOpen
  <2>3. Moves(calls[c], Answered(calls[c], "PENDING"))
    BY <2>2, RefusedSound DEF Proceeds
  <2>4. QED
    BY <1>10, <2>1, <2>3 DEF BodyOpen
<1>13. ASSUME NEW c \in Call, NEW result \in {"SUCCESS", "FAILED", "TIMEOUT"}, ToolAnswers(c, result)
       PROVE  AssistantInv'
  <2>1. /\ calls[c].at = "tool" /\ UNCHANGED <<connected, integrations, recent>>
        /\ Becomes(c, Answered(calls[c], result))
        /\ voice' = Settled(Answered(calls[c], result), voice)
    BY <1>13 DEF ToolAnswers
  <2>2. Moves(calls[c], Answered(calls[c], result))
    BY <1>0, <2>1, ToolAnsweredSound DEF Proceeds
  <2>3. QED
    BY <1>10, <2>1, <2>2
<1>14. CASE ConnectionChanges
  BY <1>0, <1>14 DEF ConnectionChanges, AssistantInv, TypeOK, VoiceShowsTruth
<1>15. ASSUME NEW x \in Changes, RegisterIntegration(x[1], x[2]) PROVE AssistantInv'
  <2>1. x[1] \in DOMAIN Offers /\ x[2] \in Statuses
    BY ChangesAssumption
  <2>2. integrations' \in [DOMAIN Offers -> Statuses]
    BY <1>0, <1>15, <2>1 DEF RegisterIntegration, TypeOK
  <2>3. UNCHANGED <<connected, voice, calls, recent, conversation>>
    BY <1>15 DEF RegisterIntegration
  <2>4. QED
    BY <1>0, <2>2, <2>3 DEF AssistantInv, TypeOK, VoiceShowsTruth
<1>16. CASE UNCHANGED vars
  BY <1>0, <1>16 DEF vars, AssistantInv, TypeOK, VoiceShowsTruth
<1>17. ASSUME NEW c \in Call, HeadersArrive(c) PROVE AssistantInv'
  <2>1. /\ calls[c].at \in {"gate", "approval"} /\ Becomes(c, Opened(calls[c]))
        /\ UNCHANGED <<connected, integrations, voice, recent>>
    BY <1>17 DEF HeadersArrive
  <2>2. Moves(calls[c], Opened(calls[c])) /\ Opened(calls[c]).at # "done"
    BY <1>0, <2>1, HeadersSound
  <2>3. voice' = Settled(Opened(calls[c]), voice)
    BY <2>1, <2>2 DEF Settled
  <2>4. QED
    BY <1>10, <2>1, <2>2, <2>3
<1>18. QED
  BY <1>1, <1>2, <1>3, <1>4, <1>5, <1>6, <1>7, <1>8, <1>9, <1>11, <1>12, <1>13, <1>14, <1>15, <1>16, <1>17
  DEF Next, Answer

\* It holds before the first command.
LEMMA AssistantStart == Init => AssistantInv
<1> SUFFICES ASSUME Init PROVE AssistantInv
  OBVIOUS
<1>1. /\ Fresh.at = "free" /\ Fresh.verdict = None /\ Fresh.tool = None /\ Fresh.source = None
      /\ Fresh.result = None /\ Fresh.status = None /\ Fresh.said = None
  BY DEF Fresh
<1>2. Fresh \in CallRecord
  BY DEF Fresh, CallRecord, Stages
<1>3. Sound(Fresh)
  BY <1>1, <1>2, UnansweredHonest DEF Sound, Unanswered
<1>4. calls = [c \in Call |-> Fresh] /\ recent = <<>> /\ conversation = <<>>
  BY DEF Init
<1>5. voice = [processing |-> FALSE, confirm |-> FALSE, pending |-> None]
  BY DEF Init
<1>6. voice \in VoiceRecord /\ ~voice.processing /\ ~voice.confirm /\ voice.pending = None
  BY <1>5 DEF VoiceRecord
<1>7. connected \in BOOLEAN /\ integrations \in [DOMAIN Offers -> Statuses]
  BY DEF Init, Statuses
<1>8. recent \in Seq(Range(Phrases) \cup {"UNKNOWN"}) /\ Len(recent) <= RecentLimit
  BY <1>4, RecentAssumption
<1>9. /\ conversation \in Seq(Call) /\ IsInjective(conversation)
      /\ \A i \in DOMAIN conversation : calls[conversation[i]].at = "done"
  BY <1>4 DEF IsInjective
<1>10. TypeOK
  BY <1>2, <1>4, <1>6, <1>7, <1>8, <1>9 DEF TypeOK, VoiceRecord
<1>11. QED
  BY <1>3, <1>4, <1>6, <1>10 DEF AssistantInv, VoiceShowsTruth

-----------------------------------------------------------------------------
(* What is promised. *)

\* The invariant holds throughout.
LEMMA AssistantHolds == Spec => []AssistantInv
BY AssistantStart, AssistantStep, PTL DEF Spec

\* Every variable keeps its type, the memory of intents its bound, and a conversation holds every
\* answered call at most once: voiceInterface, pipeline, contextManager, conversationManager.
THEOREM TypeCorrect == Spec => []TypeOK
<1>1. AssistantInv => TypeOK
  BY DEF AssistantInv
<1>2. QED
  BY <1>1, AssistantHolds, PTL

\* No words and no integration's capability make a tool with side effects run without a grant:
\* intentParser, capabilityResolver, registry, permissionGate and ToolExecutor.execute.
THEOREM OnlyReadsRun == Spec => []OnlyReadsDispatched
<1>1. AssistantInv => OnlyReadsDispatched
  BY DEF AssistantInv, Sound, OnlyReadsDispatched
<1>2. QED
  BY <1>1, AssistantHolds, PTL

\* What may be concluded from an answer of pipeline, resultProcessor or workspace registry: success and
\* completion of a tool that was called and succeeded; a denial, a refusal and the words of one of
\* none that was called; of a status APPROVAL_REQUIRED only the words tell whether a read ran; and
\* words of success outside COMPLETED may be those of a timeout.
THEOREM AnswersFit == Spec => []AnswersFitRuns
<1>1. AssistantInv => AnswersFitRuns
  BY DEF AssistantInv, Sound, Honest, AnswersFitRuns
<1>2. QED
  BY <1>1, AssistantHolds, PTL

\* The voice interface shows that it processes only while a spoken command is under way, and asks for
\* a confirmation exactly while one waits for it, however recordings overlap: voiceInterface.
THEOREM VoiceIsTruthful == Spec => []VoiceShowsTruth
<1>1. AssistantInv => VoiceShowsTruth
  BY DEF AssistantInv
<1>2. QED
  BY <1>1, AssistantHolds, PTL
=============================================================================
