# Centipede OS: TLA+ models, checks and proofs

Centipede OS is a React and TypeScript desktop shell and local server that talks to a backend
called Kingdom.  What is worth a formal model in it is its control: who may run which tool, how a
connection is kept, how devices, workflows and autonomous routines move between their states
while promises, timers and sockets finish in any order.  The runtime is a single JavaScript event
loop: code between two `await`s runs alone, and everything else interleaves.  The models cut every
handler exactly there.

Paths below are relative to the repository; the TypeScript sources are under `src/`.

## 1. Inventory

| Component | State | Operations | Interacts with | Hard behaviour | What makes it correct |
|---|---|---|---|---|---|
| Tool executor (`src/tools/executor.ts`) | idempotency cache, dead-letter queue, breaker records | `execute`, `reconcileUnknownState` | grants, tamper guard, Kingdom adapter; called by workflows, AI pipeline, workspace | four awaits, a timeout that cancels nothing, bodies no timer bounds, retries, simulated results | nothing runs unauthorised, a grant serves once, results are honest, no effect is lost |
| Capability grants (`src/agent/grants.ts`) | map of grants | issue, verify (and consume), revoke, purge | executor, incident manager, UI | purge against reuse, expiry during use | single use for ever |
| Approval tamper guard (`src/security/approvalTamperGuard.ts`) | approved payload hashes | register, verify | executor | payload changed after approval | only the approved payload runs |
| Kingdom connection (`src/api/kingdomAdapter.ts`) | connection state, failure count, timers, WebSocket, observation generation | heartbeat, reconnect, setBaseUrl, every API call | everything that asks Kingdom | overlapping handshakes, stray timers, late answers of old endpoints, socket races | never CONNECTED to a foreign protocol, never stuck, no stale observation |
| Device pairing (`src/security/deviceTrust.ts`, `src/server/`) | devices, pending codes, token index, rate windows | initiate, confirm, validate, revoke, list, cleanup | HTTP routes | expiry, attempt limit, revocation against pending codes | a token works exactly while its device is active |
| Workflow engine (`src/workflow/`) | definitions, runs, persisted copies | register, propose, execute, export, recover | executor | budgets, compensation, approval waits, crash | no run outside its budget or before its dependencies |
| Autonomy engine (`src/ai/autonomyEngine.ts`, pipeline, permission gate) | level, kill switch, loop, history | set level, kill, reset, start, stop, executeRoutine | AI pipeline, incident manager | kill switch during a tick, overlapping ticks, cycle detection | nothing starts after the kill switch, ticks do not pile up, the loop is never silenced for good |
| Assistant (`src/ai/`: voice interface, parser, resolver, planner, permission gate, action executor; `src/workspace/`) | voice state, recent intents, conversation, integrations | type, speak, confirm, cancel, call a capability of an integration | tool executor, Kingdom's gate, UI | overlapping recordings, late transcriptions and verdicts, a connection that changes under way | only reads run without a grant, what may be concluded from an answer is so, every command is answered unless a body stalls |
| Skills and learning (`src/learning/`, `src/skills/`) | versions of skills, manifests, memories, facts and their audit | register, propose, promote, roll back, import, execute, remember, supersede, correct, restore | UI, Kingdom's memory, root actions | a rollback that fails half way, the same number twice, imports that shadow | promotion and rollback add no active version, an import decides nothing, trust never falls |
| Selected knowledge sources (`src/server/selectedKnowledgeSources.ts`) | one checkpoint file | add, revoke, scan, extract | file system, other server processes, the owner's folders | compare and rename across processes, crash, loss of power, folders replaced under a scan | the checkpoint is whole, answered changes are kept, no excerpt of a revoked source |
| Media capture (`src/platform/mediaCapture.ts`, the perception panel) | stream and generation of a controller, what the panel shows | start, stop, dispose, snapshot | browser permissions, page visibility | permission answered late, devices taken away | no track runs that the panel cannot stop |
| Desktop vision (`src/platform/desktopVision.ts`) | opportunities, emergency stop, elevation, log | frames, elevate, drop, stop, reset, execute | skills, UI | an elevation across an emergency stop | root only under a fresh elevation |
| Kingdom read proxy (`src/server/kingdomReadProxy.ts`, `src/api/kingdomObservations.ts`, the status panel) | refreshes under way, what the panel shows | read, summarise, receive, render | Kingdom, adapter | observations that age on the way, refreshes that overlap | what is called current was received lately, over this connection, and its headers in time |
| Updates (`AppUpdateManager.tsx`, `src/platform/appUpdate.ts`) | offer, attempts in session storage | check, offer, reload | server, browser cache | overlapping checks, a cache that answers with the old page | no endless reload, no large update unasked |
| Search aggregation, ingestion, platform probes, configuration, other UI | lists, tables | pure functions, timers, rendering | the above | none of their own (section 7) | unit tests |

Every hazard of this code is listed with its line and the properties aimed at it in
`PROJECT.json` under `hazards`.

## 2. Modules

| Module | Models |
|---|---|
| `CapabilityGrants` | the grant engine: map, issue, verify and consume, revoke, expiry, purges |
| `CircuitBreaker` | one breaker record per tool |
| `ToolExecution` | `ToolExecutor.execute` for any number of concurrent invocations; extends the two above and composes the tamper guard |
| `ExecutionAuthority` | abstract specification: what grants and executor promise together |
| `MCToolExecution` | small instances: tools, offers and workloads |
| `ToolExecutionProofs` | theorems of `ToolExecution` and `ExecutionAuthority` |
| `KingdomConnection` | the adapter's connection state machine |
| `MCKingdomConnection` | small instances |
| `KingdomConnectionProofs` | theorems of `KingdomConnection` |
| `DeviceTrust` | pairing of companion devices, with its small instances in the configurations |
| `DeviceTrustProofs` | theorems of `DeviceTrust` |
| `WorkflowEngine` | workflow definitions, runs and the persistence store |
| `MCWorkflowEngine` | small instances: five definitions that meet every way to be blocked |
| `WorkflowEngineProofs` | theorems of `WorkflowEngine` |
| `AutonomyEngine` | autonomous routines: switches, loop, ticks and calls, with the pipeline and its permission gate |
| `MCAutonomyEngine` | small instances: five routines that end in every way |
| `AutonomyEngineProofs` | theorems of `AutonomyEngine` |
| `Common` | what the smaller modules share: the absent value and the first match of a search |
| `Planning` | what parser, resolver, planner, registry, gate and result processor decide: tables and operators, no state |
| `Assistant` | typed and spoken commands and workspace capabilities, from the words to the answer; extends `Planning` |
| `MCAssistant` | small instances: utterances, capabilities and changes of an integration |
| `AssistantProofs` | theorems of `Assistant`, with what they need of the tables of `Planning` |
| `KnowledgeSources` | selected folders and their checkpoint, cut at the file system calls |
| `MCKnowledgeSources` | two server processes |
| `KnowledgeSourcesProofs` | theorems of `KnowledgeSources` |
| `SkillLibrary` | the versions of one skill and the Skills screen |
| `SkillTrust` | skill manifests: import, authoritative registration, what may execute |
| `MemoryStore` | the memory store, and the user's facts with their audit and backup |
| `MediaCapture` | capture controllers, their prompts and the perception panel |
| `DesktopVision` | root actions on the desktop, elevation and emergency stop |
| `KingdomReads` | an observation on its way from Kingdom to the status panel |
| `AppUpdates` | updates of the browser app |
| `MCLocalParts` | small instances of the last seven components, one driven per behaviour; extends them all |
| `LocalPartsProofs` | theorems of the last seven components, a section for each |

### Tool execution

`pc[r]` says where the call of `execute()` for invocation `r` is: `idle`, waiting in `creating_approval` or
`at_kingdom` for the headers of Kingdom's answer and in `reading_approval` or `reading_ruling` for its body,
`running` (inside the `Promise.race`), or `answered`. The two are told apart because `fetchJson` aborts a
request without headers and clears that timer when they arrive: nothing ends the wait for a body
(`HeadersArrive`). `Execute(r)` is everything up to the first await, one disjunct for each early return; the
other actions are the continuations. `call[r]` is the dispatched promise and outlives the answer: an `open`
call may still become `done` after the timeout was reported, because nothing cancels it. Grants are sets of
identifiers (`present`, `consumed`, `revoked`, `expired`); the verification and the consumption are one step,
as they are in one turn. Data are abstracted to equality: a parameter object stands for its own SHA-256 hash,
a grant's scope is the set of resources it accepts, the clock is the moment at which an expiry or a cooldown
passes. Tools in `Local` run on the host within the dispatching turn, so they are settled before the timer is
armed. Those not in `Hosted` find no Node module (in the browser): they make a result up, have no effect, and
the answer is a SUCCESS with the verification state SIMULATED, which the model keeps apart as the status
`SIMULATED`, in the cache too. A tool in `Masked` (`get_task`) answers a request that failed while the
connection is down by a made-up placeholder, and that counts as VERIFIED. `HonestOutcomes` says what each kind
of success stands for.

`ExecutionAuthority` is the promise in four variables: live grants, known grants, who holds which, and
which privileged calls have begun.  `ToolExecution` refines it with `live <- Live`,
`known <- issued`, `holder <- spent` and `begun <- Begun`.

### Kingdom connection

A fetch is `free`, `sent` (the first await) or at the second await, of its `body` or of the text of an
`error` (400, 422 and the other statuses without a case of their own), for which no timer is armed.  Any
number of polls, handshakes, ordinary calls and reads may overlap; those that end do so in `recordSuccess`,
`recordFailure`, a 401 or another error status.  `timer` is what `reconnectTimer` refers to, `orphans`
counts armed timers nothing refers to any more (an overlapping handshake overwrote the reference).
Sockets are objects of their own, so that an old socket's `onclose` can run after its successor opened.
`fresh[r]` says that the observation generation is still the one read `r` started in.  States that are
entered and left in one turn (DISCOVERING, NEGOTIATING, VALIDATING) are not visible between steps;
DEGRADED cannot be reached, because only `true` is ever stored in `discoveredCapabilities`.
A 2xx body that ends is taken to be a well-formed status.

### Device pairing

Every operation of `DeviceTrustManager` is synchronous, so each is one action, and the opportunistic
clean-up at its start is part of it (`Kept`).  `state`, `token` and `pending` are the two maps,
`index` is the token index kept beside them.  Device identifiers and tokens are fresh for ever; a
pairing code may be drawn again while an earlier one is pending, as six random digits can.  The clock
is `CodeExpires` and `CleanupDue`.  `named` and `issued` are history, for the properties about the past.

### Workflow runs

`running[r]` is the local run object of an `executeWorkflow()` that awaits the executor, with its
locals; `place` tells whether the step or its compensation is awaited.  `ExecuteWorkflow` and
`StepSucceeds` go through the head of the loop (`Continue`), one disjunct per way on or out, up
to the next await.  `workflows` is the engine's map and `savedWorkflows` the store's, because
`registerWorkflow` reads one and `getWorkflow` both; runs are set in engine and store together and are one
variable.  `file` is the last exported text.  The executor may answer anything; its own behaviour
is `ToolExecution`.  A signature is taken to fail exactly when the text was changed, and a
refused text changes nothing, so refusals are not steps.  That time is over budget may be found at any
head of the loop.  `started` and `effects` are history.

### Autonomous routines

`thread[t]` is one run of the interval's callback (a tick) or one call of `executeRoutine()` from
elsewhere: which routine it is at, whether this is the retry, and the await it stands at.  Threads are
cut at every await, also at those that settle without input or output, which only adds interleavings.
`Enters` is `executeRoutine()` up to its await, `Proceeds` the loop over the routines; `Remediate` is the
`catch` with the retry.  The words by which `incidentManager` picks a remedy occur in none of
the errors a routine can end in, so the remediation always reports success and there is exactly one
retry.  What the planner makes of a prompt (`capability`, `risky`, whether a tool exists) is an
attribute of the routine.  The runtime is measured from a start time that overlapping runs share, so a timed
routine may be found over its budget at any end.  Kingdom may answer anything; what the tool executor does is
`ToolExecution`.  `activeRunId` names the thread whose run it is.  `stops` and
`repeats` are history.

### Assistant

A call is a record: where it stands (`heard`, `asked`; `gate` and `approval` for the headers of Kingdom's
answer, `ruling` and `creating` for its body; `tool`, `done`), where it came from, and what became of it.
`Planning` holds the decisions as the code's tables (phrases, tools, risks, offers of the integrations);
`Understood`, `Judged`, `Routed`, `Entered` and `Answered` are the code between two awaits, applied to a
call's record, so that each action is one turn. Words are the members of a table of phrases, one for each
branch of the parser; parameters are only complete or not. The executor is cut down to what it answers a call
without a grant (`Entry`); an open circuit may refuse at any time. Voice state and conversation are shared by
all calls, which is where recordings that overlap meet.

### Selected knowledge sources

Every call of the server is synchronous, but other processes, the folders' owner, a crash and a loss of
power act between its file system calls, so it is cut there: load, open, read, compare, write, synchronise,
rename, synchronise the directory.  `disk` has the checkpoint as it is seen, whether its bytes are on the
disk, and what a loss of power would leave; on a platform that does not synchronise directories the last
never advances.  A folder is which directory it is and which edition of its files; an excerpt is the folder
it was read from.  `kept` (the newest answered change) and `raced` (two saves were past their comparison at
once) are history.

### Local parts

`SkillLibrary` is the array of versions with the screen's `base` and `candidate`; an entry's position is its
age and its number may repeat. Registrations come from outside with any number and status, so several versions
may be active; without a `base` the screen shows an invented 1.0.0, about which nothing is said. `SkillTrust`
is the list of manifests per skill, in which the first of a version decides. `MemoryStore` has the entries
with rank, version and lifecycle, what Kingdom was sent, and the facts with the count of their corrections; a
behaviour is what happens between two loads of the page, which empty all of it, and a restore takes any list
of facts, as the code does. In `MediaCapture` a mount of the panel makes a new controller; a prompt remembers
the controller and generation that asked and is answered at any later time. `DesktopVision` has a clock and
the expiry of the elevation. `KingdomReads` has a clock and follows one observation through summary, headers,
body and rendering; timers are on time, which is what bounds its ages, except over the body, which may take
any time and is received only then (`opened` is history: when the headers came). `AppUpdates` has the served
build, the loaded page, the requests under way and the attempts in storage, which the browser may refuse.

## 3. Runs

| Run | Instance | Shows |
|---|---|---|
| `tool_execution` | 3 invocations, 2 grants, 4 tools (one simulated, one masked), threshold 2; 665 thousand states | types, single use, no unauthorised effect, honest outcomes, no replay after a success, refinement of `ExecutionAuthority` |
| `tool_answers` | 2 invocations, every way to be refused, threshold 1; 146 thousand states | the inductive invariant of the proofs, an open circuit spends nothing, and every invocation is answered or left with a body that Kingdom does not end |
| `kingdom_offline` | as the first | violation: the documented rule that Kingdom is asked before every privileged call |
| `kingdom_connection` | 2 endpoints, a poll, 2 handshakes, a read, 2 sockets, failure limit 2, 1 stray timer; 543 thousand states up to symmetry | the adapter's safety properties |
| `kingdom_recovery` | 1 endpoint, a poll, a call, 2 handshakes, 1 socket; 184 thousand states | recovery while the heartbeat runs, once Kingdom answers and leaves no body open |
| `device_pairing` | 3 devices, 3 codes, 3 tokens, 5 attempts, forced clean-up above 2 codes; 21 thousand states | index and records agree, codes pair one new device once, ended sessions never return |
| `revoked_pairing` | the same | violation: the documented immediate effect of a revocation |
| `workflow_runs` | 2 runs, 5 definitions under 2 identifiers; 108 thousand states | dependencies, budgets, true and final outcomes, and every run ends if the executor answers |
| `autonomy_loop` | 2 threads, 5 routines, history of 3, one restart of the loop; 2.1 million states up to symmetry | ticks overlap only by stops, the flag is never left up, no ended run stays active, repetition is bounded, every tick goes forward |
| `assistant` | 2 calls, the utterances and integrations of `MCAssistant`, 1 recent intent; 27 thousand states | only reads are dispatched, answers allow the stated conclusions, the voice interface shows what is so, every understood command is answered or left with a body that Kingdom does not end |
| `local_parts` | seven parts, one per behaviour; 718 thousand states up to symmetry | one property of each part, named in `MCLocalParts` |
| `knowledge` | 2 processes, 1 folder, 2 files of which 1 is retained, 2 selections, 3 revisions, 1 edit or replacement; 464 thousand states up to symmetry | the checkpoint is whole, answered changes are kept, excerpts are current |

Bounds.  Two invocations suffice for every race on a grant, a key or a breaker; the third lets two race
after a third succeeded or opened the circuit.  Two grants are needed for two privileged calls under one
key.  The failure threshold 2 in `tool_execution` and 1 in `tool_answers` (3 in the code) and the failure
limit 2 (as in the code) are the least that tell one failure from enough.  Two handshakes are the least that
overwrite a timer, two sockets the least that close out of order, two endpoints the least that can be
confused.  `MaxOrphans` bounds the stray timers; a handshake that would arm one more does not fail in the
model.  Symmetry (`kingdom_connection`: handshakes and sockets; `autonomy_loop`: threads) permutes what no
definition tells apart, and is used only for invariants and action properties.

Three devices let a code be drawn for a second device while a third is paired; the attempts are those of
the code, and the forced clean-up (20 in the code) is scaled to what three codes can exceed.  Two workflow
runs are the least that use two versions of one definition at once; the five definitions have
one that runs through, one over its budget of calls, one with an unknown capability, one with a
dependency on a later step and one with too many steps, and between them every kind of compensation.

Two threads are the least in which ticks overlap, a call overlaps a tick, or two runs share the run
fields.  The five routines are one that succeeds or runs out of time, a disabled one, one that needs an
approval, one without a tool and one that is not understood.  A history of 3 (50 in the code) is what the
cycle check looks at, and makes the limit bite; after `MaxStops` stopped loops none is started, so one
restart over a tick under way happens and `stops` stays finite.

Two calls of the assistant are the least in which recordings overlap, or a command overlaps a workspace
capability; one recent intent makes the memory drop another. One folder and two files let a scan be refused
half way, an entry be kept while another is read, and the limit of excerpts bite; a second selection of the
same folder follows a revocation. Three revisions let a second process save between another's load and its
comparison, and again. Three prompts are the least in which one is stale, one is asked by a controller that is
gone and one is current; two refreshes and two update checks are the least that end out of order. The clocks
of `KingdomReads` and `DesktopVision` run one step past the ages and elevations that their properties allow.
The seven parts of `local_parts` share no state, so a behaviour drives one of them and their state spaces add
up instead of multiplying.

Deadlock is checked where the system never stops (`workflow_runs`: a state can always be exported;
`autonomy_loop`: the user can always turn a switch; `assistant`: the connection can always change;
`knowledge`: power can always be lost). Elsewhere invocations, connections and devices come to rest, and
that is no error.

Fairness.  The event loop runs the continuation of a settled promise and fires timers and intervals that are
armed: weak fairness of those steps.  `fetchJson` aborts a request whose headers take ten seconds, so a
request without headers ends, whatever Kingdom does; its abort timer is cleared with the headers
(`kingdomAdapter.ts:306`), so nothing makes a body end, of an answer (341) or of an error (313, 335), and no
model assumes that it does. What follows from a stalled body is therefore in the properties:
`EveryCallAnswered` and `CommandsAnswered` allow a call to stay at one (the creation of an approval or
Kingdom's ruling; the tool itself is raced by a timer, body or no body), and `RecoversWithHeartbeat` has the
premise that no body of a handshake or poll stays open for good.  Its other premises are that the heartbeat
runs on, because a change of endpoint stops it (section 5), and that requests are answered as they should be
from some time on (`KingdomIsBack`).  Nothing is assumed of a dispatched remote tool, of the user or of the
network.  That the executor answers a workflow's call is the only fairness of `workflow_runs`: `RunsEnd` is
conditional on it, and `EveryCallAnswered` shows of the executor how far it is so.

## 4. Proofs

TLAPS checks, for any number of invocations, grants, tools, endpoints, fetches, sockets, devices, runs,
threads and processes:

- `ToolExecutionProofs`: `TypeCorrect`; `BookkeepingHolds`, the inductive invariant; from it `SingleUse`,
  `Authorised`, `HonestSuccess`, `NothingSilent`, `OutcomesAreHonest` (the two together), `NoReplay`,
  `CooldownIsFree`; `Implements`, the refinement of `ExecutionAuthority`; `PromiseHolds`, that the abstract
  authority begins one privileged call per grant; and `OneCallForEachGrant`, that so does the executor, by the
  refinement.
- `KingdomConnectionProofs`: `ConnectionTypes`, `IncompatibleIsShut`, `FailingIsDropped`, `ConnectedIsUsable`
  (the two together), `NeverStuck`, and `ObservationsAreCurrent`.
- `DeviceTrustProofs`: `PairingHolds`, the inductive invariant; `PairingTypes`, `TokensMatchDevices`,
  `CodesNameNewDevices`, `PairedOnce`, `PairingsAreAccounted` (the three together), and
  `EndedSessionsStayEnded`.
- `WorkflowEngineProofs`: `BookHolds`, the inductive invariant; `WorkflowTypes`, `DependenciesHold`,
  `BudgetHolds`, `BoundsHold` (the two together), `RunsAreHonest`, `OutcomesAreFinal`, and
  `OutcomesAreHonest`.
- `AutonomyEngineProofs`: `AutonomyTypes`, `KillSwitchIsKept`, `ActiveRunIsUnderWay`, `FlagIsCleared`,
  `OverlapsAreBounded`, `LoopIsCoherent` (the four together), `ThreadsGoForward`, and `RepetitionIsBounded`,
  for any threads, routines and history limit.
- `KnowledgeSourcesProofs`: `CheckpointStaysWhole`, `AnswersSurvive` and `ExcerptsAreCurrent`: all that the
  `knowledge` run checks, for any processes, folders, files and limits, and for both kinds of platform.
- `AssistantProofs`: `TypeCorrect`, `OnlyReadsRun`, `AnswersFit` and `VoiceIsTruthful`: the four invariants of
  the `assistant` run, for any calls, utterances, wanted capabilities and changes of integrations, over the
  tables of the code.
- `LocalPartsProofs`: what `local_parts` checks of each of the seven parts, for any constants:
  `VersionsAreHonest` (`SkillLibrary`), `RegistrationIsNoDecision` (`SkillTrust`), `MemoryIsAccountable`
  (`MemoryStore`), `CaptureStaysUnderControl` (`MediaCapture`), `RootIsElevated` (`DesktopVision`),
  `CurrentStaysFresh` (`KingdomReads`) and `UpdatesStayUnderControl` (`AppUpdates`).

None of the executor's safety invariants is inductive alone.  That two calls never share a grant needs that
a spent grant is consumed for good and belongs to one invocation (`GrantBook`); that a call is authorised
needs what each place in `execute()` implies (`CallBook`); that a cached success is real needs that every
result in the cache comes from a call of its key that backs a success of this kind, verified or simulated
(`CacheBook`, `Backs`); that no effect is silent needs that a call
that may still land is awaited, reported or recorded (`LetterBook`).  Their conjunction with the types and
the breaker's coherence is preserved by every step.  The adapter's three invariants are each inductive with
the types; the property of observations needs that a read of the current generation was sent to the current
endpoint.

For devices, the index is coherent because a pending code only names devices that were never paired, so
that a confirmation cannot displace a token, and codes stay so because tokens and identifiers are fresh:
`PairingBook` joins the three.  For workflows, `RunBook` says of a run under way what its history and its
locals have in common (`Under`: the effects are exactly the steps before the current one, whose
identifiers are the completed ones), of a recorded run that its record is true (`Honest`), and of an
exported record that it is the recorded one: without the last, a recovery could bring back a lie.

The autonomy invariants are inductive with the types.  Their proofs share lemmas on what a step does to the
set of ticks (`TickSwitches`, `TickSteps`): it adds one and raises the flag, removes one and clears it, or
leaves both alone, except that stopping a loop clears the flag and is counted; the two tick invariants
follow by cases and the cardinality of that set.  That repetition is bounded needs two things: the end of
the history is as long a repetition as was counted (`Repetition`), so the cycle check sees it; and from
three on, the repetition and the runs under way (`Flight`) together never exceed two and the number of
threads, because no run begins any more.

The checkpoint of the knowledge sources is whole because every list under way in a call is (`CallsWhole`),
with the files of a scan opened in the directory that was selected and its source not revoked.  Answered
changes need more (`Ordered`): a call's list continues the state it loaded, which is still the one that is
seen when the revision is; between comparison and rename there is at most one call, unless two saves raced;
and the durable state continues what was answered.  `Continues` is reflexive and transitive, which carries
the last two over any number of saves.  The proof shows that the overlap of two saves is the only way to
lose an answered change.

That whatever is captured is under the panel's control is inductive with seven more facts (`CaptureInv`): a
running stream was asked for by the mounted controller and is the one it holds; no prompt
is of a later generation than its controller's (`PromptsAreDated`), and of the controllers that were ever
mounted only the mounted one is not disposed, so a new generation or a disposal makes every open prompt deaf
(`ReleasedParts`); and a prompt whose answer still counts is the only one, while the panel shows that it is
requesting.

The assistant's invariant (`AssistantInv`) says of each call what its place implies (`Sound`): before it is
answered it has neither result nor words, only a call that was handed to a tool names one, such a tool has no
effects, and an answer fits what was called. The last needs that the tables are frank: every tool a search can
find either has no effects or is not declared to read only (`MakersAreFrank` and the lemmas after it), and the
executor runs nothing else. The voice interface needs no more than types and `Sound`: a spoken command that is
under way has its source, so that the interface is told when it is answered.

Of the seven parts two need nothing but their types and one fact. Root privileges: an elevation that has not
been dropped was asked for after the last emergency stop (`ElevatedSinceStop`). Skill trust: a registration
appends, so the manifest that a search finds first stays the same (`FirstStays`). Versions of a skill and
memories: the properties themselves are inductive with the types (`LibraryInv`, `MemoryInv`), because
promotion and rollback set the version they make active as the one the screen shows, and a restore raises what
it may claim with what it brings. Observations: the age of what is shown as current splits at the proxy, the
headers, the receipt and the rendering, and each part is bounded where it is measured, the body alone is not
(`ReadsInv`). Updates: a request may reload the page only for a newer version, of the same line and not tried
in vain unless the user asked (`RequestsWarranted`), and where storage works it remembers every version that
was reloaded for and did not arrive (`FutileRemembered`). Searches for the first or last match are shared
lemmas (`EarliestIsFirst`, `LatestIsLast`), from the well-foundedness of the natural numbers.

The assumptions are those on the constants named in the modules (`NoneAssumption`,
`ThresholdAssumption`, `ToolAssumption`, `InputAssumption`, `ConnectionAssumption`, `PairingAssumption`,
`WorkflowAssumption`, `AutonomyAssumption`, `CaptureAssumption`, `UtterancesAssumption`, `ChangesAssumption`,
`RecentAssumption`, `LibraryAssumption`, `NeedsAssumption`, `MemoryAssumption`, `VisionAssumption`,
`LimitsAssumption`, `VersionsAssumption`): absent values
differ from real ones, limits are natural numbers, and the inputs have their types.

Model-checked only: liveness (`EveryCallAnswered`, `RecoversWithHeartbeat`, `RunsEnd`, `CommandsAnswered`),
which is beyond TLAPS here.  Every other property of the passing runs is a theorem.

## 5. Where the code and its documents disagree

Checked by a run:

1. Offline, privileged calls skip Kingdom's gate (`kingdom_offline`; executor.ts:305).
2. A revoked device is active again once its pending code is confirmed (`revoked_pairing`;
   deviceTrust.ts:134).

Seen while modelling, and described here without a run.  The models contain the behaviour; no property
contradicts it.

- One idempotency key can take effect twice when two invocations under it are dispatched before either
  succeeds (executor.ts:342, 378), against docs/DOOMSDAY_SECURITY_REPORT.md:112 and
  tests/unit/chaos.test.ts:25. `NoReplayAfterSuccess` is what does hold.
- After a change of endpoint the adapter does not reconnect by itself while no heartbeat runs
  (kingdomAdapter.ts:505), against docs/operations/PRODUCTION_RUNTIME_GUIDE.md:24 and
  docs/FAILURE_RECOVERY_DRILL_REPORT.md:16.
- The kill switch does not stop a routine that waits for its permission (autonomyEngine.ts:76-82), against
  docs/USER_QUESTIONS.md:25.
- Workflow checkpoints reach the store only when a run ends (engine.ts:225), against
  docs/OS_COMPLETENESS_REVIEW.md:47; and after a recovery an active version can be changed in place
  (engine.ts:35), against the comment before it.

Other behaviour a reader of the code may not expect, all of it in the models:

- Stalled bodies: `fetchJson` has no timer once the headers are there (kingdomAdapter.ts:306). If Kingdom
  begins an answer and does not end it, `execute()` hangs before the dispatch, at the creation of an approval
  or at the gate, and with it the command or workflow run that awaits it; a handshake at the text of a 400,
  422 or 5xx keeps `isReconnecting` set with no timer behind it and silences the heartbeat, also after Kingdom
  is back, unless another request succeeds; and an observation whose body is late is stamped when it ends and
  shown as current however old it is (kingdomAdapter.ts:148-152).
- Simulated results: in the browser the local tools answer SUCCESS for what did not happen (executor.ts:482,
  498, 510, 547), marked `verificationState` SIMULATED. Of the callers only the workflow engine looks at the
  mark (engine.ts:238), for its history, not for its checkpoint or the run's status; the action executor and
  the workspace registry drop it. The placeholder `get_task` returns offline counts as VERIFIED, is cached
  under its key, and is what a retry under that key gets when Kingdom is back.
- Assistant: Kingdom's verdict APPROVAL_REQUIRED on a read is executed anyway, and the message keeps that
  status although the read ran (pipeline.ts:90-106), so that the screen says "Action Blocked by Kingdom
  Security" (CentipedeAI.tsx:169-174) beside its result; a TIMEOUT is worded like a success by
  `resultProcessor` (17-33). `AnswersFitRuns` names both. A message that is not understood is COMPLETED; the
  resolver answers QUERY_STORAGE with the capability "none", so its tool is never reached; kingdom.update,
  restart and rollback have no tool; workspace calls never ask Kingdom, and an integration in ERROR or
  RESTRICTED is used; of two recordings the first to end clears `isProcessing`.
- Skills: `registerSkill` refuses only a number that is active, so a second version with another number may be
  registered as ACTIVE (skillManager.ts:9-15), and the screen may then show another one than `getActiveSkill`
  returns; when there is none it shows a made-up "Web Scraper Engine v1.0.0 ACTIVE" (SkillsApp.tsx:80-96). A
  candidate proposed after a rollback repeats a number, and its promotion activates the older entry with it; a
  rollback without a predecessor leaves no version active (skillManager.ts:103).
- Memories: `supersede` marks the old entry before a record that may throw; confirming a fact again starts its
  version anew; restoring a backup revives forgotten facts, and as any list of facts is taken
  (userKnowledgeStore.ts:82-93) while the audit is neither exported nor kept over a reload, a restored fact
  may have more versions than the audit has corrections.
- Knowledge sources: two processes between comparison and rename lose an update, which
  docs/implementation/SELECTED_KNOWLEDGE_SOURCES.md:52-56 says itself. A save that fails after its rename
  answers an error although the change is made, and on Windows a loss of power may undo an answered change.
- Kingdom's panel: an older refresh that ends later replaces a newer one's observations.
- Kingdom connection: failures of requests sent before a recovery are counted after it, and an old socket's
  `onclose` clears the field of its successor (kingdomAdapter.ts:406, 543).
- Autonomy: three runs of one capability block every later routine, for ever (autonomyEngine.ts:235).
- Updates: a small update whose automatic reload was already tried is offered without a button that would try
  it again.

## 6. How the project was ordered

Tool execution, the Kingdom connection, device pairing, workflow runs and autonomous routines came first,
each with its proofs; then the assistant that feeds them, the knowledge sources with their file system, and
the local parts. The questions are asked in as few runs as answer them: small parts share a run, and a run
whose question a later one includes goes.

## 7. Not modelled

- Search aggregation: six providers asked at once, each raced against a timer of its own; the timers of 3 s
  always end before the 5 s of the whole search, and the button is disabled while a search runs, so no
  interleaving is left to explore.
- Ingestion: a pure transformation of one uploaded document and a list it is added to.
- Configuration and version: constants and their validation.
- User interface: rendering and event handlers.  What they call appears as actions; the panels with a
  protocol of their own (Skills, perception, Kingdom status, updates) are modelled.  Two facts seen on the
  way: in the first-run wizard an older connection check that ends later overwrites the status of a newer
  address, and after `cancel()` the browser may keep speech paused, so that Speak does not start while
  Resume is disabled.
- Of modelled components: the forty endpoint wrappers of the adapter (all are `ApiCall`), its schema
  warnings and diagnostics; the rate windows and header checks in front of the pairing routes;
  `reconcileUnknownState`, which only reads; the context engine and the plan validator, which the
  pipeline does not call; probes of the platform; the text of files, messages and logs.
- Cryptography: a hash is taken to be injective, and random identifiers not to repeat unless a module says
  otherwise.
