---------------------------- MODULE ToolExecution ----------------------------
(***************************************************************************)
(* ToolExecutor.execute (src/tools/executor.ts) as it runs for several     *)
(* invocations at once.  The handler is cut at its awaits: everything from *)
(* the entry to the first await is one step, the continuation of each      *)
(* await is one step, and steps of different invocations interleave.       *)
(* Composed with the grant engine, the circuit breaker and the approval    *)
(* tamper guard (src/security/approvalTamperGuard.ts), whose               *)
(* operations are synchronous and so are parts of those steps.             *)
(***************************************************************************)
EXTENDS CapabilityGrants, CircuitBreaker

CONSTANTS
  Request,          \* invocations, one call of execute() each
  Registered,       \* tools of the registry
  ToolDef,          \* category, risk class and approval flag of those
  Local,            \* tools that run on the host within the dispatching turn
  Hosted,           \* those whose Node module is there: none of them in a browser
  Masked,           \* reads whose lost request the adapter answers by a placeholder
  IdemKey,          \* caller-supplied idempotency keys
  Offers,           \* ways the grant ids' terms may be chosen
  Workloads,        \* sets of invocations that callers may make
  MaxChainDepth     \* maxChainDepth

ASSUME ToolAssumption ==
  /\ NONE \notin Request
  /\ Registered \subseteq Tool
  /\ Local \subseteq Tool
  /\ Hosted \subseteq Local
  /\ MaxChainDepth \in Nat
  /\ \A t \in Registered :
       /\ ToolDef[t].category \in
            {"READ_ONLY", "MUTATING", "EXTERNAL_SIDE_EFFECT", "PRIVILEGED"}
       /\ ToolDef[t].risk \in {"LOW", "MEDIUM", "HIGH", "CRITICAL"}
       /\ ToolDef[t].requiresApproval \in BOOLEAN
  /\ \A t \in Masked \cap Registered : ToolDef[t].category = "READ_ONLY"

VARIABLES
  approvals,        \* the tamper guard's approvedPayloadHashes
  connected,        \* adapter.getConnectionState() = 'CONNECTED'
  req,              \* the invocation each call carries, fixed by its caller
  pc,               \* where each call of execute() is
  answer,           \* the status it returned
  call,             \* the promise of dispatchToolCall
  cache,            \* idempotencyCache: the result of a success for its compound key
  deadLetters,      \* invocations with a dead-letter entry
  spent,            \* history: the grant the invocation's verification consumed
  ruling            \* history: what the Kingdom gate said

callVars == <<call, cache, deadLetters>>
authVars == <<present, issued, consumed, revoked, expired, spent>>
givens == <<terms, req>>
vars == <<grantVars, breaker, approvals, connected, req, pc, answer,
          call, cache, deadLetters, spent, ruling>>

-----------------------------------------------------------------------------

\* A ToolInvocationRequest.  `complete' says that the tool's required
\* parameters are there; `hash' is req.parameterHash || computeParameterHash.
Invocation == [tool       : Tool,
               depth      : Nat,
               complete   : BOOLEAN,
               grant      : Grant \cup {NONE},
               approval   : Approval \cup {NONE},
               capability : Capability,
               agent      : Agent \cup {NONE},
               bound      : [BoundField -> BoundValue \cup {NONE}],
               params     : Params,
               hash       : Params,
               resource   : Resource,
               key        : IdemKey \cup {NONE}]

ASSUME InputAssumption ==
  /\ Offers \subseteq [Grant -> Terms]
  /\ Workloads \subseteq [Request -> Invocation]

\* The two questions put to Kingdom have two awaits each: for the headers, which the
\* adapter aborts, and for the body (`reading_'), which nothing aborts.
Place == {"idle", "creating_approval", "reading_approval", "at_kingdom", "reading_ruling",
          "running", "answered"}
BodyOpen == {"reading_approval", "reading_ruling"}
Status == {"none", "SUCCESS", "SIMULATED", "FAILED", "BLOCKED", "PENDING", "TIMEOUT"}

\* A status SUCCESS is marked by a verificationState: SUCCESS stands here for one that
\* is VERIFIED, SIMULATED for one that is not.
Success == {"SUCCESS", "SIMULATED"}

\* isMutatingOrPrivileged and requiresHumanApproval.
Escalated(t) == ToolDef[t].requiresApproval \/ ToolDef[t].risk \in {"HIGH", "CRITICAL"}
Privileged(t) == t \in Registered /\ (ToolDef[t].category # "READ_ONLY" \/ Escalated(t))

\* Mutant: the bare key, not bound to tool, agent and parameters.
BareKey(r) == IF req[r].key = NONE THEN r ELSE req[r].key

\* compoundIdempotencyKey; a call without a key draws a fresh one.
CompoundKey(r) ==
  <<IF req[r].key = NONE THEN r ELSE req[r].key, req[r].tool, req[r].agent, req[r].hash>>

Keys == (Request \cup IdemKey) \X Tool \X (Agent \cup {NONE}) \X Params

PresentedBy(r) == [capability |-> req[r].capability, agent |-> req[r].agent,
                   bound |-> req[r].bound, hash |-> req[r].hash,
                   resource |-> req[r].resource]

\* The approval to check: the invocation's own, else the one bound to its grant.
ApprovalOf(r) ==
  IF req[r].approval # NONE THEN req[r].approval ELSE terms[req[r].grant].approval

\* verifyAndAuthorizeExecution: the guard hashes the real parameters itself.
ApprovalHolds(r) ==
  LET a == ApprovalOf(r)
  IN a # NONE => approvals[a] = [capability |-> req[r].capability, hash |-> req[r].params]

-----------------------------------------------------------------------------

Answer(r, status) ==
  /\ pc' = [pc EXCEPT ![r] = "answered"]
  /\ answer' = [answer EXCEPT ![r] = status]

\* An answer that dispatches nothing and spends nothing.
Refuse(r, status) ==
  /\ Answer(r, status)
  /\ UNCHANGED <<callVars, authVars, approvals, connected, ruling>>

\* What dispatchToolCall has come to at its first await: a request to Kingdom is on
\* its way; a local tool has run, to its end or to an exception, or, without its
\* Node module, has made up a result.
Dispatching(t) ==
  IF t \notin Local THEN {"open"}
  ELSE IF t \in Hosted THEN {"done", "dead"} ELSE {"simulated", "dead"}

Dispatch(r) ==
  /\ pc' = [pc EXCEPT ![r] = "running"]
  /\ \E s \in Dispatching(req[r].tool) : call' = [call EXCEPT ![r] = s]
  /\ UNCHANGED <<answer, deadLetters>>

\* Mutant: the cached result is not looked up before the dispatch.
DispatchAlways(r) == Dispatch(r) /\ UNCHANGED cache

\* Steps 6 and 7, once authorised: a cached success is returned, otherwise the
\* call is dispatched in the same turn.  The breaker is not consulted again.
Proceed(r) ==
  \/ /\ CompoundKey(r) \in DOMAIN cache
     /\ Answer(r, cache[CompoundKey(r)])
     /\ UNCHANGED callVars
  \/ CompoundKey(r) \notin DOMAIN cache /\ Dispatch(r) /\ UNCHANGED cache

-----------------------------------------------------------------------------

\* execute() from its entry to its first await.

ExceedsChain(r) ==
  /\ pc[r] = "idle"
  /\ req[r].depth > MaxChainDepth
  /\ Refuse(r, "BLOCKED")
  /\ UNCHANGED <<breaker, givens>>

StoppedByCircuit(r) ==
  /\ pc[r] = "idle"
  /\ req[r].depth <= MaxChainDepth
  /\ ~Admits(req[r].tool)
  /\ Refuse(r, "BLOCKED")
  /\ UNCHANGED <<breaker, givens>>

\* Mutant: the grant is verified and spent before the circuit is looked at.
EnteredAfterGrant(r) ==
  /\ pc[r] = "idle"
  /\ req[r].depth <= MaxChainDepth
  /\ CheckState(req[r].tool)
  /\ UNCHANGED <<approvals, connected, deadLetters, givens>>

\* Past the chain limit and the circuit breaker, which may turn HALF_OPEN.
Entered(r) ==
  /\ pc[r] = "idle"
  /\ req[r].depth <= MaxChainDepth
  /\ Admits(req[r].tool)
  /\ CheckState(req[r].tool)
  /\ UNCHANGED <<approvals, connected, deadLetters, givens>>

WellFormed(r) == req[r].tool \in Registered /\ req[r].complete

Malformed(r) ==
  /\ Entered(r)
  /\ ~WellFormed(r)
  /\ Refuse(r, "BLOCKED")

\* A privileged call without a grant asks for a human approval.
AsksApproval(r) ==
  /\ Entered(r)
  /\ WellFormed(r)
  /\ Escalated(req[r].tool)
  /\ req[r].grant = NONE
  /\ \/ ~connected /\ Refuse(r, "PENDING")
     \/ /\ connected
        /\ pc' = [pc EXCEPT ![r] = "creating_approval"]
        /\ UNCHANGED <<answer, callVars, authVars, ruling>>

LacksGrant(r) ==
  /\ Entered(r)
  /\ WellFormed(r)
  /\ Privileged(req[r].tool) /\ ~Escalated(req[r].tool)
  /\ req[r].grant = NONE
  /\ Refuse(r, "BLOCKED")

GrantRejected(r) ==
  /\ Entered(r)
  /\ WellFormed(r)
  /\ Privileged(req[r].tool)
  /\ req[r].grant # NONE
  /\ ~Verifies(req[r].grant, PresentedBy(r))
  /\ Refuse(r, "BLOCKED")

\* The verification succeeds and consumes the grant, whatever comes after.
GrantSpent(r) ==
  /\ Entered(r)
  /\ WellFormed(r)
  /\ Privileged(req[r].tool)
  /\ req[r].grant # NONE
  /\ Verifies(req[r].grant, PresentedBy(r))
  /\ Consume(req[r].grant)
  /\ spent' = [spent EXCEPT ![r] = req[r].grant]

ApprovalRejected(r) ==
  /\ GrantSpent(r)
  /\ ~ApprovalHolds(r)
  /\ Answer(r, "BLOCKED")
  /\ UNCHANGED <<callVars, ruling>>

SentToKingdom(r) ==
  /\ GrantSpent(r)
  /\ ApprovalHolds(r)
  /\ connected
  /\ pc' = [pc EXCEPT ![r] = "at_kingdom"]
  /\ UNCHANGED <<answer, callVars, ruling>>

\* The Kingdom gate stands inside `if (CONNECTED)': offline it is passed over.
PassedOffline(r) ==
  /\ GrantSpent(r)
  /\ ApprovalHolds(r)
  /\ ~connected
  /\ ruling' = [ruling EXCEPT ![r] = "SKIPPED"]
  /\ Proceed(r)

ReadsOnly(r) ==
  /\ Entered(r)
  /\ WellFormed(r)
  /\ ~Privileged(req[r].tool)
  /\ Proceed(r)
  /\ UNCHANGED <<authVars, ruling>>

Execute(r) ==
  \/ ExceedsChain(r) \/ StoppedByCircuit(r) \/ Malformed(r)
  \/ AsksApproval(r) \/ LacksGrant(r) \/ GrantRejected(r)
  \/ ApprovalRejected(r) \/ SentToKingdom(r) \/ PassedOffline(r) \/ ReadsOnly(r)

-----------------------------------------------------------------------------

\* The continuations of execute() after its awaits.

\* The headers of Kingdom's answer are there, in time: fetchJson clears its abort
\* timer and awaits the body.
HeadersArrive(r) ==
  /\ \/ pc[r] = "creating_approval" /\ pc' = [pc EXCEPT ![r] = "reading_approval"]
     \/ pc[r] = "at_kingdom" /\ pc' = [pc EXCEPT ![r] = "reading_ruling"]
  /\ UNCHANGED <<answer, callVars, authVars, breaker, approvals, connected, ruling, givens>>

\* create_approval answered, or threw before or in its body: PENDING in all cases.
ApprovalCreated(r) ==
  /\ pc[r] \in {"creating_approval", "reading_approval"}
  /\ Refuse(r, "PENDING")
  /\ UNCHANGED <<breaker, givens>>

\* Mutant: the decision is not looked at.
KingdomIgnored(r) ==
  /\ pc[r] = "reading_ruling"
  /\ ruling' = [ruling EXCEPT ![r] = "DENIED"]
  /\ Proceed(r)
  /\ UNCHANGED <<authVars, breaker, approvals, connected, givens>>

\* authorize_capability threw (without headers, at a bare error status or in the
\* body), or its body denied the operation.
KingdomDenies(r) ==
  /\ pc[r] \in {"at_kingdom", "reading_ruling"}
  /\ ruling' = [ruling EXCEPT ![r] = "DENIED"]
  /\ Answer(r, "BLOCKED")
  /\ UNCHANGED <<callVars, authVars, breaker, approvals, connected, givens>>

\* The body of authorize_capability said ALLOWED or AUTHORIZED.
KingdomAllows(r) ==
  /\ pc[r] = "reading_ruling"
  /\ ruling' = [ruling EXCEPT ![r] = "ALLOWED"]
  /\ Proceed(r)
  /\ UNCHANGED <<authVars, breaker, approvals, connected, givens>>

\* idempotencyCache.set
Caching(key, status) ==
  [k \in DOMAIN cache \cup {key} |-> IF k = key THEN status ELSE cache[k]]

\* The dispatched promise resolved before the timer: count the success, cache, answer.
Succeed(r, status) ==
  /\ pc[r] = "running"
  /\ RecordSuccess(req[r].tool)
  /\ cache' = Caching(CompoundKey(r), status)
  /\ Answer(r, status)
  /\ UNCHANGED <<deadLetters, authVars, approvals, connected, ruling, givens>>

\* Mutant: the mode of the result is not looked at.
MarkIgnored(r) ==
  /\ call[r] \in {"done", "simulated"}
  /\ Succeed(r, "SUCCESS")
  /\ UNCHANGED call

\* A result counts as VERIFIED, except that of a local tool that made it up.
ToolReturns(r) ==
  /\ \/ call[r] = "done" /\ Succeed(r, "SUCCESS")
     \/ call[r] = "simulated" /\ Succeed(r, "SIMULATED")
  /\ UNCHANGED call

\* get_task catches the failure of its request while the connection is down and
\* returns a made-up task of status 'unknown', which counts as VERIFIED too.
PlaceholderReturns(r) ==
  /\ req[r].tool \in Masked
  /\ call[r] = "open"
  /\ ~connected
  /\ call' = [call EXCEPT ![r] = "masked"]
  /\ Succeed(r, "SUCCESS")

\* The catch block: count the failure, write a dead letter, answer.
Fail(r, status) ==
  /\ pc[r] = "running"
  /\ RecordFailure(req[r].tool)
  /\ deadLetters' = deadLetters \cup {r}
  /\ Answer(r, status)
  /\ UNCHANGED <<cache, authVars, approvals, connected, ruling, givens>>

\* The dispatched promise rejects: a local tool threw, perhaps after its effect; a
\* request never got through, or only its answer was lost and it may still land.
ToolThrows(r) ==
  /\ Fail(r, "FAILED")
  /\ \/ UNCHANGED call
     \/ call[r] = "open" /\ call' = [call EXCEPT ![r] = "dead"]

\* Mutant: a timed-out call is reported but not kept for reconciliation.
TimeoutUnrecorded(r) ==
  /\ pc[r] = "running" /\ req[r].tool \notin Local
  /\ RecordFailure(req[r].tool)
  /\ Answer(r, "TIMEOUT")
  /\ UNCHANGED <<callVars, authVars, approvals, connected, ruling, givens>>

\* Mutant: the timer is armed only while the adapter is connected.
TimerNeedsConnection(r) ==
  connected /\ req[r].tool \notin Local /\ Fail(r, "TIMEOUT") /\ UNCHANGED call

\* The timer wins the race.  Nothing cancels the dispatched call.  The promise of a
\* local tool is settled before the timer is armed.
ToolTimesOut(r) == req[r].tool \notin Local /\ Fail(r, "TIMEOUT") /\ UNCHANGED call

-----------------------------------------------------------------------------

\* The environment: Kingdom carries the call out (perhaps after its caller gave
\* up), the connection changes, a human's approval is registered.

EffectLands(r) ==
  /\ call[r] = "open"
  /\ call' = [call EXCEPT ![r] = "done"]
  /\ UNCHANGED <<pc, answer, cache, deadLetters, authVars, breaker, approvals,
                 connected, ruling, givens>>

ConnectionFlips ==
  /\ connected' = ~connected
  /\ UNCHANGED <<pc, answer, callVars, authVars, breaker, approvals, ruling, givens>>

\* registerApprovalRequest
RegisterApproval(a, c, p) ==
  /\ approvals' = [approvals EXCEPT ![a] = [capability |-> c, hash |-> p]]
  /\ UNCHANGED <<pc, answer, callVars, authVars, breaker, connected, ruling, givens>>

GrantStep ==
  /\ GrantsNext
  /\ UNCHANGED <<pc, answer, callVars, spent, breaker, approvals, connected, ruling, req>>

BreakerStep ==
  /\ \E t \in Tool : CooldownElapses(t)
  /\ UNCHANGED <<pc, answer, callVars, authVars, approvals, connected, ruling, givens>>

Init ==
  /\ GrantsInit
  /\ BreakerInit
  /\ approvals = [a \in Approval |-> NONE]
  /\ connected \in BOOLEAN
  /\ pc = [r \in Request |-> "idle"]
  /\ answer = [r \in Request |-> "none"]
  /\ call = [r \in Request |-> "none"]
  /\ cache = [k \in {} |-> "SUCCESS"]
  /\ deadLetters = {}
  /\ spent = [r \in Request |-> NONE]
  /\ ruling = [r \in Request |-> "none"]
  /\ terms \in Offers
  /\ req \in Workloads

\* The steps of one invocation.
Step(r) ==
  \/ Execute(r) \/ HeadersArrive(r)
  \/ ApprovalCreated(r) \/ KingdomDenies(r) \/ KingdomAllows(r)
  \/ ToolReturns(r) \/ PlaceholderReturns(r) \/ ToolThrows(r) \/ ToolTimesOut(r)
  \/ EffectLands(r)

Next ==
  \/ \E r \in Request : Step(r)
  \/ GrantStep \/ BreakerStep \/ ConnectionFlips
  \/ \E a \in Approval, c \in Capability, p \in Params : RegisterApproval(a, c, p)

Spec == Init /\ [][Next]_vars

\* What the runtime guarantees to run: fetchJson aborts a request without headers
\* after ten seconds, the timer of a dispatched call fires, and the continuation of a
\* settled promise runs.  A dispatched remote call need not return, and the body of an
\* answer that began need not end: its abort timer is gone.
Fairness ==
  \A r \in Request :
    /\ WF_vars(pc[r] = "creating_approval" /\ (HeadersArrive(r) \/ ApprovalCreated(r)))
    /\ WF_vars(pc[r] = "at_kingdom" /\ (HeadersArrive(r) \/ KingdomDenies(r)))
    /\ WF_vars(ToolTimesOut(r))
    /\ WF_vars(req[r].tool \in Local /\ (ToolReturns(r) \/ ToolThrows(r)))

FairSpec == Spec /\ Fairness

-----------------------------------------------------------------------------

TypeOK ==
  /\ GrantsTypeOK
  /\ BreakerTypeOK
  /\ approvals \in [Approval -> [capability : Capability, hash : Params] \cup {NONE}]
  /\ connected \in BOOLEAN
  /\ req \in [Request -> Invocation]
  /\ pc \in [Request -> Place]
  /\ answer \in [Request -> Status]
  /\ call \in [Request -> {"none", "open", "done", "dead", "simulated", "masked"}]
  /\ DOMAIN cache \subseteq Keys
  /\ \A k \in DOMAIN cache : cache[k] \in Success
  /\ deadLetters \subseteq Request
  /\ spent \in [Request -> Grant \cup {NONE}]
  /\ ruling \in [Request -> {"none", "SKIPPED", "ALLOWED", "DENIED"}]

Dispatched(r) == call[r] # "none"

\* Two privileged calls that were dispatched never named the same grant, however
\* their verifications, Kingdom round trips and purges of the map interleave.
GrantSingleUse ==
  \A q, r \in Request :
    /\ Dispatched(q) /\ Dispatched(r)
    /\ Privileged(req[q].tool) /\ Privileged(req[r].tool)
    /\ req[q].grant = req[r].grant
    => q = r

\* No call is dispatched for an invocation answered BLOCKED or PENDING, before
\* or after the answer, and a privileged one is dispatched only with a grant
\* spent for it and after Kingdom's consent, unless the adapter was offline when
\* the gate was reached.
NoUnauthorisedEffect ==
  \A r \in Request : Dispatched(r) =>
    /\ answer[r] \notin {"BLOCKED", "PENDING"}
    /\ Privileged(req[r].tool) => /\ spent[r] = req[r].grant
                                  /\ ruling[r] \in {"ALLOWED", "SKIPPED"}

\* The kind of call a success may stand for.
Backs(q, status) ==
  \/ status = "SUCCESS" /\ call[q] = "done"
  \/ status = "SUCCESS" /\ call[q] = "masked" /\ req[q].tool \in Masked
  \/ status = "SIMULATED" /\ call[q] = "simulated"

\* A verified SUCCESS, cached or not, stands for an effect that really took place for
\* the same tool, agent, parameter hash and idempotency key, or, of the reads in
\* Masked only, for a placeholder.  One marked SIMULATED stands for a call that had no
\* effect at all: its caller must look at the mark.
SuccessIsReal ==
  \A r \in Request : answer[r] \in Success =>
    \E q \in Request : CompoundKey(q) = CompoundKey(r) /\ Backs(q, answer[r])

\* Every effect that took place is reported as a success, still awaited, or has a
\* dead letter to reconcile it from, also when it lands after its timeout.
NoSilentEffect ==
  \A r \in Request : call[r] = "done" =>
    answer[r] = "SUCCESS" \/ pc[r] = "running" \/ r \in deadLetters

\* What is answered of an effect is so: no verified success without one, except of a
\* masked read, no simulated one with one, and no effect without a trace.
HonestOutcomes == SuccessIsReal /\ NoSilentEffect

\* Once an invocation has succeeded, no other with the same compound key is
\* dispatched, even one that was at Kingdom's gate when the first succeeded.
NoReplayAfterSuccess ==
  [][\A q, r \in Request :
       call[r] = "none" /\ call'[r] # "none" /\ answer[q] \in Success
       => CompoundKey(q) # CompoundKey(r)]_vars

\* A circuit in cooldown costs its caller nothing: no grant is spent by an
\* invocation whose tool is open and not cooled down.
OpenCircuitSpendsNothing ==
  [][\A r \in Request : spent'[r] # spent[r] =>
       ~(breaker[req[r].tool].count >= FailureThreshold /\ ~breaker[req[r].tool].cooled)]_vars

\* Every invocation is answered, whatever Kingdom and the tool do, unless it is left
\* waiting for the body of an answer that Kingdom began: for the creation of an
\* approval or the ruling of the gate, never for the tool itself.
EveryCallAnswered ==
  \A r \in Request : pc[r] # "idle" ~> pc[r] = "answered" \/ pc[r] \in BodyOpen

Begun == {r \in Request : Dispatched(r) /\ Privileged(req[r].tool)}

Authority == INSTANCE ExecutionAuthority
  WITH live <- Live, known <- issued, holder <- spent, begun <- Begun

\* The executor and the grant engine implement the promise of ExecutionAuthority.
ImplementsAuthority == Authority!Spec

-----------------------------------------------------------------------------

\* The inductive invariant behind the safety properties.

\* A spent grant is the one the invocation named, it is consumed for good, and no
\* other invocation spent it.
GrantBook ==
  /\ \A r \in Request : spent[r] # NONE => spent[r] = req[r].grant /\ spent[r] \in consumed
  /\ \A q, r \in Request : spent[q] # NONE /\ spent[q] = spent[r] => q = r

\* What each place in execute() implies about the invocation there.
CallBook ==
  \A r \in Request :
    /\ pc[r] = "idle" => spent[r] = NONE
    /\ pc[r] \in {"at_kingdom", "reading_ruling"} => spent[r] # NONE
    /\ pc[r] \notin {"running", "answered"} => ~Dispatched(r)
    /\ pc[r] # "answered" => answer[r] = "none"
    /\ pc[r] = "running" => Dispatched(r)
    /\ Dispatched(r) => answer[r] \notin {"BLOCKED", "PENDING"}
    /\ Dispatched(r) /\ Privileged(req[r].tool) =>
         spent[r] # NONE /\ ruling[r] \in {"ALLOWED", "SKIPPED"}

\* The cache holds a result for the key of every success; neither a result in it nor
\* a success is without a call that backs it.
CacheBook ==
  /\ SuccessIsReal
  /\ \A r \in Request : answer[r] \in Success => CompoundKey(r) \in DOMAIN cache
  /\ \A k \in DOMAIN cache : \E q \in Request : CompoundKey(q) = k /\ Backs(q, cache[k])

\* A call that may still land is awaited, reported or recorded.
LetterBook ==
  \A r \in Request : call[r] \in {"open", "done"} =>
    answer[r] = "SUCCESS" \/ pc[r] = "running" \/ r \in deadLetters

Bookkeeping == GrantBook /\ CallBook /\ CacheBook /\ LetterBook /\ BreakerCoherent

-----------------------------------------------------------------------------

\* What the repository's documents say of this code, and the code does not do.

\* docs/KINGDOM_TRUTH_SECURITY_AUDIT.md: the gate is asked before every mutating or
\* privileged dispatch, and execution fails if Kingdom is offline.
KingdomGatesEveryPrivilegedCall ==
  \A r \in Request :
    Dispatched(r) /\ Privileged(req[r].tool) => ruling[r] = "ALLOWED"

=============================================================================
