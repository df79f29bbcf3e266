-------------------------- MODULE ToolExecutionProofs --------------------------
(***************************************************************************)
(* Proofs about ToolExecution, for any number of invocations, grants,      *)
(* tools and approvals.                                                    *)
(***************************************************************************)
EXTENDS ToolExecution, TLAPS

\* A purge of the map, forced or not, only removes entries.
LEMMA PurgeShrinks == \A force \in BOOLEAN : AfterPurge(force) \subseteq present
  BY DEF AfterPurge

\* The compound key of an invocation is well formed: the type of the cache.
LEMMA KeyType ==
  ASSUME TypeOK, NEW r \in Request
  PROVE  /\ CompoundKey(r) \in Keys
         /\ req[r].tool \in Tool
         /\ req[r].grant \in Grant \cup {NONE}
  BY DEF TypeOK, CompoundKey, Keys, Invocation

\* What the breaker's operations leave in place: one well-formed record per tool.
LEMMA BreakerTypes ==
  ASSUME BreakerTypeOK, NEW t \in Tool
  PROVE  /\ CheckState(t) => BreakerTypeOK'
         /\ RecordSuccess(t) => BreakerTypeOK'
         /\ RecordFailure(t) => BreakerTypeOK'
         /\ CooldownElapses(t) => BreakerTypeOK'
  <1>1. /\ breaker[t].count \in Nat
        /\ breaker[t].count + 1 \in Nat
        /\ breaker[t].state \in BreakerState
    BY DEF BreakerTypeOK
  <1>2. CheckState(t) => BreakerTypeOK'
    BY <1>1 DEF BreakerTypeOK, BreakerState, CheckState
  <1>3. RecordSuccess(t) => BreakerTypeOK'
    BY DEF BreakerTypeOK, BreakerState, RecordSuccess
  <1>4. RecordFailure(t) => BreakerTypeOK'
    BY <1>1 DEF BreakerTypeOK, BreakerState, RecordFailure
  <1>5. CooldownElapses(t) => BreakerTypeOK'
    BY <1>1 DEF BreakerTypeOK, CooldownElapses
  <1> QED
    BY <1>2, <1>3, <1>4, <1>5

-----------------------------------------------------------------------------

\* The initial states are well typed.
LEMMA InitTypeOK == Init => TypeOK
  BY InputAssumption, NoneAssumption
  DEF Init, TypeOK, GrantsInit, GrantsTypeOK, BreakerInit, BreakerTypeOK, BreakerState,
      Place, Status, Success

\* Every step keeps the types: execute(), its continuations and the environment.
LEMMA NextTypeOK == TypeOK /\ [Next]_vars => TypeOK'
  <1> SUFFICES ASSUME TypeOK, [Next]_vars PROVE TypeOK'
    OBVIOUS
  <1> USE DEF TypeOK, callVars, authVars, givens, Answer, Refuse, Place, Status, Success
  <1>1. ASSUME NEW r \in Request, Execute(r) PROVE TypeOK'
    <2>1. CASE ExceedsChain(r) \/ StoppedByCircuit(r)
      BY <2>1 DEF ExceedsChain, StoppedByCircuit, GrantsTypeOK, BreakerTypeOK
    <2>2. ASSUME Entered(r) PROVE BreakerTypeOK'
      BY <2>2, KeyType, BreakerTypes DEF Entered
    <2>3. CASE Malformed(r) \/ LacksGrant(r) \/ GrantRejected(r)
      BY <2>2, <2>3 DEF Malformed, LacksGrant, GrantRejected, Entered, GrantsTypeOK
    <2>4. CASE AsksApproval(r)
      BY <2>2, <2>4 DEF AsksApproval, Entered, GrantsTypeOK
    <2>5. ASSUME GrantSpent(r)
          PROVE  /\ GrantsTypeOK'
                 /\ spent' \in [Request -> Grant \cup {NONE}]
                 /\ BreakerTypeOK'
      BY <2>2, <2>5, KeyType DEF GrantSpent, Entered, Consume, Verifies, Live, GrantsTypeOK
    <2>6. CASE ApprovalRejected(r)
      BY <2>5, <2>6 DEF ApprovalRejected, GrantSpent, Entered
    <2>7. CASE SentToKingdom(r)
      BY <2>5, <2>7 DEF SentToKingdom, GrantSpent, Entered
    <2>8. CASE PassedOffline(r)
      BY <2>5, <2>8 DEF PassedOffline, GrantSpent, Entered, Proceed, Dispatch, Dispatching
    <2>9. CASE ReadsOnly(r)
      BY <2>2, <2>9 DEF ReadsOnly, Entered, Proceed, Dispatch, Dispatching, GrantsTypeOK
    <2> QED
      BY <1>1, <2>1, <2>3, <2>4, <2>6, <2>7, <2>8, <2>9 DEF Execute
  <1>2. ASSUME NEW r \in Request, HeadersArrive(r) \/ ApprovalCreated(r) PROVE TypeOK'
    BY <1>2 DEF HeadersArrive, ApprovalCreated, GrantsTypeOK, BreakerTypeOK
  <1>3. ASSUME NEW r \in Request, KingdomDenies(r) \/ KingdomAllows(r) PROVE TypeOK'
    BY <1>3 DEF KingdomDenies, KingdomAllows, Proceed, Dispatch, Dispatching, GrantsTypeOK, BreakerTypeOK
  <1>4. ASSUME NEW r \in Request, ToolReturns(r) \/ PlaceholderReturns(r) PROVE TypeOK'
    <2>1. PICK status \in Success : Succeed(r, status)
      BY <1>4 DEF ToolReturns, PlaceholderReturns
    <2>2. BreakerTypeOK'
      BY <2>1, KeyType, BreakerTypes DEF Succeed
    <2>3. DOMAIN cache' \subseteq Keys' /\ \A k \in DOMAIN cache' : cache'[k] \in Success
      BY <2>1, KeyType DEF Succeed, Caching, Keys
    <2>4. call' \in [Request -> {"none", "open", "done", "dead", "simulated", "masked"}]
      BY <1>4 DEF ToolReturns, PlaceholderReturns
    <2> QED
      BY <2>1, <2>2, <2>3, <2>4 DEF Succeed, GrantsTypeOK
  <1>5. ASSUME NEW r \in Request, ToolThrows(r) \/ ToolTimesOut(r) PROVE TypeOK'
    <2>1. BreakerTypeOK'
      BY <1>5, KeyType, BreakerTypes DEF ToolThrows, ToolTimesOut, Fail
    <2> QED
      BY <1>5, <2>1 DEF ToolThrows, ToolTimesOut, Fail, GrantsTypeOK
  <1>6. ASSUME NEW r \in Request, EffectLands(r) PROVE TypeOK'
    BY <1>6 DEF EffectLands, GrantsTypeOK, BreakerTypeOK
  <1>7. CASE GrantStep
    <2>1. GrantsTypeOK'
      BY <1>7, PurgeShrinks
      DEF GrantStep, GrantsNext, GrantsTypeOK, IssueGrant, RevokeGrant, GrantExpires,
          PurgeExpiredGrants
    <2>2. terms' = terms
      BY <1>7 DEF GrantStep, GrantsNext, IssueGrant, RevokeGrant, GrantExpires,
                  PurgeExpiredGrants
    <2> QED
      BY <1>7, <2>1, <2>2 DEF GrantStep, BreakerTypeOK, Keys
  <1>8. CASE BreakerStep
    BY <1>8, BreakerTypes DEF BreakerStep, GrantsTypeOK
  <1>9. CASE ConnectionFlips
    BY <1>9 DEF ConnectionFlips, GrantsTypeOK, BreakerTypeOK
  <1>10. ASSUME NEW a \in Approval, NEW c \in Capability, NEW p \in Params,
                RegisterApproval(a, c, p)
         PROVE  TypeOK'
    BY <1>10 DEF RegisterApproval, GrantsTypeOK, BreakerTypeOK
  <1>11. CASE UNCHANGED vars
    BY <1>11 DEF vars, grantVars, GrantsTypeOK, BreakerTypeOK
  <1> QED
    BY <1>1, <1>2, <1>3, <1>4, <1>5, <1>6, <1>7, <1>8, <1>9, <1>10, <1>11
    DEF Next, Step

\* Type correctness of the executor and the components it is composed of.
THEOREM TypeCorrect == Spec => []TypeOK
  BY InitTypeOK, NextTypeOK, PTL DEF Spec

-----------------------------------------------------------------------------

\* The invocation a call carries never changes, so neither does its compound key.
LEMMA RequestFixed ==
  ASSUME [Next]_vars
  PROVE  req' = req /\ \A r \in Request : CompoundKey(r)' = CompoundKey(r)
  <1>1. req' = req
    BY DEF vars, Next, Step, givens, Execute, ExceedsChain, StoppedByCircuit, Malformed,
           AsksApproval, LacksGrant, GrantRejected, ApprovalRejected, SentToKingdom,
           PassedOffline, ReadsOnly, GrantSpent, Entered, HeadersArrive, ApprovalCreated, KingdomDenies,
           KingdomAllows, ToolReturns, PlaceholderReturns, Succeed, ToolThrows, ToolTimesOut, Fail, EffectLands,
           GrantStep, BreakerStep, ConnectionFlips, RegisterApproval
  <1> QED
    BY <1>1 DEF CompoundKey

\* How the spent grants move: an invocation that is still idle spends the live
\* grant it names, its tool's circuit permitting, or nothing changes.
SpendsGrant(r) ==
  /\ pc[r] = "idle" /\ pc'[r] # "idle"
  /\ Admits(req[r].tool)
  /\ req[r].grant \in Live
  /\ spent' = [spent EXCEPT ![r] = req[r].grant]
  /\ consumed' = consumed \cup {req[r].grant}

LEMMA GrantMoves ==
  ASSUME TypeOK, [Next]_vars
  PROVE  \/ spent' = spent /\ consumed' = consumed
         \/ \E r \in Request : SpendsGrant(r)
  <1> USE DEF authVars, Refuse, Answer, SpendsGrant
  <1>1. ASSUME NEW r \in Request, Execute(r)
        PROVE  (spent' = spent /\ consumed' = consumed) \/ SpendsGrant(r)
    <2>1. CASE \/ ExceedsChain(r) \/ StoppedByCircuit(r) \/ Malformed(r)
               \/ AsksApproval(r) \/ LacksGrant(r) \/ GrantRejected(r) \/ ReadsOnly(r)
      BY <2>1 DEF ExceedsChain, StoppedByCircuit, Malformed, AsksApproval, LacksGrant,
                  GrantRejected, ReadsOnly
    <2>2. ASSUME GrantSpent(r), pc'[r] # "idle" PROVE SpendsGrant(r)
      BY <2>2 DEF GrantSpent, Entered, Consume, Verifies
    <2>3. CASE ApprovalRejected(r) \/ SentToKingdom(r) \/ PassedOffline(r)
      BY <2>2, <2>3 DEF ApprovalRejected, SentToKingdom, PassedOffline, Proceed, Dispatch, Dispatching, TypeOK
    <2> QED
      BY <1>1, <2>1, <2>3 DEF Execute
  <1>2. ASSUME NEW r \in Request, Step(r), ~Execute(r)
        PROVE  spent' = spent /\ consumed' = consumed
    BY <1>2 DEF Step, HeadersArrive, ApprovalCreated, KingdomDenies, KingdomAllows,
                ToolReturns, PlaceholderReturns, Succeed, ToolThrows, ToolTimesOut, Fail, EffectLands
  <1>3. CASE GrantStep \/ BreakerStep \/ ConnectionFlips \/ UNCHANGED vars
             \/ \E a \in Approval, c \in Capability, p \in Params : RegisterApproval(a, c, p)
    BY <1>3 DEF GrantStep, GrantsNext, IssueGrant, RevokeGrant, GrantExpires,
                PurgeExpiredGrants, BreakerStep, ConnectionFlips, RegisterApproval,
                vars, grantVars
  <1> QED
    BY <1>1, <1>2, <1>3 DEF Next

\* Grants are spent by one invocation only, and stay consumed.
LEMMA NextGrantBook == TypeOK /\ GrantBook /\ [Next]_vars => GrantBook'
  <1> SUFFICES ASSUME TypeOK, GrantBook, [Next]_vars PROVE GrantBook'
    OBVIOUS
  <1> USE RequestFixed
  <1>1. CASE spent' = spent /\ consumed' = consumed
    BY <1>1 DEF GrantBook
  <1>2. ASSUME NEW r \in Request, SpendsGrant(r) PROVE GrantBook'
    BY <1>2, KeyType DEF SpendsGrant, GrantBook, Live, TypeOK
  <1> QED
    BY <1>1, <1>2, GrantMoves

\* The places of execute() keep what they imply.
LEMMA NextCallBook == TypeOK /\ CallBook /\ [Next]_vars => CallBook'
  <1> SUFFICES ASSUME TypeOK, CallBook, [Next]_vars PROVE CallBook'
    OBVIOUS
  <1> USE RequestFixed DEF CallBook, Dispatched, TypeOK, Answer, Refuse, callVars, authVars
  <1>1. ASSUME NEW r \in Request, Execute(r) PROVE CallBook'
    <2>1. CASE ExceedsChain(r) \/ StoppedByCircuit(r)
      BY <2>1 DEF ExceedsChain, StoppedByCircuit
    <2>2. CASE Malformed(r) \/ LacksGrant(r) \/ GrantRejected(r)
      BY <2>2 DEF Malformed, LacksGrant, GrantRejected, Entered
    <2>3. CASE AsksApproval(r)
      BY <2>3 DEF AsksApproval, Entered
    <2>4. req[r].grant # NONE /\ GrantSpent(r) =>
            spent' = [spent EXCEPT ![r] = req[r].grant] /\ pc[r] = "idle"
      BY DEF GrantSpent, Entered
    <2>5. CASE ApprovalRejected(r)
      BY <2>4, <2>5 DEF ApprovalRejected, GrantSpent
    <2>6. CASE SentToKingdom(r)
      BY <2>4, <2>6 DEF SentToKingdom, GrantSpent
    <2>7. CASE PassedOffline(r)
      BY <2>4, <2>7 DEF PassedOffline, GrantSpent, Proceed, Dispatch, Dispatching
    <2>8. CASE ReadsOnly(r)
      BY <2>8 DEF ReadsOnly, Proceed, Dispatch, Dispatching, Entered
    <2> QED
      BY <1>1, <2>1, <2>2, <2>3, <2>5, <2>6, <2>7, <2>8 DEF Execute
  <1>2. ASSUME NEW r \in Request, HeadersArrive(r) \/ ApprovalCreated(r) PROVE CallBook'
    BY <1>2 DEF HeadersArrive, ApprovalCreated
  <1>3. ASSUME NEW r \in Request, KingdomDenies(r) PROVE CallBook'
    BY <1>3 DEF KingdomDenies
  <1>4. ASSUME NEW r \in Request, KingdomAllows(r) PROVE CallBook'
    BY <1>4 DEF KingdomAllows, Proceed, Dispatch, Dispatching
  <1>5. ASSUME NEW r \in Request, ToolReturns(r) \/ PlaceholderReturns(r) PROVE CallBook'
    BY <1>5 DEF ToolReturns, PlaceholderReturns, Succeed
  <1>6. ASSUME NEW r \in Request, ToolThrows(r) \/ ToolTimesOut(r) PROVE CallBook'
    BY <1>6 DEF ToolThrows, ToolTimesOut, Fail
  <1>7. ASSUME NEW r \in Request, EffectLands(r) PROVE CallBook'
    BY <1>7 DEF EffectLands
  <1>8. CASE GrantStep \/ BreakerStep \/ ConnectionFlips \/ UNCHANGED vars
             \/ \E a \in Approval, c \in Capability, p \in Params : RegisterApproval(a, c, p)
    BY <1>8 DEF GrantStep, BreakerStep, ConnectionFlips, RegisterApproval, vars
  <1> QED
    BY <1>1, <1>2, <1>3, <1>4, <1>5, <1>6, <1>7, <1>8 DEF Next, Step

\* How calls, answers, cache and dead letters move, one line per kind of step: an
\* invocation is dispatched, it is answered, its call lands or is lost.
CallMoves(r) ==
  \/ UNCHANGED <<pc, answer, callVars>>
  \/ /\ pc[r] \notin {"running", "answered"}
     /\ pc' = [pc EXCEPT ![r] = pc'[r]]
     /\ UNCHANGED callVars
     /\ \/ pc'[r] # "running" /\ UNCHANGED answer
        \/ /\ pc'[r] = "answered"
           /\ \E status \in {"BLOCKED", "PENDING"} : answer' = [answer EXCEPT ![r] = status]
        \/ /\ pc'[r] = "answered"
           /\ CompoundKey(r) \in DOMAIN cache
           /\ answer' = [answer EXCEPT ![r] = cache[CompoundKey(r)]]
  \/ /\ pc[r] \notin {"running", "answered"} /\ pc' = [pc EXCEPT ![r] = "running"]
     /\ \E s \in {"open", "done", "dead", "simulated"} : call' = [call EXCEPT ![r] = s]
     /\ CompoundKey(r) \notin DOMAIN cache
     /\ UNCHANGED <<answer, cache, deadLetters>>
  \/ /\ pc[r] = "running"
     /\ pc' = [pc EXCEPT ![r] = "answered"]
     /\ \E status \in Success :
          /\ answer' = [answer EXCEPT ![r] = status]
          /\ cache' = Caching(CompoundKey(r), status)
          /\ \/ status = "SUCCESS" /\ call[r] = "done" /\ call' = call
             \/ status = "SIMULATED" /\ call[r] = "simulated" /\ call' = call
             \/ /\ status = "SUCCESS" /\ call[r] = "open" /\ req[r].tool \in Masked
                /\ call' = [call EXCEPT ![r] = "masked"]
     /\ UNCHANGED deadLetters
  \/ /\ pc[r] = "running"
     /\ pc' = [pc EXCEPT ![r] = "answered"]
     /\ \E status \in {"FAILED", "TIMEOUT"} : answer' = [answer EXCEPT ![r] = status]
     /\ deadLetters' = deadLetters \cup {r}
     /\ call' = call \/ (call[r] = "open" /\ call' = [call EXCEPT ![r] = "dead"])
     /\ UNCHANGED cache
  \/ /\ call[r] = "open" /\ call' = [call EXCEPT ![r] = "done"]
     /\ UNCHANGED <<pc, answer, cache, deadLetters>>

LEMMA CallsMove ==
  ASSUME TypeOK, [Next]_vars
  PROVE  \/ UNCHANGED <<pc, answer, callVars>>
         \/ \E r \in Request : CallMoves(r)
  <1> USE DEF CallMoves, TypeOK, Answer, Refuse, callVars
  <1>1. ASSUME NEW r \in Request, Execute(r) PROVE CallMoves(r)
    <2>1. CASE ExceedsChain(r) \/ StoppedByCircuit(r)
      BY <2>1 DEF ExceedsChain, StoppedByCircuit
    <2>2. CASE Malformed(r) \/ LacksGrant(r) \/ GrantRejected(r)
      BY <2>2 DEF Malformed, LacksGrant, GrantRejected, Entered
    <2>3. CASE AsksApproval(r)
      BY <2>3 DEF AsksApproval, Entered
    <2>4. CASE ApprovalRejected(r) \/ SentToKingdom(r)
      BY <2>4 DEF ApprovalRejected, SentToKingdom, GrantSpent, Entered
    <2>5. CASE PassedOffline(r) \/ ReadsOnly(r)
      BY <2>5 DEF PassedOffline, ReadsOnly, GrantSpent, Entered, Proceed, Dispatch, Dispatching
    <2> QED
      BY <1>1, <2>1, <2>2, <2>3, <2>4, <2>5 DEF Execute
  <1>2. ASSUME NEW r \in Request, HeadersArrive(r) \/ ApprovalCreated(r) \/ KingdomDenies(r)
        PROVE  CallMoves(r)
    BY <1>2 DEF HeadersArrive, ApprovalCreated, KingdomDenies
  <1>3. ASSUME NEW r \in Request, KingdomAllows(r) PROVE CallMoves(r)
    BY <1>3 DEF KingdomAllows, Proceed, Dispatch, Dispatching
  <1>4. ASSUME NEW r \in Request, ToolReturns(r) \/ PlaceholderReturns(r) \/ EffectLands(r)
        PROVE  CallMoves(r)
    <2>1. CASE EffectLands(r)
      BY <2>1 DEF EffectLands
    <2>2. CASE ToolReturns(r)
      BY <2>2 DEF ToolReturns, Succeed, Success
    <2>3. CASE PlaceholderReturns(r)
      BY <2>3 DEF PlaceholderReturns, Succeed, Success
    <2> QED
      BY <1>4, <2>1, <2>2, <2>3
  <1>5. ASSUME NEW r \in Request, ToolThrows(r) \/ ToolTimesOut(r) PROVE CallMoves(r)
    BY <1>5 DEF ToolThrows, ToolTimesOut, Fail
  <1>6. CASE GrantStep \/ BreakerStep \/ ConnectionFlips \/ UNCHANGED vars
             \/ \E a \in Approval, c \in Capability, p \in Params : RegisterApproval(a, c, p)
    BY <1>6 DEF GrantStep, BreakerStep, ConnectionFlips, RegisterApproval, vars
  <1> QED
    BY <1>1, <1>2, <1>3, <1>4, <1>5, <1>6 DEF Next, Step

\* The cache holds the keys of real successes.
LEMMA NextCacheBook == TypeOK /\ CallBook /\ CacheBook /\ [Next]_vars => CacheBook'
  <1> SUFFICES ASSUME TypeOK, CallBook, CacheBook, [Next]_vars PROVE CacheBook'
    OBVIOUS
  <1> USE RequestFixed
  <1>1. CASE UNCHANGED <<pc, answer, callVars>>
    BY <1>1 DEF CacheBook, SuccessIsReal, Backs, callVars
  <1>2. ASSUME NEW r \in Request, CallMoves(r) PROVE CacheBook'
    <2>1. ASSUME NEW q \in Request, NEW status, Backs(q, status) PROVE Backs(q, status)'
      BY <1>2, <2>1 DEF Backs, CallMoves, callVars, CallBook, Dispatched, TypeOK, Place
    <2>2. CASE cache' = cache
      <3>1. \A q \in Request : answer'[q] \in Success =>
              \/ answer'[q] = answer[q]
              \/ CompoundKey(q) \in DOMAIN cache /\ cache[CompoundKey(q)] = answer'[q]
        BY <1>2, <2>2 DEF CallMoves, callVars, TypeOK, Success, Caching
      <3>2. ASSUME NEW q \in Request, answer'[q] \in Success
            PROVE  /\ CompoundKey(q) \in DOMAIN cache
                   /\ \E p \in Request : CompoundKey(p) = CompoundKey(q) /\ Backs(p, answer'[q])
        BY <3>1, <3>2 DEF CacheBook, SuccessIsReal
      <3>3. SuccessIsReal'
        BY <3>2, <2>1 DEF SuccessIsReal, Backs
      <3> QED
        BY <2>1, <2>2, <3>2, <3>3 DEF CacheBook
    <2>3. ASSUME NEW status \in Success,
                 answer' = [answer EXCEPT ![r] = status],
                 cache' = Caching(CompoundKey(r), status),
                 Backs(r, status)'
          PROVE  CacheBook'
      <3>1. ASSUME NEW k \in DOMAIN cache', NEW mark, mark = cache'[k]
            PROVE  \E q \in Request : CompoundKey(q)' = k /\ Backs(q, mark)'
        <4>1. CASE k = CompoundKey(r)
          BY <2>3, <3>1, <4>1 DEF Caching
        <4>2. CASE k # CompoundKey(r)
          <5>1. k \in DOMAIN cache /\ mark = cache[k]
            BY <2>3, <3>1, <4>2 DEF Caching
          <5>2. PICK q \in Request : CompoundKey(q) = k /\ Backs(q, mark)
            BY <5>1 DEF CacheBook
          <5> QED
            BY <5>2, <2>1
        <4> QED
          BY <4>1, <4>2
      <3>2. ASSUME NEW q \in Request, answer'[q] \in Success, NEW mark, mark = answer'[q]
            PROVE  /\ CompoundKey(q) \in DOMAIN cache'
                   /\ \E p \in Request : CompoundKey(p)' = CompoundKey(q)' /\ Backs(p, mark)'
        <4>1. CASE q = r
          BY <2>3, <3>2, <4>1 DEF Caching, TypeOK
        <4>2. CASE q # r
          <5>1. mark = answer[q]
            BY <2>3, <3>2, <4>2 DEF TypeOK
          <5>2. PICK p \in Request : CompoundKey(p) = CompoundKey(q) /\ Backs(p, mark)
            BY <3>2, <5>1 DEF CacheBook, SuccessIsReal
          <5>3. CompoundKey(q) \in DOMAIN cache'
            BY <2>3, <3>2, <5>1 DEF CacheBook, Caching
          <5> QED
            BY <2>1, <5>2, <5>3
        <4> QED
          BY <4>1, <4>2
      <3>3. \A k \in DOMAIN cache' : \E q \in Request : CompoundKey(q)' = k /\ Backs(q, cache[k])'
        BY <3>1 DEF Backs
      <3>4. SuccessIsReal'
        BY <3>2 DEF SuccessIsReal, Backs
      <3> QED
        BY <3>2, <3>3, <3>4 DEF CacheBook
    <2>4. \/ cache' = cache
          \/ \E status \in Success : /\ answer' = [answer EXCEPT ![r] = status]
                                     /\ cache' = Caching(CompoundKey(r), status)
                                     /\ Backs(r, status)'
      <3> USE DEF CallMoves, callVars
      <3>1. CASE UNCHANGED cache
        BY <3>1
      <3>2. ASSUME NEW status \in Success,
                   \/ status = "SUCCESS" /\ call[r] = "done" /\ call' = call
                   \/ status = "SIMULATED" /\ call[r] = "simulated" /\ call' = call
                   \/ /\ status = "SUCCESS" /\ call[r] = "open" /\ req[r].tool \in Masked
                      /\ call' = [call EXCEPT ![r] = "masked"]
            PROVE  Backs(r, status)'
        BY <3>2 DEF Backs, TypeOK
      <3> QED
        BY <1>2, <3>1, <3>2
    <2> QED
      BY <2>2, <2>3, <2>4
  <1> QED
    BY <1>1, <1>2, CallsMove

\* A call that may still land is awaited, reported or recorded.
LEMMA NextLetterBook == TypeOK /\ CallBook /\ LetterBook /\ [Next]_vars => LetterBook'
  <1> SUFFICES ASSUME TypeOK, CallBook, LetterBook, [Next]_vars PROVE LetterBook'
    OBVIOUS
  <1>1. CASE UNCHANGED <<pc, answer, callVars>>
    BY <1>1 DEF LetterBook, callVars
  <1>2. ASSUME NEW r \in Request, CallMoves(r) PROVE LetterBook'
    <2>1. ASSUME NEW q \in Request, call'[q] \in {"open", "done"}, q # r
          PROVE  answer'[q] = "SUCCESS" \/ pc'[q] = "running" \/ q \in deadLetters'
      <3>1. /\ call'[q] = call[q] /\ pc'[q] = pc[q] /\ answer'[q] = answer[q]
            /\ deadLetters \subseteq deadLetters'
        BY <1>2, <2>1 DEF CallMoves, callVars, TypeOK
      <3> QED
        BY <2>1, <3>1 DEF LetterBook
    <2>2. ASSUME call'[r] \in {"open", "done"}
          PROVE  answer'[r] = "SUCCESS" \/ pc'[r] = "running" \/ r \in deadLetters'
      <3>1. pc[r] # "answered" => answer[r] = "none"
        BY DEF CallBook
      <3>2. pc[r] # "running" /\ pc[r] # "answered" => call[r] = "none"
        BY DEF CallBook, Dispatched, TypeOK, Place
      <3> QED
        BY <1>2, <2>2, <3>1, <3>2 DEF CallMoves, callVars, LetterBook, TypeOK
    <2> QED
      BY <2>1, <2>2 DEF LetterBook
  <1> QED
    BY <1>1, <1>2, CallsMove

\* The breaker's state follows its count, through every operation.
LEMMA NextBreakerCoherent == TypeOK /\ BreakerCoherent /\ [Next]_vars => BreakerCoherent'
  <1> SUFFICES ASSUME TypeOK, BreakerCoherent, [Next]_vars PROVE BreakerCoherent'
    OBVIOUS
  <1> USE ThresholdAssumption DEF TypeOK, BreakerTypeOK, BreakerState, BreakerCoherent
  <1>1. ASSUME NEW t \in Tool, CheckState(t) \/ CooldownElapses(t) PROVE BreakerCoherent'
    BY <1>1 DEF CheckState, CooldownElapses
  <1>2. ASSUME NEW t \in Tool, RecordSuccess(t) PROVE BreakerCoherent'
    BY <1>2 DEF RecordSuccess
  <1>3. ASSUME NEW t \in Tool, RecordFailure(t) PROVE BreakerCoherent'
    BY <1>3 DEF RecordFailure
  <1>4. \/ breaker' = breaker
        \/ \E t \in Tool : \/ CheckState(t) \/ CooldownElapses(t)
                           \/ RecordSuccess(t) \/ RecordFailure(t)
    <2>1. ASSUME NEW r \in Request, Execute(r)
          PROVE  breaker' = breaker \/ CheckState(req[r].tool)
      BY <2>1 DEF Execute, ExceedsChain, StoppedByCircuit, Malformed, AsksApproval,
                  LacksGrant, GrantRejected, ApprovalRejected, SentToKingdom,
                  PassedOffline, ReadsOnly, GrantSpent, Entered
    <2>2. ASSUME NEW r \in Request, Step(r), ~Execute(r)
          PROVE  \/ breaker' = breaker
                 \/ RecordSuccess(req[r].tool) \/ RecordFailure(req[r].tool)
      BY <2>2 DEF Step, HeadersArrive, ApprovalCreated, KingdomDenies, KingdomAllows,
                  ToolReturns, PlaceholderReturns, Succeed, ToolThrows, ToolTimesOut, Fail, EffectLands
    <2>3. CASE GrantStep \/ BreakerStep \/ ConnectionFlips \/ UNCHANGED vars
               \/ \E a \in Approval, c \in Capability, p \in Params : RegisterApproval(a, c, p)
      BY <2>3 DEF GrantStep, BreakerStep, ConnectionFlips, RegisterApproval, vars
    <2> QED
      BY <2>1, <2>2, <2>3, KeyType DEF Next
  <1> QED
    BY <1>1, <1>2, <1>3, <1>4

-----------------------------------------------------------------------------

\* Nothing is spent, dispatched, cached or recorded at the start.
LEMMA InitBookkeeping == Init => Bookkeeping
  BY ThresholdAssumption
  DEF Init, GrantsInit, BreakerInit, Bookkeeping, GrantBook, CallBook, CacheBook,
      LetterBook, BreakerCoherent, Dispatched, Success, SuccessIsReal

\* The inductive invariant: it holds in every reachable state.
THEOREM BookkeepingHolds == Spec => [](TypeOK /\ Bookkeeping)
  <1>1. Init => TypeOK /\ Bookkeeping
    BY InitTypeOK, InitBookkeeping
  <1>2. TypeOK /\ Bookkeeping /\ [Next]_vars => (TypeOK /\ Bookkeeping)'
    BY NextTypeOK, NextGrantBook, NextCallBook, NextCacheBook, NextLetterBook,
       NextBreakerCoherent
    DEF Bookkeeping
  <1> QED
    BY <1>1, <1>2, PTL DEF Spec

\* No two dispatched privileged calls share a grant, in any interleaving.
THEOREM SingleUse == Spec => []GrantSingleUse
  <1>1. TypeOK /\ Bookkeeping => GrantSingleUse
    BY DEF Bookkeeping, GrantBook, CallBook, GrantSingleUse
  <1> QED
    BY <1>1, BookkeepingHolds, PTL

\* No effect without authority: a refused call is never dispatched, a privileged one
\* only with its grant spent and the gate passed.
THEOREM Authorised == Spec => []NoUnauthorisedEffect
  <1>1. TypeOK /\ Bookkeeping => NoUnauthorisedEffect
    BY DEF Bookkeeping, GrantBook, CallBook, NoUnauthorisedEffect
  <1> QED
    BY <1>1, BookkeepingHolds, PTL

\* A reported success is that of a call that took place, was simulated or, of a masked
\* read, got a placeholder, and says which of the first two.
THEOREM HonestSuccess == Spec => []SuccessIsReal
  <1>1. TypeOK /\ Bookkeeping => SuccessIsReal
    BY DEF Bookkeeping, CacheBook
  <1> QED
    BY <1>1, BookkeepingHolds, PTL

\* No effect goes unreported and unrecorded, not even a late one.
THEOREM NothingSilent == Spec => []NoSilentEffect
  <1>1. TypeOK /\ Bookkeeping => NoSilentEffect
    BY DEF Bookkeeping, LetterBook, NoSilentEffect
  <1> QED
    BY <1>1, BookkeepingHolds, PTL

\* A compound key that succeeded is never dispatched again.
THEOREM NoReplay == Spec => NoReplayAfterSuccess
  <1>1. ASSUME TypeOK, Bookkeeping, [Next]_vars, NEW q \in Request, NEW r \in Request,
               call[r] = "none", call'[r] # "none", answer[q] \in Success
        PROVE  CompoundKey(q) # CompoundKey(r)
    <2>1. CompoundKey(q) \in DOMAIN cache
      BY <1>1 DEF Bookkeeping, CacheBook
    <2>2. ASSUME NEW p \in Request, CallMoves(p), call'[r] # call[r]
          PROVE  CompoundKey(r) \notin DOMAIN cache
      BY <1>1, <2>2 DEF CallMoves, callVars, TypeOK
    <2> QED
      BY <1>1, <2>1, <2>2, CallsMove DEF callVars
  <1>2. TypeOK /\ Bookkeeping /\ [Next]_vars
        => [\A q, r \in Request :
              call[r] = "none" /\ call'[r] # "none" /\ answer[q] \in Success
              => CompoundKey(q) # CompoundKey(r)]_vars
    BY <1>1
  <1> QED
    BY <1>2, BookkeepingHolds, PTL DEF Spec, NoReplayAfterSuccess

\* An open circuit that has not cooled down costs its caller no grant.
THEOREM CooldownIsFree == Spec => OpenCircuitSpendsNothing
  <1>1. ASSUME TypeOK, Bookkeeping, [Next]_vars, NEW r \in Request, spent'[r] # spent[r]
        PROVE  ~(breaker[req[r].tool].count >= FailureThreshold
                 /\ ~breaker[req[r].tool].cooled)
    <2>1. SpendsGrant(r)
      BY <1>1, GrantMoves DEF SpendsGrant, TypeOK
    <2>2. req[r].tool \in Tool /\ breaker[req[r].tool].count \in Nat
      BY <1>1, KeyType DEF TypeOK, BreakerTypeOK
    <2> QED
      BY <1>1, <2>1, <2>2, ThresholdAssumption
      DEF SpendsGrant, Admits, Bookkeeping, BreakerCoherent
  <1>2. TypeOK /\ Bookkeeping /\ [Next]_vars
        => [\A r \in Request : spent'[r] # spent[r] =>
              ~(breaker[req[r].tool].count >= FailureThreshold
                /\ ~breaker[req[r].tool].cooled)]_vars
    BY <1>1
  <1> QED
    BY <1>2, BookkeepingHolds, PTL DEF Spec, OpenCircuitSpendsNothing

-----------------------------------------------------------------------------

\* The initial states are initial for the abstract authority.
LEMMA InitAuthority == Init => Authority!Init
  BY DEF Init, GrantsInit, Authority!Init, Live, Begun, Dispatched

\* An invocation that spends its grant takes it from the live ones.
LEMMA TakesGrant ==
  ASSUME TypeOK, Bookkeeping, [Next]_vars, NEW r \in Request, GrantSpent(r),
         call' = call \/ \E s \in {"open", "done", "dead", "simulated"} : call' = [call EXCEPT ![r] = s],
         NEW g \in Grant, g = req[r].grant
  PROVE  Authority!Take(r, g)
  <1>1. Begun' \in {Begun, Begun \cup {r}}
    BY RequestFixed DEF Begun, Dispatched, TypeOK
  <1>2. spent[r] = NONE
    BY DEF GrantSpent, Entered, Bookkeeping, CallBook
  <1>3. g \in Live /\ Live' = Live \ {g} /\ issued' = issued
    BY DEF GrantSpent, Verifies, Consume, Live
  <1>4. spent' = [spent EXCEPT ![r] = g]
    BY DEF GrantSpent
  <1> QED
    BY <1>1, <1>2, <1>3, <1>4 DEF Authority!Take

\* Every step takes a grant, begins a call on one, issues or withdraws one, or
\* does nothing the abstract authority can see.
LEMMA NextAuthority ==
  TypeOK /\ Bookkeeping /\ [Next]_vars => [Authority!Next]_(Authority!authorityVars)
  <1> SUFFICES ASSUME TypeOK, Bookkeeping, [Next]_vars
               PROVE  Authority!Next \/ UNCHANGED <<Live, issued, spent, Begun>>
    BY DEF Authority!authorityVars
  <1> USE RequestFixed DEF Authority!Next
  <1>1. ASSUME NEW r \in Request, Execute(r)
        PROVE  Authority!Next \/ UNCHANGED <<Live, issued, spent, Begun>>
    <2> USE <1>1 DEF Refuse, Answer, callVars, authVars, Begun, Dispatched, Live
    <2>1. CASE \/ ExceedsChain(r) \/ StoppedByCircuit(r) \/ Malformed(r)
               \/ AsksApproval(r) \/ LacksGrant(r) \/ GrantRejected(r)
      BY <2>1 DEF ExceedsChain, StoppedByCircuit, Malformed, AsksApproval, LacksGrant,
                  GrantRejected
    <2>2. ASSUME ReadsOnly(r) PROVE UNCHANGED <<Live, issued, spent, Begun>>
      BY <2>2 DEF ReadsOnly, Proceed, Dispatch, Dispatching, TypeOK, Entered
    <2>3. CASE ApprovalRejected(r) \/ SentToKingdom(r) \/ PassedOffline(r)
      <3>1. GrantSpent(r) /\ (call' = call \/ \E s \in {"open", "done", "dead", "simulated"} : call' = [call EXCEPT ![r] = s])
        BY <2>3 DEF ApprovalRejected, SentToKingdom, PassedOffline, Proceed, Dispatch, Dispatching
      <3>2. PICK g \in Grant : g = req[r].grant
        BY <3>1, KeyType DEF GrantSpent
      <3>3. Authority!Take(r, g)
        BY <3>1, <3>2, TakesGrant
      <3> QED
        BY <3>3 DEF Authority!Next
    <2> QED
      BY <2>1, <2>2, <2>3 DEF Execute
  <1>2. ASSUME NEW r \in Request, KingdomAllows(r)
        PROVE  Authority!Next \/ UNCHANGED <<Live, issued, spent, Begun>>
    <2>1. UNCHANGED <<Live, issued, spent>> /\ spent[r] # NONE
      BY <1>2 DEF KingdomAllows, authVars, Live, Bookkeeping, CallBook
    <2>2. Begun' = Begun \/ Begun' = Begun \cup {r}
      BY <1>2 DEF KingdomAllows, Proceed, Dispatch, Dispatching, callVars, Begun, Dispatched, TypeOK
    <2> QED
      BY <2>1, <2>2 DEF Authority!Begin
  <1>3. ASSUME NEW r \in Request, Step(r), ~Execute(r), ~KingdomAllows(r)
        PROVE  UNCHANGED <<Live, issued, spent, Begun>>
    <2>1. UNCHANGED <<Live, issued, spent>>
      BY <1>3 DEF Step, HeadersArrive, ApprovalCreated, KingdomDenies, ToolReturns,
                  PlaceholderReturns, Succeed, ToolThrows, ToolTimesOut, Fail, EffectLands, Refuse, authVars, Live
    <2>2. \A q \in Request : call'[q] = "none" <=> call[q] = "none"
      BY <1>3 DEF Step, HeadersArrive, ApprovalCreated, KingdomDenies, ToolReturns,
                  PlaceholderReturns, Succeed, ToolThrows, ToolTimesOut, Fail, EffectLands, Refuse, callVars, TypeOK
    <2> QED
      BY <2>1, <2>2 DEF Begun, Dispatched
  <1>4. CASE GrantStep
    <2>1. UNCHANGED <<spent, Begun>>
      BY <1>4 DEF GrantStep, callVars, Begun, Dispatched
    <2>2. ASSUME NEW g \in Grant, IssueGrant(g) PROVE Authority!Issue(g)
      <3>1. Live' = Live \cup {g}
        BY <2>2 DEF IssueGrant, AfterPurge, Live, TypeOK, GrantsTypeOK
      <3> QED
        BY <2>1, <2>2, <3>1 DEF IssueGrant, Authority!Issue
    <2>3. ASSUME NEW g \in Grant, RevokeGrant(g) \/ GrantExpires(g)
          PROVE  Authority!Withdraw(g)
      BY <2>1, <2>3 DEF RevokeGrant, GrantExpires, Live, Authority!Withdraw
    <2>4. CASE PurgeExpiredGrants
      BY <2>1, <2>4 DEF PurgeExpiredGrants, AfterPurge, Live
    <2> QED
      BY <1>4, <2>2, <2>3, <2>4 DEF GrantStep, GrantsNext
  <1>5. CASE BreakerStep \/ ConnectionFlips \/ UNCHANGED vars
             \/ \E a \in Approval, c \in Capability, p \in Params : RegisterApproval(a, c, p)
    BY <1>5 DEF BreakerStep, ConnectionFlips, RegisterApproval, vars, grantVars, authVars,
                callVars, Live, Begun, Dispatched
  <1> QED
    BY <1>1, <1>2, <1>3, <1>4, <1>5 DEF Next

\* The executor with its grant engine implements ExecutionAuthority.
THEOREM Implements == Spec => ImplementsAuthority
  BY InitAuthority, NextAuthority, BookkeepingHolds, PTL
  DEF Spec, ImplementsAuthority, Authority!Spec

\* What is answered of an effect is so, and no effect is without a trace.
THEOREM OutcomesAreHonest == Spec => []HonestOutcomes
  <1>1. SuccessIsReal /\ NoSilentEffect => HonestOutcomes
    BY DEF HonestOutcomes
  <1> QED
    BY <1>1, HonestSuccess, NothingSilent, PTL

-----------------------------------------------------------------------------

\* What the authority knows are grants.
GrantsAreKnown == issued \subseteq Grant

\* The abstract authority keeps its own invariant: what is live is known, is held by no request, and
\* no two requests hold the same.
LEMMA AuthorityKeepsApart ==
  Authority!HeldApart /\ GrantsAreKnown /\ [Authority!Next]_(Authority!authorityVars)
  => Authority!HeldApart'
  <1> SUFFICES ASSUME Authority!HeldApart, GrantsAreKnown,
                      [Authority!Next]_(Authority!authorityVars)
               PROVE  Authority!HeldApart'
    OBVIOUS
  <1> USE NoneAssumption DEF Authority!HeldApart, GrantsAreKnown
  <1>1. ASSUME NEW g \in Grant, Authority!Issue(g) PROVE Authority!HeldApart'
    BY <1>1 DEF Authority!Issue
  <1>2. ASSUME NEW g \in Grant, Authority!Withdraw(g) PROVE Authority!HeldApart'
    BY <1>2 DEF Authority!Withdraw
  <1>3. ASSUME NEW r \in Request, NEW g \in Grant, Authority!Take(r, g) PROVE Authority!HeldApart'
    BY <1>3 DEF Authority!Take
  <1>4. ASSUME NEW r \in Request, Authority!Begin(r) PROVE Authority!HeldApart'
    BY <1>4 DEF Authority!Begin
  <1> QED
    BY <1>1, <1>2, <1>3, <1>4 DEF Authority!Next, Authority!authorityVars

\* They stay so.
LEMMA AuthorityKnowsGrants ==
  GrantsAreKnown /\ [Authority!Next]_(Authority!authorityVars) => GrantsAreKnown'
  BY DEF GrantsAreKnown, Authority!Next, Authority!authorityVars, Authority!Issue, Authority!Withdraw,
         Authority!Take, Authority!Begin

\* The promise: whatever implements the authority begins one privileged call for each grant, and none
\* without.
THEOREM PromiseHolds == Authority!Spec => []Authority!OneCallPerGrant
  <1>1. Authority!Init => Authority!HeldApart /\ GrantsAreKnown
    BY DEF Authority!Init, Authority!HeldApart, GrantsAreKnown
  <1>2. Authority!HeldApart => Authority!OneCallPerGrant
    BY DEF Authority!HeldApart, Authority!OneCallPerGrant
  <1> QED
    BY <1>1, <1>2, AuthorityKeepsApart, AuthorityKnowsGrants, PTL DEF Authority!Spec

\* So does the executor with its grant engine.
THEOREM OneCallForEachGrant == Spec => []Authority!OneCallPerGrant
  BY Implements, PromiseHolds, PTL DEF ImplementsAuthority
=============================================================================
