----------------------------- MODULE TaskProofs -----------------------------
(***************************************************************************)
(* The tasks of the AVS module: TaskWait for every chain, timeout and safe *)
(* block, with the refinement of Await, and TaskStatus for every chain     *)
(* length, attestation lifetime and cache lag.  Each has an inductive      *)
(* invariant, IInv and StatusIInv, and the properties it implies.          *)
(***************************************************************************)
EXTENDS TaskWait, TaskStatus, TLAPS

-----------------------------------------------------------------------------
(* TaskWait. *)

\* Whichever way the task's id is spelled, its log is found among other tasks' logs, and is no
\* other's.
LEMMA LogsAreCompared ==
  ASSUME TypeOK, NEW blocks
  PROVE  HasLog(blocks) <=> respondedAt \in blocks
<1>1. padHex(taskId) = [task |-> "this", padded |-> TRUE]
  BY DEF TypeOK, Ids, padHex
<1>2. \A t \in {"this", "another"} : LET id == [task |-> t, padded |-> TRUE] IN padHex(id) = id
  BY DEF padHex
<1>3. [task |-> "another", padded |-> TRUE] # [task |-> "this", padded |-> TRUE]
  OBVIOUS
<1>4. LogsIn(blocks) = {[task |-> t, padded |-> TRUE] :
                          t \in {"another"} \cup IF respondedAt \in blocks THEN {"this"} ELSE {}}
  BY DEF LogsIn
<1>5. CASE respondedAt \in blocks
  <2>1. [task |-> "this", padded |-> TRUE] \in LogsIn(blocks)
    BY <1>4, <1>5
  <2>2. QED
    BY <1>1, <1>2, <1>5, <2>1 DEF HasLog
<1>6. CASE respondedAt \notin blocks
  <2>1. \A id \in LogsIn(blocks) : id = [task |-> "another", padded |-> TRUE]
    BY <1>4, <1>6
  <2>2. QED
    BY <1>1, <1>2, <1>3, <1>6, <2>1 DEF HasLog
<1>7. QED
  BY <1>5, <1>6

LEMMA InitIInv == Init => IInv
<1> SUFFICES ASSUME Init PROVE IInv
  OBVIOUS
<1> USE TaskWaitAssumption DEF Init, NoBlock, NoTimer, Waiting
<1>1. TypeOK
  <2>1. /\ head \in 0..MaxBlock
        /\ respondedAt \in 1..MaxBlock \cup {NoBlock}
        /\ taskRequestedAtBlock \in 0..MaxBlock \cup {NoBlock}
        /\ historyTo \in 0..MaxBlock \cup {NoBlock}
        /\ watchFrom \in 0..MaxBlock \cup {NoBlock}
    OBVIOUS
  <2>2. /\ timeoutMs \in {0, TimeoutMs}
        /\ waited \in 0..(MaxHistory + TimeoutMs)
        /\ timer \in 1..(MaxHistory + TimeoutMs) \cup {NoTimer}
    OBVIOUS
  <2>3. /\ pc \in {"idle", "posting", "built", "done"} \cup Waiting
        /\ outcome \in {"pending", "resolved"} \cup Reasons
    OBVIOUS
  <2>4. QED
    BY <2>1, <2>2, <2>3 DEF TypeOK
<1>2. ReadsAreOfThePast
  BY DEF ReadsAreOfThePast
<1>3. StageHolds
  BY DEF StageHolds
<1>4. HistoryIsTrue /\ RequestBlockPrecedesResponse
  BY DEF HistoryIsTrue, RequestBlockPrecedesResponse
<1>5. QED
  BY <1>1, <1>2, <1>3, <1>4 DEF IInv

\* Each stage's own steps keep every variable in its type.
LEMMA StepTypeOK == IInv /\ [Next]_vars => TypeOK'
<1> SUFFICES ASSUME IInv, [Next]_vars PROVE TypeOK'
  OBVIOUS
<1> USE TaskWaitAssumption DEF IInv, TypeOK, args, history, resources
<1>1. CASE CreatedElsewhere
  BY <1>1 DEF CreatedElsewhere
<1>2. CASE Mine
  BY <1>2 DEF Mine
<1>3. CASE ReadRequestBlock
  BY <1>3 DEF ReadRequestBlock, env
<1>4. CASE GatewayCreatesTask
  BY <1>4 DEF GatewayCreatesTask
<1>5. CASE CreateTaskReplies
  BY <1>5 DEF CreateTaskReplies, env
<1>6. CASE CreateTaskFails
  BY <1>6 DEF CreateTaskFails, env, Reasons
<1>7. CASE BuilderWait
  BY <1>7 DEF BuilderWait, env, Waiting
<1>8. CASE DirectWait
  BY <1>8 DEF DirectWait, env, Waiting
<1>9. CASE WaitWithoutTaskId
  BY <1>9 DEF WaitWithoutTaskId, env, Reasons
<1>10. CASE HistoryQuery
  BY <1>10 DEF HistoryQuery, HasLog, env, Waiting
<1>11. CASE HistoryFails
  BY <1>11 DEF HistoryFails, env, Reasons
<1>12. CASE HistoryReply
  <2>1. UNCHANGED <<env, args, history, aborted, waited, watchFrom>>
    BY <1>12 DEF HistoryReply
  <2>2. /\ pc' \in {"idle", "posting", "built", "done"} \cup Waiting
        /\ outcome' \in {"pending", "resolved"} \cup Reasons
    BY <1>12 DEF HistoryReply, Settle, Waiting, Reasons
  <2>3. listening' \in BOOLEAN /\ subscribed' \in BOOLEAN
    BY <1>12 DEF HistoryReply, Cleanup
  <2>4. timer' \in 1..(MaxHistory + TimeoutMs) \cup {NoTimer}
    <3>1. pc = "answering" /\ waited <= MaxHistory
      BY <1>12 DEF HistoryReply, StageHolds
    <3>2. DueTime \in 1..(MaxHistory + TimeoutMs) \cup {NoTimer}
      BY <3>1 DEF DueTime, NoTimer
    <3>3. timer' \in {timer, NoTimer, DueTime}
      BY <1>12 DEF HistoryReply, Cleanup
    <3>4. QED
      BY <3>2, <3>3
  <2>5. QED
    BY <2>1, <2>2, <2>3, <2>4 DEF env
<1>13. CASE WatchBegins
  BY <1>13 DEF WatchBegins, env
<1>14. CASE OnLogs \/ OnError \/ TimerFires \/ Abort
  <2>1. UNCHANGED <<env, args, history, waited, watchFrom>>
    BY <1>14 DEF OnLogs, OnError, TimerFires, Abort
  <2>2. timer' \in {timer, NoTimer} /\ subscribed' \in BOOLEAN
    BY <1>14 DEF OnLogs, OnError, TimerFires, Abort, Cleanup
  <2>3. listening' \in BOOLEAN /\ aborted' \in BOOLEAN
    BY <1>14 DEF OnLogs, OnError, TimerFires, Abort
  <2>4. /\ pc' \in {pc, "done"}
        /\ outcome' \in {"resolved", outcome, "rpc_error", "timeout", "aborted"}
    BY <1>14 DEF OnLogs, OnError, TimerFires, Abort, Settle
  <2>5. QED
    BY <2>1, <2>2, <2>3, <2>4 DEF env, Reasons
<1>15. CASE Tick
  BY <1>15 DEF Tick, NoTimer, env
<1>16. CASE UNCHANGED vars
  BY <1>16 DEF vars, env
<1>17. QED
  BY <1>1, <1>2, <1>3, <1>4, <1>5, <1>6, <1>7, <1>8, <1>9, <1>10, <1>11, <1>12, <1>13,
     <1>14, <1>15, <1>16 DEF Next

\* The chain only grows, and the caller's reads are of what it has.
LEMMA StepReads ==
  IInv /\ [Next]_vars => ReadsAreOfThePast' /\ RequestBlockPrecedesResponse'
<1> SUFFICES ASSUME IInv, [Next]_vars
             PROVE  ReadsAreOfThePast' /\ RequestBlockPrecedesResponse'
  OBVIOUS
<1> USE TaskWaitAssumption
    DEF IInv, TypeOK, ReadsAreOfThePast, RequestBlockPrecedesResponse, StageHolds,
        NoBlock, Waiting, env, args, history, resources
<1>1. CASE CreatedElsewhere \/ Mine
  BY <1>1 DEF CreatedElsewhere, Mine
<1>2. CASE ReadRequestBlock \/ GatewayCreatesTask \/ CreateTaskReplies \/ CreateTaskFails
  BY <1>2 DEF ReadRequestBlock, GatewayCreatesTask, CreateTaskReplies, CreateTaskFails
<1>3. CASE BuilderWait \/ DirectWait \/ WaitWithoutTaskId
  BY <1>3 DEF BuilderWait, DirectWait, WaitWithoutTaskId
<1>4. CASE HistoryQuery \/ HistoryFails
  BY <1>4 DEF HistoryQuery, HistoryFails
<1>5. CASE HistoryReply
  BY <1>5 DEF HistoryReply
<1>6. CASE WatchBegins \/ OnLogs \/ OnError \/ TimerFires \/ Abort
  BY <1>6 DEF WatchBegins, OnLogs, OnError, TimerFires, Abort
<1>7. CASE Tick
  BY <1>7 DEF Tick
<1>8. CASE UNCHANGED vars
  BY <1>8 DEF vars
<1>9. QED
  BY <1>1, <1>2, <1>3, <1>4, <1>5, <1>6, <1>7, <1>8 DEF Next

\* A stage holds no more than its own timer, listener and watch.
LEMMA StepStage == IInv /\ [Next]_vars => StageHolds'
<1> SUFFICES ASSUME IInv, [Next]_vars PROVE StageHolds'
  OBVIOUS
<1> USE TaskWaitAssumption
    DEF IInv, TypeOK, StageHolds, NoBlock, NoTimer, Reasons, Waiting,
        env, args, history, resources
<1>1. CASE CreatedElsewhere \/ Mine
  BY <1>1 DEF CreatedElsewhere, Mine
<1>2. CASE ReadRequestBlock \/ GatewayCreatesTask \/ CreateTaskReplies \/ CreateTaskFails
  BY <1>2 DEF ReadRequestBlock, GatewayCreatesTask, CreateTaskReplies, CreateTaskFails
<1>3. CASE BuilderWait \/ DirectWait \/ WaitWithoutTaskId
  BY <1>3 DEF BuilderWait, DirectWait, WaitWithoutTaskId
<1>4. CASE HistoryQuery \/ HistoryFails
  BY <1>4 DEF HistoryQuery, HistoryFails
<1>5. CASE HistoryReply
  BY <1>5 DEF HistoryReply, Cleanup, Settle, DueTime
<1>6. CASE WatchBegins
  BY <1>6 DEF WatchBegins
<1>7. CASE OnLogs \/ OnError \/ TimerFires
  BY <1>7 DEF OnLogs, OnError, TimerFires, Cleanup, Settle
<1>8. CASE Abort
  BY <1>8 DEF Abort, Cleanup, Settle
<1>9. CASE Tick
  BY <1>9 DEF Tick
<1>10. CASE UNCHANGED vars
  BY <1>10 DEF vars
<1>11. QED
  BY <1>1, <1>2, <1>3, <1>4, <1>5, <1>6, <1>7, <1>8, <1>9, <1>10 DEF Next

\* What the history query found stays true: a later response is in a later block.
LEMMA StepHistory == IInv /\ [Next]_vars => HistoryIsTrue'
<1> SUFFICES ASSUME IInv, [Next]_vars PROVE HistoryIsTrue'
  OBVIOUS
<1> USE TaskWaitAssumption
    DEF IInv, TypeOK, HistoryIsTrue, FromBlock, NoBlock, Waiting,
        env, args, history, resources
<1>1. CASE CreatedElsewhere
  BY <1>1 DEF CreatedElsewhere
<1>2. CASE Mine
  BY <1>2 DEF Mine, ReadsAreOfThePast
<1>3. CASE ReadRequestBlock \/ GatewayCreatesTask \/ CreateTaskReplies \/ CreateTaskFails
  BY <1>3 DEF ReadRequestBlock, GatewayCreatesTask, CreateTaskReplies, CreateTaskFails
<1>4. CASE BuilderWait \/ DirectWait \/ WaitWithoutTaskId
  BY <1>4 DEF BuilderWait, DirectWait, WaitWithoutTaskId
<1>5. CASE HistoryQuery \/ HistoryFails
  <2>1. HasLog(Covered(head)) <=> respondedAt \in Covered(head)
    BY LogsAreCompared
  <2>2. QED
    BY <1>5, <2>1 DEF HistoryQuery, HistoryFails, Covered, ReadsAreOfThePast
<1>6. CASE HistoryReply
  BY <1>6 DEF HistoryReply, Settle
<1>7. CASE WatchBegins \/ OnLogs \/ OnError \/ TimerFires \/ Abort
  BY <1>7 DEF WatchBegins, OnLogs, OnError, TimerFires, Abort, Settle
<1>8. CASE Tick
  BY <1>8 DEF Tick
<1>9. CASE UNCHANGED vars
  BY <1>9 DEF vars
<1>10. QED
  BY <1>1, <1>2, <1>3, <1>4, <1>5, <1>6, <1>7, <1>8, <1>9 DEF Next

\* The inductive invariant holds in every behaviour of the wait
\* (src/modules/avs/index.ts:67-145, 223-278).
THEOREM Invariance == Spec => []IInv
<1>1. IInv /\ [Next]_vars => IInv'
  BY StepTypeOK, StepReads, StepStage, StepHistory DEF IInv
<1>2. QED
  BY InitIInv, <1>1, PTL DEF Spec

\* Every variable keeps its type: in particular no wait arms a timer that is due at once,
\* and the clock stops at the history bound plus the timeout.
THEOREM TypeInvariant == Spec => []TypeOK
<1>1. IInv => TypeOK
  BY DEF IInv
<1>2. QED
  BY <1>1, Invariance, PTL

\* The block submitEvaluationRequest reads precedes its task's response (index.ts:233).
THEOREM RequestBlockBounds == Spec => []RequestBlockPrecedesResponse
<1>1. IInv => RequestBlockPrecedesResponse
  BY DEF IInv
<1>2. QED
  BY <1>1, Invariance, PTL

\* The history query and the watch leave out the gap between them and nothing else
\* (index.ts:87-94, 124-143).
THEOREM GapOnly == Spec => []OnlyTheGapIsMissed
<1>1. IInv => OnlyTheGapIsMissed
  BY DEF IInv, TypeOK, StageHolds, HistoryIsTrue, ReadsAreOfThePast, OnlyTheGapIsMissed
<1>2. QED
  BY <1>1, Invariance, PTL

\* A settled wait holds no timer and no watch (index.ts:104-108).
THEOREM NothingRunsOn == Spec => []SettledReleases
<1>1. IInv => SettledReleases
  BY DEF IInv, StageHolds, SettledReleases
<1>2. QED
  BY <1>1, Invariance, PTL

-----------------------------------------------------------------------------
(* The refinement of Await: what the wait promises whoever called it. *)

\* Causes arise and stay: a step that leaves the wait's arguments alone, or gives the
\* arguments of a wait that has not begun, takes none back.
LEMMA CausesStay == IInv /\ [Next]_vars => ArisenCauses \subseteq ArisenCauses'
<1> SUFFICES ASSUME IInv, [Next]_vars PROVE ArisenCauses \subseteq ArisenCauses'
  OBVIOUS
<1>1. CASE BuilderWait \/ DirectWait
  <2>1. pc \in {"idle", "posting", "built"} /\ waited' = waited
    BY <1>1 DEF BuilderWait, DirectWait
  <2>2. waited = 0
    BY <2>1 DEF IInv, StageHolds
  <2>3. ~signal
    BY <2>1 DEF IInv, StageHolds, Waiting
  <2>4. "timeout" \notin ArisenCauses /\ "aborted" \notin ArisenCauses
    BY <2>2, <2>3, TaskWaitAssumption DEF ArisenCauses, IInv, TypeOK
  <2>5. QED
    BY <2>4 DEF ArisenCauses
<1>2. CASE ~(BuilderWait \/ DirectWait)
  <2>1. UNCHANGED <<timeoutMs, signal>>
    BY <1>2 DEF Next, vars, args, CreatedElsewhere, Mine, ReadRequestBlock,
       GatewayCreatesTask, CreateTaskReplies, CreateTaskFails, WaitWithoutTaskId,
       HistoryQuery, HistoryFails, HistoryReply, WatchBegins, OnLogs, OnError, TimerFires,
       Abort, Tick
  <2>2. waited' \in {waited, waited + 1} /\ aborted' \in {aborted, TRUE}
    BY <1>2 DEF Next, vars, CreatedElsewhere, Mine, ReadRequestBlock,
       GatewayCreatesTask, CreateTaskReplies, CreateTaskFails, WaitWithoutTaskId,
       HistoryQuery, HistoryFails, HistoryReply, WatchBegins, OnLogs, OnError, TimerFires,
       Abort, Tick
  <2>3. waited \in Nat /\ timeoutMs \in Nat
    BY TaskWaitAssumption DEF IInv, TypeOK
  <2>4. timeoutMs > 0 /\ waited >= timeoutMs => timeoutMs' > 0 /\ waited' >= timeoutMs'
    BY <2>1, <2>2, <2>3
  <2>5. signal /\ aborted => signal' /\ aborted'
    BY <2>1, <2>2
  <2>6. QED
    BY <2>4, <2>5 DEF ArisenCauses
<1>3. QED
  BY <1>1, <1>2

\* A response, once on the chain, stays.
LEMMA ResponseStays == IInv /\ [Next]_vars => (respondedAt # NoBlock => respondedAt' # NoBlock)
BY DEF IInv, TypeOK, NoBlock, env, Next, vars, CreatedElsewhere, Mine, ReadRequestBlock,
   GatewayCreatesTask, CreateTaskReplies, CreateTaskFails, BuilderWait, DirectWait,
   WaitWithoutTaskId, HistoryQuery, HistoryFails, HistoryReply, WatchBegins, OnLogs, OnError,
   TimerFires, Abort, Tick

\* The promise settles once, and for a reason.
LEMMA SettlesOnce ==
  IInv /\ [Next]_vars =>
    \/ UNCHANGED outcome
    \/ outcome = "pending" /\ respondedAt' # NoBlock /\ outcome' = "resolved"
    \/ outcome = "pending" /\ outcome' \in ArisenCauses'
<1> SUFFICES ASSUME IInv, [Next]_vars, outcome' # outcome
             PROVE  /\ outcome = "pending"
                    /\ \/ respondedAt' # NoBlock /\ outcome' = "resolved"
                       \/ outcome' \in ArisenCauses'
  OBVIOUS
<1> USE DEF IInv, env, args, Settle, ArisenCauses, Reasons
<1>1. CASE CreateTaskFails \/ WaitWithoutTaskId \/ HistoryFails
  BY <1>1 DEF CreateTaskFails, WaitWithoutTaskId, HistoryFails, StageHolds
<1>2. CASE HistoryReply
  BY <1>2 DEF HistoryReply, AlreadyAborted, HistoryIsTrue
<1>3. CASE OnLogs
  <2>1. respondedAt \in (watchFrom + 1)..head
    BY <1>3, LogsAreCompared DEF OnLogs
  <2>2. QED
    BY <1>3, <2>1 DEF OnLogs, TypeOK, NoBlock
<1>4. CASE OnError
  BY <1>4 DEF OnError
<1>5. CASE TimerFires
  BY <1>5, TaskWaitAssumption DEF TimerFires, StageHolds, TypeOK, NoTimer
<1>6. CASE Abort
  BY <1>6 DEF Abort, StageHolds
<1>7. QED
  BY <1>1, <1>2, <1>3, <1>4, <1>5, <1>6
  DEF Next, vars, CreatedElsewhere, Mine, ReadRequestBlock, GatewayCreatesTask,
      CreateTaskReplies, BuilderWait, DirectWait, HistoryQuery, WatchBegins, Tick

\* waitForTaskResponded settles at most once, resolves only with a response that is on the
\* chain, and gives no reason that has not arisen (index.ts:100-144).
THEOREM Refinement == Spec => ImplementsAwait
<1>1. Init => A!Init
  BY DEF Init, A!Init, ArisenCauses, Reasons
<1>2. IInv /\ [Next]_vars => [A!Next]_A!awaitVars
  BY CausesStay, ResponseStays, SettlesOnce
  DEF A!Next, A!Advance, A!Resolve, A!Reject, A!awaitVars, ArisenCauses
<1>3. QED
  BY <1>1, <1>2, Invariance, PTL DEF Spec, ImplementsAwait, A!Spec

-----------------------------------------------------------------------------
(* TaskStatus. *)

\* A status is one of the enumeration's.
LEMMA StatusAtTypes == \A latest : StatusAt(latest) \in Statuses \cup {"unknown"}
BY DEF StatusAt, Statuses

LEMMA InitStatusIInv == StatusInit => StatusIInv
<1> SUFFICES ASSUME StatusInit PROVE StatusIInv
  OBVIOUS
<1>1. StatusTypeOK
  <2>1. block \in 1..(LastBlock + 1)
    BY TaskStatusAssumption DEF StatusInit
  <2>2. expiration \in Nat \cup {SPENT_SENTINEL} /\ seenExpiration \in Nat
    BY DEF StatusInit, NoAttestation
  <2>3. QED
    BY <2>1, <2>2 DEF StatusInit, StatusTypeOK
<1>2. ChainHolds /\ CallKnows
  BY DEF StatusInit, ChainHolds, CallKnows, Dead
<1>3. ChallengeOutranks /\ TornOnlyByRaces /\ DeadIsDead
  BY DEF StatusInit, ChallengeOutranks, TornOnlyByRaces, DeadIsDead, Statuses, Dead
<1>4. QED
  BY <1>1, <1>2, <1>3 DEF StatusIInv

ChainMoves == NextBlock \/ Create \/ Respond \/ Spend \/ Challenge

\* A step of the chain: the call in flight keeps what it knows.
LEMMA ChainKeepsIInv == StatusIInv /\ ChainMoves => StatusIInv'
<1> SUFFICES ASSUME StatusIInv, ChainMoves PROVE StatusIInv'
  OBVIOUS
<1>0. StatusTypeOK /\ ChainHolds /\ CallKnows
  BY DEF StatusIInv
<1>a. /\ UNCHANGED <<hasVerifier, reading, seenResponded, seenExpiration, answer, knownChallenged>>
      /\ held' = IF reading = "idle" THEN held ELSE held \cup StatusesNow'
      /\ raced' \in {raced, TRUE}
  BY <1>0
  DEF ChainMoves, NextBlock, Create, Respond, Spend, Challenge, Observed, seenVars,
      StatusTypeOK
<1>1. StatusTypeOK'
  <2>1. /\ block' \in 1..(LastBlock + 1)
        /\ created' \in BOOLEAN /\ responded' \in BOOLEAN /\ challenged' \in BOOLEAN
    <3>1. block' = block \/ (block <= LastBlock /\ block' = block + 1)
      BY DEF ChainMoves, NextBlock, Create, Respond, Spend, Challenge
    <3>2. block' \in 1..(LastBlock + 1)
      BY <1>0, <3>1, TaskStatusAssumption DEF StatusTypeOK
    <3>3. QED
      BY <1>0, <3>2 DEF ChainMoves, NextBlock, Create, Respond, Spend, Challenge, StatusTypeOK
  <2>2. expiration' \in Nat \cup {SPENT_SENTINEL}
    <3>1. expiration' \in {expiration, NoAttestation, SPENT_SENTINEL, block + Ttl}
      BY DEF ChainMoves, NextBlock, Create, Respond, Spend, Challenge
    <3>2. block + Ttl \in Nat /\ NoAttestation \in Nat
      BY <1>0, TaskStatusAssumption DEF StatusTypeOK, NoAttestation
    <3>3. QED
      BY <1>0, <3>1, <3>2 DEF StatusTypeOK
  <2>3. held' \subseteq Statuses \cup {"unknown"}
    <3>1. StatusesNow' \subseteq Statuses \cup {"unknown"}
      BY DEF StatusesNow, StatusAt, Statuses
    <3>2. QED
      BY <1>0, <1>a, <3>1 DEF StatusTypeOK
  <2>4. raced' \in BOOLEAN
    BY <1>0, <1>a DEF StatusTypeOK
  <2>5. QED
    BY <1>0, <1>a, <2>1, <2>2, <2>3, <2>4 DEF StatusTypeOK
<1>2. ChainHolds'
  <2>0. UNCHANGED hasVerifier
    BY <1>a
  <2>1. CASE NextBlock \/ Create
    <3>1. created' \in {created, TRUE} /\ UNCHANGED <<responded, challenged, expiration>>
      BY <2>1 DEF NextBlock, Create
    <3>2. QED
      BY <1>0, <2>0, <3>1 DEF ChainHolds
  <2>2. CASE Respond
    BY <1>0, <1>a, <2>2 DEF Respond, ChainHolds
  <2>3. CASE Spend
    BY <1>0, <1>a, <2>3 DEF Spend, Usable, ChainHolds
  <2>4. CASE Challenge
    BY <1>0, <1>a, <2>4 DEF Challenge, ChainHolds
  <2>5. QED
    BY <2>1, <2>2, <2>3, <2>4 DEF ChainMoves
<1>3. CallKnows'
  <2>1. reading # "idle" => StatusesNow' \subseteq held' /\ held \subseteq held'
    BY <1>a
  <2>2. /\ created => created'
        /\ responded => responded'
        /\ challenged => challenged'
        /\ raced => raced'
    <3>1. /\ created' \in {created, TRUE} /\ responded' \in {responded, TRUE}
          /\ challenged' \in {challenged, TRUE}
      BY DEF ChainMoves, NextBlock, Create, Respond, Spend, Challenge
    <3>2. raced' \in {raced, TRUE}
      BY <1>a
    <3>3. /\ created \in BOOLEAN /\ responded \in BOOLEAN /\ challenged \in BOOLEAN
          /\ raced \in BOOLEAN
      BY <1>0 DEF StatusTypeOK
    <3>4. QED
      BY <3>1, <3>2, <3>3
  <2>3. reading # "idle" /\ challenged' => challenged \/ raced'
    BY <1>0 DEF ChainMoves, NextBlock, Create, Respond, Spend, Challenge, Observed
  <2>4. reading # "idle" /\ responded /\ expiration' # expiration =>
          raced' /\ expiration' \in {SPENT_SENTINEL, NoAttestation}
    BY <1>0 DEF ChainMoves, NextBlock, Create, Respond, Spend, Challenge, Observed
  <2>5. QED
    BY <1>0, <1>a, <2>1, <2>2, <2>3, <2>4 DEF CallKnows
<1>4. ChallengeOutranks' /\ TornOnlyByRaces'
  BY <1>0, <1>a DEF StatusIInv, ChallengeOutranks, TornOnlyByRaces, CallKnows, Statuses
<1>5. DeadIsDead'
  <2> SUFFICES ASSUME answer \in Dead PROVE ~Usable'
    BY <1>a DEF DeadIsDead
  <2>1. ~Usable /\ (responded \/ challenged)
    BY <1>0 DEF StatusIInv, DeadIsDead, CallKnows
  <2>2. CASE NextBlock
    <3>1. block' = block + 1 /\ UNCHANGED <<responded, challenged, expiration>>
      BY <2>2 DEF NextBlock
    <3>2. expiration # SPENT_SENTINEL /\ block' <= expiration => block <= expiration
      BY <1>0, <3>1 DEF StatusTypeOK
    <3>3. QED
      BY <2>1, <3>1, <3>2 DEF Usable
  <2>3. CASE Create
    BY <2>1, <2>3 DEF Create, Usable
  <2>4. CASE Respond
    BY <2>1, <2>4 DEF Respond
  <2>5. CASE Spend \/ Challenge
    BY <2>5 DEF Spend, Challenge, Usable
  <2>6. QED
    BY <2>2, <2>3, <2>4, <2>5 DEF ChainMoves
<1>6. QED
  BY <1>1, <1>2, <1>3, <1>4, <1>5 DEF StatusIInv

CallMoves ==
  \/ GetTaskStatus \/ ReadHash \/ ReadResponses \/ ReadChallenged
  \/ ReadExpiration \/ ReadBlock \/ ReadFails

\* A step of the call: what it returns is what the reads showed.
LEMMA CallKeepsIInv == StatusIInv /\ CallMoves => StatusIInv'
<1> SUFFICES ASSUME StatusIInv, CallMoves PROVE StatusIInv'
  OBVIOUS
<1>0. StatusTypeOK /\ ChainHolds /\ CallKnows
  BY DEF StatusIInv
<1>a. UNCHANGED chainVars
  BY DEF CallMoves, GetTaskStatus, ReadHash, ReadResponses, ReadChallenged, ReadExpiration,
     ReadBlock, ReadFails
<1>b. UNCHANGED <<block, created, responded, expiration, hasVerifier, challenged>>
  BY <1>a DEF chainVars
<1>c. StatusesNow' = StatusesNow /\ Usable' = Usable
  BY <1>b DEF StatusesNow, Heads, StatusAt, Usable
<1>d. block \in Heads
  BY <1>0, TaskStatusAssumption DEF Heads, StatusTypeOK
<1> USE DEF Goto, Return, histories, seenVars, Reading
<1>1. ChainHolds'
  BY <1>0, <1>b DEF ChainHolds
<1>2. CASE GetTaskStatus
  <2>1. StatusTypeOK'
    <3>1. held' \subseteq Statuses \cup {"unknown"}
      BY <1>2, StatusAtTypes DEF GetTaskStatus, StatusesNow
    <3>2. QED
      BY <1>0, <1>b, <1>2, <3>1 DEF GetTaskStatus, StatusTypeOK
  <2>2. CallKnows' /\ ChallengeOutranks' /\ TornOnlyByRaces' /\ DeadIsDead'
    BY <1>0, <1>b, <1>c, <1>2
    DEF GetTaskStatus, CallKnows, ChallengeOutranks, TornOnlyByRaces, DeadIsDead, Dead, Statuses
  <2>3. QED
    BY <1>1, <2>1, <2>2 DEF StatusIInv
<1>3. CASE ReadHash \/ ReadFails
  <2>1. StatusTypeOK'
    BY <1>0, <1>b, <1>3 DEF ReadHash, ReadFails, StatusTypeOK
  <2>2. CallKnows' /\ ChallengeOutranks' /\ TornOnlyByRaces' /\ DeadIsDead'
    BY <1>0, <1>b, <1>c, <1>3
    DEF ReadHash, ReadFails, StatusIInv, CallKnows, ChallengeOutranks, TornOnlyByRaces, DeadIsDead,
        Dead, Statuses
  <2>3. QED
    BY <1>1, <2>1, <2>2 DEF StatusIInv
<1>e. ASSUME reading # "idle", NEW latest \in Heads PROVE StatusAt(latest) \in held
  BY <1>0, <1>e DEF CallKnows, StatusesNow
<1> USE DEF Statuses, Dead
<1>4. CASE ReadResponses
  <2>1. StatusTypeOK'
    BY <1>0, <1>b, <1>4 DEF ReadResponses, AfterResponses, StatusTypeOK
  <2>2. /\ reading = "responses" /\ created /\ seenResponded' = responded
        /\ UNCHANGED <<held, raced, knownChallenged>>
        /\ StatusesNow \subseteq held /\ answer = "none"
    BY <1>0, <1>4 DEF ReadResponses, AfterResponses, CallKnows
  <2>3. ~challenged /\ ~responded => "Created" \in held
    BY <1>d, <1>e, <2>2 DEF StatusAt
  <2>4. ~hasVerifier => ~challenged /\ ~knownChallenged
    BY <1>0 DEF ChainHolds, CallKnows
  <2>5. CallKnows'
    BY <1>0, <1>b, <1>c, <1>4, <2>2, <2>3, <2>4 DEF ReadResponses, AfterResponses, CallKnows
  <2>6. ChallengeOutranks' /\ TornOnlyByRaces' /\ DeadIsDead'
    BY <1>0, <1>4, <2>2, <2>3, <2>4
    DEF ReadResponses, AfterResponses, ChallengeOutranks, TornOnlyByRaces, DeadIsDead
  <2>7. QED
    BY <1>1, <2>1, <2>5, <2>6 DEF StatusIInv
<1>5. CASE ReadChallenged
  <2>1. StatusTypeOK'
    BY <1>0, <1>b, <1>5 DEF ReadChallenged, StatusTypeOK
  <2>2. /\ reading = "challenged" /\ created /\ UNCHANGED seenVars
        /\ UNCHANGED <<held, raced, knownChallenged>>
        /\ StatusesNow \subseteq held /\ answer = "none"
    BY <1>0, <1>5 DEF ReadChallenged, CallKnows
  <2>3. challenged => "SuccessfullyChallenged" \in held
    BY <1>d, <1>e, <2>2 DEF StatusAt
  <2>4. CallKnows'
    BY <1>0, <1>b, <1>c, <1>5, <2>2 DEF ReadChallenged, CallKnows
  <2>5. ChallengeOutranks' /\ TornOnlyByRaces'
    BY <1>0, <1>5, <2>2, <2>3
    DEF ReadChallenged, ChallengeOutranks, TornOnlyByRaces, CallKnows
  <2>6. DeadIsDead'
    BY <1>0, <1>c, <1>5, <2>2 DEF ReadChallenged, DeadIsDead, Usable
  <2>7. QED
    BY <1>1, <2>1, <2>4, <2>5, <2>6 DEF StatusIInv
<1>6. CASE ReadExpiration
  <2>1. StatusTypeOK'
    <3>1. seenExpiration' \in Nat
      BY <1>0, <1>6 DEF ReadExpiration, AfterExpiration, StatusTypeOK
    <3>2. reading' \in {"idle", "block"} /\ answer' \in {answer, "AttestationSpent", "Responded"}
      BY <1>6 DEF ReadExpiration, AfterExpiration
    <3>3. UNCHANGED <<seenResponded, held, raced, knownChallenged>>
      BY <1>6 DEF ReadExpiration, AfterExpiration
    <3>4. QED
      BY <1>0, <1>b, <3>1, <3>2, <3>3 DEF StatusTypeOK
  <2>2. /\ reading = "expiration" /\ created /\ responded /\ seenResponded' = seenResponded
        /\ UNCHANGED <<held, raced, knownChallenged>>
        /\ StatusesNow \subseteq held /\ answer = "none"
        /\ ~knownChallenged /\ (raced \/ ~challenged)
    BY <1>0, <1>6 DEF ReadExpiration, AfterExpiration, CallKnows
  <2>3. /\ ~raced /\ expiration = SPENT_SENTINEL => "AttestationSpent" \in held
        /\ ~raced /\ expiration = NoAttestation => "Responded" \in held
    BY <1>d, <1>e, <2>2 DEF StatusAt, SPENT_SENTINEL, NoAttestation
  <2>4. CallKnows'
    BY <1>0, <1>b, <1>c, <1>6, <2>2 DEF ReadExpiration, AfterExpiration, CallKnows
  <2>5. ChallengeOutranks' /\ TornOnlyByRaces'
    BY <1>0, <1>6, <2>2, <2>3
    DEF ReadExpiration, AfterExpiration, ChallengeOutranks, TornOnlyByRaces
  <2>6. DeadIsDead'
    BY <1>0, <1>c, <1>6, <2>2 DEF ReadExpiration, AfterExpiration, DeadIsDead, Usable
  <2>7. QED
    BY <1>1, <2>1, <2>4, <2>5, <2>6 DEF StatusIInv
<1>7. CASE ReadBlock
  <2>0. PICK latest \in Heads :
          Return(IF Expired(latest, seenExpiration) THEN "AttestationExpired" ELSE "Responded")
    BY <1>7 DEF ReadBlock
  <2>1. StatusTypeOK'
    BY <1>0, <1>b, <1>7, <2>0 DEF ReadBlock, StatusTypeOK
  <2>2. /\ reading = "block" /\ created /\ responded /\ UNCHANGED seenVars
        /\ UNCHANGED <<held, raced, knownChallenged>>
        /\ StatusesNow \subseteq held /\ answer = "none" /\ reading' = "idle"
        /\ ~knownChallenged /\ (raced \/ ~challenged)
        /\ seenExpiration # NoAttestation /\ (raced \/ expiration = seenExpiration)
        /\ expiration \in {seenExpiration, SPENT_SENTINEL, NoAttestation}
    BY <1>0, <1>7, <2>0 DEF ReadBlock, CallKnows
  <2>3. ~raced => answer' \in held
    <3>1. seenExpiration # SPENT_SENTINEL
      BY <1>0 DEF StatusTypeOK, SPENT_SENTINEL
    <3>2. ~raced => answer' = StatusAt(latest)
      BY <2>0, <2>2, <3>1 DEF StatusAt, Expired
    <3>3. QED
      BY <1>e, <2>2, <3>2
  <2>4. CallKnows'
    BY <1>0, <1>b, <1>c, <2>0, <2>2 DEF CallKnows
  <2>5. ChallengeOutranks' /\ TornOnlyByRaces'
    BY <2>2, <2>3 DEF ChallengeOutranks, TornOnlyByRaces
  <2>6. DeadIsDead'
    <3>1. CASE expiration = seenExpiration
      <4>1. latest \in Nat /\ block \in Nat /\ latest <= block /\ seenExpiration \in Nat
        BY <1>0, <2>0 DEF Heads, StatusTypeOK
      <4>2. latest > seenExpiration => ~(block <= expiration)
        BY <3>1, <4>1
      <4>3. QED
        BY <1>c, <2>0, <4>2 DEF DeadIsDead, Usable, Expired
    <3>2. CASE expiration \in {SPENT_SENTINEL, NoAttestation}
      BY <1>c, <3>2 DEF DeadIsDead, Usable
    <3>3. QED
      BY <2>2, <3>1, <3>2
  <2>7. QED
    BY <1>1, <2>1, <2>4, <2>5, <2>6 DEF StatusIInv
<1>8. QED
  BY <1>2, <1>3, <1>4, <1>5, <1>6, <1>7 DEF CallMoves

-----------------------------------------------------------------------------
(* The theorems. *)

\* The inductive invariant holds whatever the chain does between the reads of a status
\* (src/modules/avs/index.ts:147-221).
THEOREM StatusInvariance == StatusSpec => []StatusIInv
<1>1. StatusIInv /\ UNCHANGED statusVars => StatusIInv'
  BY DEF statusVars, chainVars, seenVars, histories, StatusIInv, StatusTypeOK, ChainHolds,
     CallKnows, ChallengeOutranks, TornOnlyByRaces, DeadIsDead, Usable, StatusesNow, StatusAt, Heads
<1>2. StatusIInv /\ [StatusNext]_statusVars => StatusIInv'
  BY <1>1, ChainKeepsIInv, CallKeepsIInv DEF StatusNext, ChainMoves, CallMoves
<1>3. QED
  BY InitStatusIInv, <1>2, PTL DEF StatusSpec

\* The chain's and the call's variables keep their types.
THEOREM StatusTypes == StatusSpec => []StatusTypeOK
<1>1. StatusIInv => StatusTypeOK
  BY DEF StatusIInv
<1>2. QED
  BY <1>1, StatusInvariance, PTL

\* A task challenged before the call is reported challenged (index.ts:189-200).
THEOREM ChallengedFirst == StatusSpec => []ChallengeOutranks
<1>1. StatusIInv => ChallengeOutranks
  BY DEF StatusIInv
<1>2. QED
  BY <1>1, StatusInvariance, PTL

\* Without a challenge or a spend under way, the status returned is one the task had during
\* the call (index.ts:166-220).
THEOREM TornReadsNeedARace == StatusSpec => []TornOnlyByRaces
<1>1. StatusIInv => TornOnlyByRaces
  BY DEF StatusIInv
<1>2. QED
  BY <1>1, StatusInvariance, PTL

\* An attestation reported spent, expired or challenged never validates again
\* (index.ts:192-218).
THEOREM DeadStaysDead == StatusSpec => []DeadIsDead
<1>1. StatusIInv => DeadIsDead
  BY DEF StatusIInv
<1>2. QED
  BY <1>1, StatusInvariance, PTL
=============================================================================
