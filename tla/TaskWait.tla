------------------------------ MODULE TaskWait ------------------------------
(***************************************************************************)
(* submitEvaluationRequest and waitForTaskResponded                        *)
(* (src/modules/avs/index.ts), between the caller, the gateway, the chain  *)
(* and viem's event watch.                                                 *)
(*                                                                         *)
(* A wait is one history query over the blocks up to `latest`, and, if     *)
(* that finds nothing, a watch that starts at its own first poll.          *)
(* Everything between (the answer on its way, the watch not yet begun) is  *)
(* open to the chain, the timer and the caller's AbortSignal.              *)
(*                                                                         *)
(* One task and one wait.  The caller either submits the evaluation and    *)
(* waits with the builder it gets back, or waits for a task it knows of.   *)
(***************************************************************************)
EXTENDS Integers

CONSTANTS
  MaxBlock,         \* bound: the chain stops at this height
  MaxHistory,       \* bound: the transport gives the history query up after so long
  TimeoutMs,        \* args.timeoutMs, when the caller gives one
  DefaultFromBlocks \* SafeFromBlock[chain id] on the chains there are, NoBlock off the table

NoBlock == -1   \* undefined, for a block number
NoTimer == -1   \* undefined, for a timer

ASSUME TaskWaitAssumption ==
  /\ MaxBlock \in Nat \ {0}
  /\ MaxHistory \in Nat
  /\ TimeoutMs \in Nat \ {0}
  /\ DefaultFromBlocks \subseteq Nat \cup {NoBlock}

\* A task's id as somebody spells it, all of its 32 bytes or without the leading zeros.
Ids == [task : {"this", "another"}, padded : BOOLEAN]

VARIABLES
  head,         \* the chain: the number of its latest block
  task,         \* the gateway: it has created the task
  respondedAt,  \* the chain: the block of the task's TaskResponded log
  pc,           \* where the caller is
  taskId,       \* the task's id, as the gateway or the caller spells it
  defaultFromBlock,      \* the table's entry for the client's chain
  taskRequestedAtBlock,  \* the block submitEvaluationRequest read
  timeoutMs,    \* the wait's args.timeoutMs, 0 when absent
  signal,       \* the wait has an args.abortSignal
  aborted,      \* the caller has aborted it
  waited,       \* time since the wait was called
  historyTo,    \* `latest` as the history query saw it
  match,        \* the query found the task's log
  timer,        \* when the timeout is due
  listening,    \* the abort listener is registered
  subscribed,   \* the watch is on
  watchFrom,    \* the head when the watch made its filter
  outcome       \* of the promise

env == <<head, task, respondedAt>>
args == <<taskId, defaultFromBlock, taskRequestedAtBlock, timeoutMs, signal>>
history == <<historyTo, match>>
resources == <<timer, listening, subscribed>>
vars == <<env, args, history, resources, pc, aborted, waited, watchFrom, outcome>>

Reasons == {"no_task_id", "gateway_error", "rpc_error", "timeout", "aborted"}
Waiting == {"history", "answering", "watching"}

TypeOK ==
  /\ head \in 0..MaxBlock
  /\ task \in BOOLEAN
  /\ respondedAt \in 1..MaxBlock \cup {NoBlock}
  /\ pc \in {"idle", "posting", "built", "done"} \cup Waiting
  /\ taskId \in Ids /\ taskId.task = "this"
  /\ defaultFromBlock \in DefaultFromBlocks
  /\ taskRequestedAtBlock \in 0..MaxBlock \cup {NoBlock}
  /\ timeoutMs \in {0, TimeoutMs}
  /\ signal \in BOOLEAN /\ aborted \in BOOLEAN
  /\ waited \in 0..(MaxHistory + TimeoutMs)
  /\ historyTo \in 0..MaxBlock \cup {NoBlock}
  /\ match \in BOOLEAN
  /\ timer \in 1..(MaxHistory + TimeoutMs) \cup {NoTimer}
  /\ listening \in BOOLEAN /\ subscribed \in BOOLEAN
  /\ watchFrom \in 0..MaxBlock \cup {NoBlock}
  /\ outcome \in {"pending", "resolved"} \cup Reasons

Init ==
  /\ head = 0 /\ task = FALSE /\ respondedAt = NoBlock
  /\ taskId \in {id \in Ids : id.task = "this"}
  /\ defaultFromBlock \in DefaultFromBlocks
  /\ pc = "idle" /\ taskRequestedAtBlock = NoBlock
  /\ timeoutMs = 0 /\ signal = FALSE /\ aborted = FALSE /\ waited = 0
  /\ historyTo = NoBlock /\ match = FALSE
  /\ timer = NoTimer /\ listening = FALSE /\ subscribed = FALSE
  /\ watchFrom = NoBlock /\ outcome = "pending"

-----------------------------------------------------------------------------
(* The gateway and the chain. *)

\* Somebody else submits the task the caller will wait for.
CreatedElsewhere ==
  /\ pc = "idle" /\ ~task
  /\ task' = TRUE
  /\ UNCHANGED <<head, respondedAt, args, history, resources, pc, aborted, waited,
                 watchFrom, outcome>>

\* A block; it may hold the response to a task that exists.
Mine ==
  /\ head < MaxBlock
  /\ head' = head + 1
  /\ respondedAt' \in {respondedAt} \cup
       (IF task /\ respondedAt = NoBlock THEN {head + 1} ELSE {})
  /\ UNCHANGED <<task, args, history, resources, pc, aborted, waited, watchFrom, outcome>>

-----------------------------------------------------------------------------
(* submitEvaluationRequest. *)

\* getBlockNumber (viem may answer with one it has cached), then the Post of
\* newt_createTask leaves.
ReadRequestBlock ==
  /\ pc = "idle" /\ ~task
  /\ taskRequestedAtBlock' \in 0..head
  /\ pc' = "posting"
  /\ UNCHANGED <<env, taskId, defaultFromBlock, timeoutMs, signal, history, resources, aborted,
                 waited, watchFrom, outcome>>

\* The gateway creates the task.
GatewayCreatesTask ==
  /\ pc = "posting" /\ ~task
  /\ task' = TRUE
  /\ UNCHANGED <<head, respondedAt, args, history, resources, pc, aborted, waited,
                 watchFrom, outcome>>

\* The block number is read when the gateway has answered.
CreateTaskReplies_ThenReadsBlock ==
  /\ pc = "posting" /\ task
  /\ pc' = "built"
  /\ taskRequestedAtBlock' = head
  /\ UNCHANGED <<env, taskId, defaultFromBlock, timeoutMs, signal, history, resources, aborted,
                 waited, watchFrom, outcome>>

\* Its answer makes the builder.
CreateTaskReplies ==
  /\ pc = "posting" /\ task
  /\ pc' = "built"
  /\ UNCHANGED <<env, args, history, resources, aborted, waited, watchFrom, outcome>>

\* The gateway refuses, or its answer is lost: the Post throws.
CreateTaskFails ==
  /\ pc = "posting"
  /\ pc' = "done" /\ outcome' = "gateway_error"
  /\ UNCHANGED <<env, args, history, resources, aborted, waited, watchFrom>>

-----------------------------------------------------------------------------
(* waitForTaskResponded, up to the history query. *)

\* The builder's wait: it passes no abortSignal on.
BuilderWait ==
  /\ pc = "built"
  /\ pc' = "history"
  /\ timeoutMs' \in {0, TimeoutMs}
  /\ UNCHANGED <<env, taskId, defaultFromBlock, taskRequestedAtBlock, signal, history, resources,
                 aborted, waited, watchFrom, outcome>>

\* The client action's wait: no request block.
DirectWait ==
  /\ pc = "idle"
  /\ pc' = "history"
  /\ timeoutMs' \in {0, TimeoutMs}
  /\ signal' \in BOOLEAN
  /\ UNCHANGED <<env, taskId, defaultFromBlock, taskRequestedAtBlock, history, resources, aborted,
                 waited, watchFrom, outcome>>

\* Without a taskId it throws at once.
WaitWithoutTaskId ==
  /\ pc = "idle"
  /\ pc' = "done" /\ outcome' = "no_task_id"
  /\ UNCHANGED <<env, args, history, resources, aborted, waited, watchFrom>>

\* fromBlockParam; without one the node takes `latest` alone.
FromBlock(latest) ==
  IF taskRequestedAtBlock # NoBlock THEN taskRequestedAtBlock
  ELSE IF defaultFromBlock # NoBlock THEN defaultFromBlock ELSE latest

\* The block that was the latest is left to the watch.
Covered_BelowLatest(latest) == FromBlock(latest)..(latest - 1)

\* The blocks the history query looks at.
Covered(latest) == FromBlock(latest)..latest

\* The ids as they are spelled.
padHex_AsIs(id) == id

padHex(id) == [task |-> id.task, padded |-> TRUE]

\* The ids of the TaskResponded logs of some blocks, as the chain spells them: other tasks'
\* among them, and this one's.
LogsIn(blocks) ==
  {[task |-> t, padded |-> TRUE] :
     t \in {"another"} \cup IF respondedAt \in blocks THEN {"this"} ELSE {}}

\* The first log is taken.
HasLog_AnyTask(blocks) == LogsIn(blocks) # {}

\* past.find, and the loop of onLogs: a log of the task.
HasLog(blocks) == \E id \in LogsIn(blocks) : padHex(id) = padHex(taskId)

\* The node answers getContractEvents.
HistoryQuery ==
  /\ pc = "history"
  /\ historyTo' = head
  /\ match' = HasLog(Covered(head))
  /\ pc' = "answering"
  /\ UNCHANGED <<env, args, resources, aborted, waited, watchFrom, outcome>>

\* The query fails: the call rejects before it has a timer or a listener.
HistoryFails ==
  /\ pc \in {"history", "answering"}
  /\ pc' = "done" /\ outcome' = "rpc_error"
  /\ UNCHANGED <<env, args, history, resources, aborted, waited, watchFrom>>

-----------------------------------------------------------------------------
(* The Promise executor and the callbacks it leaves behind. *)

\* The timeout is left armed.
Cleanup_KeepsTimer == subscribed' = FALSE /\ UNCHANGED timer

\* unsub?.() and clearTimeout; the abort listener stays.
Cleanup == subscribed' = FALSE /\ timer' = NoTimer

\* resolve and reject: the first to be called counts.
Settle(how) ==
  /\ outcome' = IF outcome = "pending" THEN how ELSE outcome
  /\ pc' = "done"

\* When the timeout would fall due.
DueTime == IF timeoutMs > 0 THEN waited + timeoutMs ELSE NoTimer

\* abortSignal.aborted
AlreadyAborted == signal /\ aborted

\* The history is in: resolve with it, or set the timer and subscribe.
HistoryReply ==
  /\ pc = "answering"
  /\ \/ /\ match
        /\ Settle("resolved")
        /\ UNCHANGED resources
     \/ /\ ~match /\ AlreadyAborted
        /\ Cleanup /\ Settle("aborted")
        /\ UNCHANGED listening
     \/ /\ ~match /\ ~AlreadyAborted
        /\ timer' = DueTime
        /\ listening' = signal
        /\ subscribed' = TRUE
        /\ pc' = "watching"
        /\ UNCHANGED outcome
  /\ UNCHANGED <<env, args, history, aborted, waited, watchFrom>>

\* The watch's first poll makes its filter: it has the blocks after this one.
WatchBegins ==
  /\ subscribed /\ watchFrom = NoBlock
  /\ watchFrom' = head
  /\ UNCHANGED <<env, args, history, resources, pc, aborted, waited, outcome>>

\* onLogs with the task's log among them; without it nothing happens.
OnLogs ==
  /\ subscribed /\ watchFrom # NoBlock /\ HasLog((watchFrom + 1)..head)
  /\ Cleanup /\ Settle("resolved")
  /\ UNCHANGED <<env, args, history, listening, aborted, waited, watchFrom>>

\* onError: any failed poll.
OnError ==
  /\ subscribed
  /\ Cleanup /\ Settle("rpc_error")
  /\ UNCHANGED <<env, args, history, listening, aborted, waited, watchFrom>>

\* The timeout.
TimerFires ==
  /\ timer # NoTimer /\ waited >= timer
  /\ Cleanup /\ Settle("timeout")
  /\ UNCHANGED <<env, args, history, listening, aborted, waited, watchFrom>>

\* The caller aborts, at any time: before the call, in it, after it.
Abort ==
  /\ ~aborted
  /\ aborted' = TRUE
  /\ \/ /\ listening
        /\ listening' = FALSE
        /\ Cleanup /\ Settle("aborted")
     \/ /\ ~listening
        /\ UNCHANGED <<resources, pc, outcome>>
  /\ UNCHANGED <<env, args, history, waited, watchFrom>>

\* Time passes, in the history query or towards the timeout.
Tick ==
  /\ \/ pc \in {"history", "answering"} /\ waited < MaxHistory
     \/ timer # NoTimer /\ waited < timer
  /\ waited' = waited + 1
  /\ UNCHANGED <<env, args, history, resources, pc, aborted, watchFrom, outcome>>

-----------------------------------------------------------------------------
Next ==
  \/ CreatedElsewhere \/ Mine
  \/ ReadRequestBlock \/ GatewayCreatesTask \/ CreateTaskReplies \/ CreateTaskFails
  \/ BuilderWait \/ DirectWait \/ WaitWithoutTaskId
  \/ HistoryQuery \/ HistoryFails \/ HistoryReply
  \/ WatchBegins \/ OnLogs \/ OnError \/ TimerFires \/ Abort \/ Tick

\* The node answers, viem polls, timers fire.  Nobody has to abort, mine, respond or fail.
Fairness ==
  /\ WF_vars(HistoryQuery) /\ WF_vars(HistoryReply)
  /\ WF_vars(WatchBegins) /\ WF_vars(OnLogs)
  /\ WF_vars(Tick) /\ WF_vars(TimerFires)

Spec == Init /\ [][Next]_vars
FairSpec == Spec /\ Fairness

-----------------------------------------------------------------------------
(* Safety. *)

\* The block a submission reads before its Post (avs/index.ts:233) bounds its task's
\* response from below, however the gateway and the chain run ahead of the gateway's
\* answer: a history query from that block cannot start too late.
RequestBlockPrecedesResponse ==
  taskRequestedAtBlock # NoBlock /\ respondedAt # NoBlock
    => taskRequestedAtBlock < respondedAt

\* A response the subscribed wait will not be told of is older than the history it asked
\* for, or was mined between the query's `latest` and the watch's first poll: the two reads
\* of waitForTaskResponded (87 and 124) leave out nothing else.
OnlyTheGapIsMissed ==
  subscribed /\ watchFrom # NoBlock /\ respondedAt # NoBlock
    => \/ respondedAt > watchFrom
       \/ respondedAt \in (historyTo + 1)..watchFrom
       \/ respondedAt < FromBlock(historyTo)

\* Once the promise is settled nothing of the wait runs on: the timeout is cleared and the
\* watch is off, whichever of log, error, timeout and abort came first (104-108).
SettledReleases == outcome # "pending" => timer = NoTimer /\ ~subscribed

\* A wait ends with a timeout, or once it is aborted, whether the abort comes before the call,
\* under the history query or under the watch; and without either when a response is mined
\* after the watch has begun (110-122, 124-139).
WaitEnds ==
  /\ pc \in Waiting /\ (timeoutMs > 0 \/ (signal /\ aborted)) ~> pc = "done"
  /\ subscribed /\ watchFrom # NoBlock /\ respondedAt > watchFrom ~> pc = "done"

-----------------------------------------------------------------------------
(* The inductive invariant: TypeOK and what each stage of the wait knows. *)

\* The chain has the blocks and the log that the caller's reads tell of.
ReadsAreOfThePast ==
  /\ respondedAt <= head /\ taskRequestedAtBlock <= head
  /\ historyTo <= head /\ watchFrom <= head
  /\ ~task => respondedAt = NoBlock
  /\ watchFrom # NoBlock => historyTo <= watchFrom

\* What the wait holds at each stage.
StageHolds ==
  /\ outcome = "pending" <=> pc # "done"
  /\ subscribed <=> pc = "watching"
  /\ pc # "watching" => timer = NoTimer
  /\ pc \notin {"watching", "done"} => ~listening /\ watchFrom = NoBlock
  /\ listening => signal
  /\ signal => pc \in Waiting \cup {"done"}
  /\ pc \in {"idle", "posting", "built"} => waited = 0
  /\ pc \in {"history", "answering"} => waited <= MaxHistory
  /\ timer # NoTimer => timeoutMs > 0 /\ timer >= timeoutMs

\* What the history answer says of the task.
HistoryIsTrue ==
  /\ match => respondedAt # NoBlock
  /\ pc \in {"answering", "watching"} /\ ~match /\ respondedAt # NoBlock
       => historyTo < respondedAt \/ respondedAt < FromBlock(historyTo)
  /\ pc = "watching" => ~match

IInv ==
  /\ TypeOK /\ ReadsAreOfThePast /\ StageHolds /\ HistoryIsTrue
  /\ RequestBlockPrecedesResponse

-----------------------------------------------------------------------------
(* What the wait promises: see Await. *)

ArisenCauses ==
  {r \in Reasons : /\ r = "aborted" => signal /\ aborted
                   /\ r = "timeout" => timeoutMs > 0 /\ waited >= timeoutMs}

A == INSTANCE Await WITH held <- respondedAt # NoBlock, causes <- ArisenCauses

\* The wait settles once; it resolves only when the task has been responded to, times out
\* only when a timeout was given and is over, and aborts only when the caller has.
ImplementsAwait == A!Spec

-----------------------------------------------------------------------------
(* What the documentation says, and the code does not do. *)

\* avs/index.ts:83,99: "Check historical logs first", "If not found, subscribe and resolve
\* on first match".  So a response recorded while its submitter waits ends the wait.
ResponseEndsWait ==
  pc \in Waiting /\ taskRequestedAtBlock # NoBlock /\ respondedAt # NoBlock ~> pc = "done"
=============================================================================
