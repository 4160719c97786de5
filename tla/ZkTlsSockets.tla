---------------------------- MODULE ZkTlsSockets ----------------------------
(***************************************************************************)
(* The calls of the zkTLS example's SDK that wait on a WebSocket           *)
(* (examples/zktls-twitter/sdk/src/attester.ts, task.ts): createSession    *)
(* and reveal of AttesterClient, trackTask and submitAndWait of            *)
(* TaskManager.                                                            *)
(*                                                                         *)
(* Each is a promise with one socket and one timer, and the handlers of    *)
(* both close over a flag that says it has settled.  Frames are in flight  *)
(* when a side closes, and a socket that is closing may still deliver      *)
(* them.  A program makes one such call.                                   *)
(***************************************************************************)
EXTENDS ZkTlsInterface

CONSTANTS
  MaxFrames   \* bound: the frames in flight on the socket

ASSUME ZkTlsSocketsAssumption == MaxFrames \in Nat \ {0}

VARIABLES
  kind,     \* the call
  setup,    \* what the call finds: a WebSocket implementation, an API key
  stage,    \* where the call is
  settled,  \* the flag of the handlers
  outcome,  \* of the promise
  timer,    \* of the call, or of the request before it
  socket,   \* its state
  inbox,    \* frames on their way to the call
  status,   \* the gateway: of the task
  pushed,   \* a frame the call waits for has been sent to it
  causes    \* what has arisen that a call may reject with

call_ == <<kind, setup>>
socketVars == <<call_, stage, settled, outcome, timer, socket, inbox, status, pushed, causes>>

SessionCalls == {"createSession", "reveal"}
TaskCalls == {"trackTask", "submitAndWait"}
Reasons == {"no_websocket", "no_key", "rpc_error", "timeout", "frame", "socket", "callback"}

\* A frame the call can get.
Frames == IF kind \in SessionCalls THEN {Plain(f) : f \in SessionFrames} ELSE TaskFrames

SocketsTypeOK ==
  /\ kind \in SessionCalls \cup TaskCalls
  /\ setup \in [webSocket : BOOLEAN, apiKey : {Absent, "token", "spaced"}]
  /\ stage \in {"idle", "requesting", "waiting", "over"}
  /\ settled \in BOOLEAN
  /\ outcome \in {"pending", "resolved"} \cup Reasons
  /\ timer \in {"off", "armed"}
  /\ socket \in {"none", "connecting", "open", "closing", "closed"}
  /\ Len(inbox) <= MaxFrames /\ \A i \in 1..Len(inbox) : inbox[i] \in Frames
  /\ status \in {"none"} \cup TaskStatuses
  /\ pushed \in BOOLEAN
  /\ causes \subseteq Reasons

SocketsInit ==
  /\ kind \in SessionCalls \cup TaskCalls
  /\ setup \in [webSocket : BOOLEAN, apiKey : {Absent, "token", "spaced"}]
  /\ stage = "idle" /\ settled = FALSE /\ outcome = "pending"
  /\ timer = "off" /\ socket = "none" /\ inbox = <<>>
  /\ status \in IF kind = "trackTask" THEN TaskStatuses ELSE {"none"}
  /\ pushed = FALSE /\ causes = {}

-----------------------------------------------------------------------------
(* Settling. *)

\* A promise settles once.
Settle(how) == outcome' = IF outcome = "pending" THEN how ELSE outcome

CloseSocket ==
  socket' = IF socket \in {"connecting", "open"} THEN "closing" ELSE socket

Cleanup == settled' = TRUE /\ timer' = "off" /\ CloseSocket /\ stage' = "over"

rejectWithCleanup(reason) ==
  /\ causes' = causes \cup {reason}
  /\ IF settled THEN UNCHANGED <<settled, timer, socket, stage, outcome>>
     ELSE Cleanup /\ Settle(reason)

\* The timer is left armed.
resolveWithCleanup_TimerLeft ==
  /\ UNCHANGED <<causes, timer>>
  /\ IF settled THEN UNCHANGED <<settled, socket, stage, outcome>>
     ELSE settled' = TRUE /\ CloseSocket /\ UNCHANGED stage /\ Settle("resolved")

resolveWithCleanup ==
  /\ UNCHANGED causes
  /\ IF settled THEN UNCHANGED <<settled, timer, socket, stage, outcome>>
     ELSE Cleanup /\ Settle("resolved")

\* The timer of a session call does not ask whether it has settled.
timerFires ==
  /\ stage = "waiting" /\ timer = "armed"
  /\ causes' = causes \cup {"timeout"}
  /\ IF settled /\ kind \in TaskCalls THEN timer' = "off" /\ UNCHANGED <<settled, socket, stage, outcome>>
     ELSE Cleanup /\ Settle("timeout")
  /\ UNCHANGED <<call_, inbox, status, pushed>>

-----------------------------------------------------------------------------
(* Starting. *)

\* Rejected before there is a socket.
Refuse(reason) ==
  /\ causes' = causes \cup {reason} /\ Settle(reason) /\ stage' = "over" /\ timer' = "off"
  /\ UNCHANGED <<settled, socket>>

Connect ==
  /\ stage' = "waiting" /\ socket' = "connecting" /\ timer' = "armed"
  /\ UNCHANGED <<settled, outcome, causes>>

\* createWebSocket; the API key goes into the URL, with none the URL has none.
createSession ==
  /\ stage = "idle" /\ kind = "createSession"
  /\ IF setup.webSocket THEN Connect ELSE Refuse("no_websocket")
  /\ UNCHANGED <<call_, inbox, status, pushed>>

reveal ==
  /\ stage = "idle" /\ kind = "reveal"
  /\ IF setup.webSocket THEN Connect ELSE Refuse("no_websocket")
  /\ UNCHANGED <<call_, inbox, status, pushed>>

\* The API key is a subprotocol, which holds no more than a token.
Track ==
  CASE ~setup.webSocket -> Refuse("no_websocket")
    [] setup.webSocket /\ setup.apiKey # "token" -> Refuse("no_key")
    [] setup.webSocket /\ setup.apiKey = "token" -> Connect

trackTask ==
  /\ stage = "idle" /\ kind = "trackTask"
  /\ Track
  /\ UNCHANGED <<call_, inbox, status, pushed>>

Options == [policyClient |-> "client", intent |-> "intent", wasmArgs |-> "args", timeout |-> 60,
            proofCid |-> Absent]

\* submitAndWait first sends the task.
sendTask ==
  /\ stage = "idle" /\ kind = "submitAndWait"
  /\ stage' = "requesting" /\ timer' = "armed"
  /\ UNCHANGED <<call_, settled, outcome, socket, inbox, status, pushed, causes>>

GatewayTakes ==
  /\ stage = "requesting" /\ status = "none"
  /\ Understands(JsonRpcRequest("sendTask", buildSendRequest(Options)))
  /\ status' = "pending"
  /\ UNCHANGED <<call_, stage, settled, outcome, timer, socket, inbox, pushed, causes>>

\* A good answer starts the tracking, of whatever has happened to the task meanwhile.
submitAndWait ==
  /\ stage = "requesting"
  /\ \E response \in Responses({"topic"}, {"InvalidRequest"}) :
       /\ call(response).kind = "result" => status # "none"
       /\ IF call(response).kind = "result" THEN Track
          ELSE Refuse("rpc_error")
  /\ UNCHANGED <<call_, inbox, status, pushed>>

sendTaskTimesOut ==
  /\ stage = "requesting" /\ timer = "armed"
  /\ timer' = "off" /\ stage' = "over" /\ Settle("timeout") /\ causes' = causes \cup {"timeout"}
  /\ UNCHANGED <<call_, settled, socket, inbox, status, pushed>>

-----------------------------------------------------------------------------
(* The peer (external): the attester, or the gateway with the task. *)

Awaited(frame) ==
  CASE kind = "createSession" -> frame = Plain("registered")
    [] kind = "reveal" -> frame = Plain("completed")
    [] kind \in TaskCalls -> frame.type = "update" /\ frame.status \in TERMINAL_STATUSES

Push(frame) ==
  /\ socket = "open" /\ Len(inbox) < MaxFrames
  /\ inbox' = Append(inbox, frame)
  /\ pushed' = (pushed \/ Awaited(frame))

\* Anything a peer may say, but of a task only what is so.
PeerSends ==
  /\ \E frame \in Frames :
       /\ frame.type = "update" /\ frame.status # Absent => frame.status = status
       /\ Push(frame)
  /\ UNCHANGED <<call_, stage, settled, outcome, timer, socket, status, causes>>

TaskMoves ==
  /\ status \in {"pending", "processing"}
  /\ status' \in {"processing"} \cup TERMINAL_STATUSES /\ status' # status
  /\ UNCHANGED <<call_, stage, settled, outcome, timer, socket, inbox, pushed, causes>>

-----------------------------------------------------------------------------
(* The socket's events. *)

\* onopen registers, reveals or subscribes.
onopen ==
  /\ socket = "connecting"
  /\ socket' = "open"
  /\ UNCHANGED <<call_, stage, settled, outcome, timer, inbox, status, pushed, causes>>

Frame == Head(inbox)

\* Any frame that reports success.
onSessionMessage_AnyReport ==
  CASE Frame.type \in {"registered", "completed"} -> resolveWithCleanup
    [] Frame.type \in {"error", "null", "text", "oversized"} -> rejectWithCleanup("frame")
    [] OTHER -> UNCHANGED <<settled, timer, socket, stage, outcome, causes>>

\* A frame of another kind than the call waits for is left alone, `null` has no type to look at.
onSessionMessage ==
  CASE Awaited(Frame) -> resolveWithCleanup
    [] Frame.type \in {"error", "null", "text", "oversized"} -> rejectWithCleanup("frame")
    [] OTHER -> UNCHANGED <<settled, timer, socket, stage, outcome, causes>>

\* onUpdate gets every update, a settled call's too, and may throw.
onTaskMessage ==
  CASE Frame.type \in {"oversized", "error"} -> rejectWithCleanup("frame")
    [] Frame.type = "update" ->
         \/ rejectWithCleanup("callback")
         \/ IF Awaited(Frame) THEN resolveWithCleanup
            ELSE UNCHANGED <<settled, timer, socket, stage, outcome, causes>>
    [] OTHER -> UNCHANGED <<settled, timer, socket, stage, outcome, causes>>

onmessage ==
  /\ socket \in {"open", "closing"} /\ inbox # <<>>
  /\ inbox' = Tail(inbox)
  /\ IF kind \in SessionCalls THEN onSessionMessage ELSE onTaskMessage
  /\ UNCHANGED <<call_, status, pushed>>

\* An error comes before the close, or none does.
onerror ==
  /\ socket \in {"connecting", "open", "closing"}
  /\ rejectWithCleanup("socket")
  /\ UNCHANGED <<call_, inbox, status, pushed>>

onclose ==
  /\ socket \in {"connecting", "open", "closing"}
  /\ causes' = causes \cup {"socket"}
  /\ socket' = "closed" /\ inbox' = <<>>
  /\ IF settled THEN UNCHANGED <<settled, timer, stage, outcome>>
     ELSE settled' = TRUE /\ timer' = "off" /\ stage' = "over" /\ Settle("socket")
  /\ UNCHANGED <<call_, status, pushed>>

SocketsNext ==
  \/ createSession \/ reveal \/ trackTask \/ sendTask \/ GatewayTakes \/ submitAndWait \/ sendTaskTimesOut
  \/ PeerSends \/ TaskMoves
  \/ onopen \/ onmessage \/ onerror \/ onclose \/ timerFires

-----------------------------------------------------------------------------
(* Properties. *)

\* A call that has settled holds nothing: neither of its timers is armed and its socket is
\* closed or closing, and one that waits on a socket has its timer.  The handlers of attester.ts
\* and task.ts release both in whatever order frames, errors, closes and timeouts come.
SettledReleases ==
  /\ outcome # "pending" => timer = "off" /\ socket \notin {"connecting", "open"}
  /\ stage = "waiting" => timer = "armed"

-----------------------------------------------------------------------------
(* The inductive invariant: SettledReleases and what it comes from. *)

\* What a call holds at each stage.
StageHolds ==
  /\ stage = "idle" => timer = "off"
  /\ stage \in {"idle", "requesting"} => socket = "none"
  /\ stage = "waiting" => socket \in {"connecting", "open"}
  /\ stage = "over" <=> outcome # "pending"
  /\ settled => stage = "over"
  /\ socket # "none" => stage = "waiting" \/ settled
  /\ kind # "submitAndWait" => stage # "requesting"

\* A frame the call waits for was sent to it before it could get it.
FramesWereSent ==
  /\ inbox \in Seq(Frames)
  /\ \A i \in 1..Len(inbox) : Awaited(inbox[i]) => pushed

SocketsHold == StageHolds /\ FramesWereSent /\ SettledReleases

-----------------------------------------------------------------------------
(* What a call promises: see Await. *)

AbstractAwait == INSTANCE Await WITH held <- pushed

\* Each call implements Await: it settles once, resolves only if the frame it waits for was sent
\* to it (a session registered, its results, the end of the task) and rejects only with what has
\* happened, whatever is still delivered or fires after it.
ImplementsAwait == AbstractAwait!Spec
=============================================================================
