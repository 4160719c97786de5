------------------------- MODULE ZkTlsExampleProofs -------------------------
(***************************************************************************)
(* ZkTlsExample for every set of accounts, follower counts, minimums and   *)
(* bounds: the inductive invariant of the calls over a socket and of the   *)
(* page, the safety properties that follow from it, and the refinement of  *)
(* Await.                                                                  *)
(***************************************************************************)
EXTENDS ZkTlsExample, SequenceTheorems, TLAPS

-----------------------------------------------------------------------------
(* The calls over a socket. *)

LEMMA InitSockets == SocketsInit => SocketsTypeOK /\ SocketsHold
<1> SUFFICES ASSUME SocketsInit PROVE SocketsTypeOK /\ SocketsHold
  OBVIOUS
<1>1. SocketsTypeOK
  <2>1. Len(inbox) <= MaxFrames /\ \A i \in 1..Len(inbox) : inbox[i] \in Frames
    BY ZkTlsSocketsAssumption, EmptySeq DEF SocketsInit
  <2>2. status \in {"none"} \cup TaskStatuses
    BY DEF SocketsInit
  <2>3. QED
    BY <2>1, <2>2 DEF SocketsInit, SocketsTypeOK
<1>2. StageHolds /\ SettledReleases
  BY DEF SocketsInit, StageHolds, SettledReleases
<1>3. FramesWereSent
  BY EmptySeq DEF SocketsInit, FramesWereSent
<1>4. QED
  BY <1>1, <1>2, <1>3 DEF SocketsHold

\* A call is under way, or it has settled and what it leaves behind is silent.
LEMMA UnderWay ==
  ASSUME SocketsTypeOK, SocketsHold
  PROVE  /\ stage \in {"idle", "requesting", "waiting"} => outcome = "pending" /\ ~settled
         /\ stage = "over" => timer = "off" /\ socket \notin {"connecting", "open"}
BY DEF SocketsTypeOK, SocketsHold, StageHolds, SettledReleases

\* rejectWithCleanup and resolveWithCleanup leave a settled call alone and release what the
\* other holds.
LEMMA RejectReleases ==
  ASSUME SocketsTypeOK, SocketsHold, socket # "none", NEW reason \in Reasons, rejectWithCleanup(reason)
  PROVE  /\ stage' = "over" /\ settled' = TRUE /\ timer' = "off"
         /\ socket' \in {"closing", "closed"}
         /\ outcome' # "pending"
         /\ \/ UNCHANGED <<outcome, socket>>
            \/ outcome = "pending" /\ outcome' = reason
         /\ causes' = causes \cup {reason}
BY DEF SocketsTypeOK, SocketsHold, StageHolds, SettledReleases, rejectWithCleanup, Cleanup,
   CloseSocket, Settle, Reasons

LEMMA ResolveReleases ==
  ASSUME SocketsTypeOK, SocketsHold, socket # "none", resolveWithCleanup
  PROVE  /\ stage' = "over" /\ settled' = TRUE /\ timer' = "off"
         /\ socket' \in {"closing", "closed"}
         /\ outcome' # "pending"
         /\ \/ UNCHANGED <<outcome, socket>>
            \/ outcome = "pending" /\ outcome' = "resolved"
         /\ UNCHANGED causes
BY DEF SocketsTypeOK, SocketsHold, StageHolds, SettledReleases, resolveWithCleanup, Cleanup,
   CloseSocket, Settle

\* What holds of the frames does not depend on what else a step changes.
LEMMA FramesStay ==
  ASSUME SocketsTypeOK, SocketsHold, UNCHANGED <<kind, inbox, pushed>>
  PROVE  /\ FramesWereSent'
         /\ Len(inbox') <= MaxFrames /\ \A i \in 1..Len(inbox') : inbox'[i] \in Frames'
<1>1. Frames' = Frames /\ \A f : Awaited(f)' = Awaited(f)
  BY DEF Frames, Awaited
<1>2. QED
  BY <1>1 DEF SocketsTypeOK, SocketsHold, FramesWereSent

\* The starting of a call.
LEMMA StartsKeep ==
  ASSUME SocketsTypeOK, SocketsHold,
         createSession \/ reveal \/ trackTask \/ sendTask \/ submitAndWait
  PROVE  SocketsTypeOK' /\ SocketsHold'
<1>1. UNCHANGED <<kind, setup, inbox, status, pushed>>
  BY DEF createSession, reveal, trackTask, sendTask, submitAndWait, call_
<1>2. FramesWereSent' /\ Len(inbox') <= MaxFrames /\ \A i \in 1..Len(inbox') : inbox'[i] \in Frames'
  BY <1>1, FramesStay
<1>3. stage \in {"idle", "requesting"} /\ outcome = "pending" /\ ~settled /\ socket = "none"
  BY UnderWay DEF createSession, reveal, trackTask, sendTask, submitAndWait, SocketsHold, StageHolds
<1>4. \/ stage' = "requesting" /\ timer' = "armed" /\ kind = "submitAndWait"
         /\ UNCHANGED <<settled, outcome, socket, causes>>
      \/ Connect
      \/ \E reason \in Reasons : Refuse(reason)
  BY DEF createSession, reveal, trackTask, sendTask, submitAndWait, Track, Reasons
<1>5. CASE stage' = "requesting" /\ timer' = "armed" /\ kind = "submitAndWait"
             /\ UNCHANGED <<settled, outcome, socket, causes>>
  BY <1>1, <1>2, <1>3, <1>5
  DEF SocketsTypeOK, SocketsHold, StageHolds, SettledReleases
<1>6. CASE Connect
  BY <1>1, <1>2, <1>3, <1>6
  DEF Connect, SocketsTypeOK, SocketsHold, StageHolds, SettledReleases
<1>7. CASE \E reason \in Reasons : Refuse(reason)
  <2>1. PICK reason \in Reasons : Refuse(reason)
    BY <1>7
  <2>2. outcome' \in Reasons /\ causes' \subseteq Reasons
    BY <1>3, <2>1 DEF Refuse, Settle, SocketsTypeOK
  <2>3. QED
    BY <1>1, <1>2, <1>3, <2>1, <2>2
    DEF Refuse, Reasons, SocketsTypeOK, SocketsHold, StageHolds, SettledReleases
<1>8. QED
  BY <1>4, <1>5, <1>6, <1>7

\* The task, a frame pushed to the call, and the socket opening leave the call where it is.
LEMMA PeerKeeps ==
  ASSUME SocketsTypeOK, SocketsHold, GatewayTakes \/ TaskMoves \/ PeerSends \/ onopen
  PROVE  SocketsTypeOK' /\ SocketsHold'
<1>1. UNCHANGED <<kind, setup, stage, settled, outcome, timer, causes>>
  BY DEF GatewayTakes, TaskMoves, PeerSends, onopen, call_
<1>2. CASE GatewayTakes \/ TaskMoves
  <2>1. UNCHANGED <<inbox, pushed, socket>> /\ status' \in {"none"} \cup TaskStatuses
    BY <1>2 DEF GatewayTakes, TaskMoves, TaskStatuses, TERMINAL_STATUSES
  <2>2. QED
    BY <1>1, <2>1, FramesStay DEF SocketsTypeOK, SocketsHold, StageHolds, SettledReleases
<1>3. CASE onopen
  <2>1. UNCHANGED <<inbox, pushed, status>> /\ socket = "connecting" /\ socket' = "open"
    BY <1>3 DEF onopen
  <2>2. stage = "waiting"
    BY <2>1, UnderWay DEF SocketsTypeOK, SocketsHold, StageHolds
  <2>3. QED
    BY <1>1, <2>1, <2>2, FramesStay DEF SocketsTypeOK, SocketsHold, StageHolds, SettledReleases
<1>4. CASE PeerSends
  <2>1. PICK frame \in Frames : Push(frame)
    BY <1>4 DEF PeerSends
  <2>2. UNCHANGED <<socket, status>>
    BY <1>4, <2>1 DEF PeerSends, Push
  <2>3. inbox \in Seq(Frames) /\ pushed \in BOOLEAN
    BY DEF SocketsTypeOK, SocketsHold, FramesWereSent
  <2>4. /\ inbox' \in Seq(Frames) /\ Len(inbox') = Len(inbox) + 1 /\ Len(inbox) \in Nat
        /\ \A i \in 1..Len(inbox') : inbox'[i] = IF i <= Len(inbox) THEN inbox[i] ELSE frame
    BY <2>1, <2>3, AppendProperties, LenProperties DEF Push
  <2>5. pushed' \in BOOLEAN
    BY <2>1, <2>3 DEF Push
  <2>6. Frames' = Frames /\ \A f : Awaited(f)' = Awaited(f)
    BY <1>1 DEF Frames, Awaited
  <2>7. Len(inbox') <= MaxFrames /\ \A i \in 1..Len(inbox') : inbox'[i] \in Frames'
    BY <2>1, <2>4, <2>6, ElementOfSeq, ZkTlsSocketsAssumption DEF Push
  <2>8. /\ Awaited(frame) => pushed'
        /\ \A i \in 1..Len(inbox) : Awaited(inbox[i]) => pushed'
    BY <2>1, <2>3 DEF Push, SocketsHold, FramesWereSent
  <2>9. FramesWereSent'
    BY <2>4, <2>6, <2>8 DEF FramesWereSent
  <2>10. QED
    BY <1>1, <2>2, <2>5, <2>7, <2>9 DEF SocketsTypeOK, SocketsHold, StageHolds, SettledReleases
<1>5. QED
  BY <1>2, <1>3, <1>4

\* A call that is told of its end, or of another cause, is over and holds nothing.
LEMMA EndsKeep ==
  ASSUME SocketsTypeOK, SocketsHold, UNCHANGED <<kind, setup>>,
         status' = status, pushed' = pushed,
         FramesWereSent',
         Len(inbox') <= MaxFrames /\ \A i \in 1..Len(inbox') : inbox'[i] \in Frames',
         stage' = "over", settled' \in BOOLEAN, timer' = "off",
         socket' \in {"none", "closing", "closed"}, socket' = "none" \/ settled',
         outcome' \in {"resolved"} \cup Reasons, causes' \subseteq Reasons
  PROVE  SocketsTypeOK' /\ SocketsHold'
BY DEF SocketsTypeOK, SocketsHold, StageHolds, SettledReleases, Reasons

\* The timers, and the events of the socket that are no frames.
LEMMA EventsKeep ==
  ASSUME SocketsTypeOK, SocketsHold, sendTaskTimesOut \/ timerFires \/ onerror \/ onclose
  PROVE  SocketsTypeOK' /\ SocketsHold'
<1>1. UNCHANGED <<kind, setup, status, pushed>>
  BY DEF sendTaskTimesOut, timerFires, onerror, onclose, call_
<1>2. CASE sendTaskTimesOut
  <2>1. UNCHANGED <<inbox, settled, socket>> /\ stage' = "over" /\ timer' = "off"
        /\ outcome' = "timeout" /\ causes' = causes \cup {"timeout"} /\ socket = "none"
    BY <1>2, UnderWay DEF sendTaskTimesOut, Settle, SocketsHold, StageHolds
  <2>2. QED
    BY <1>1, <2>1, FramesStay, EndsKeep DEF SocketsTypeOK, Reasons
<1>3. CASE timerFires
  <2>1. UNCHANGED inbox /\ stage = "waiting" /\ socket \in {"connecting", "open"}
        /\ stage' = "over" /\ timer' = "off" /\ settled' = TRUE /\ socket' = "closing"
        /\ outcome' = "timeout" /\ causes' = causes \cup {"timeout"}
    BY <1>3, UnderWay DEF timerFires, Cleanup, CloseSocket, Settle, SocketsHold, StageHolds
  <2>2. QED
    BY <1>1, <2>1, FramesStay, EndsKeep DEF SocketsTypeOK, Reasons
<1>4. CASE onerror
  <2>1. UNCHANGED inbox /\ socket # "none" /\ rejectWithCleanup("socket")
    BY <1>4 DEF onerror
  <2>2. outcome' \in {"resolved"} \cup Reasons
    BY <2>1, RejectReleases DEF SocketsTypeOK, Reasons
  <2>3. QED
    BY <1>1, <2>1, <2>2, RejectReleases, FramesStay, EndsKeep DEF SocketsTypeOK, Reasons
<1>5. CASE onclose
  <2>1. socket # "none" /\ socket' = "closed" /\ inbox' = <<>> /\ causes' = causes \cup {"socket"}
    BY <1>5 DEF onclose
  <2>2. stage' = "over" /\ timer' = "off" /\ settled' = TRUE /\ outcome' \in {"resolved"} \cup Reasons
    BY <1>5, <2>1, UnderWay
    DEF onclose, Settle, SocketsTypeOK, SocketsHold, StageHolds, Reasons
  <2>3. FramesWereSent' /\ Len(inbox') <= MaxFrames /\ \A i \in 1..Len(inbox') : inbox'[i] \in Frames'
    BY <2>1, EmptySeq, ZkTlsSocketsAssumption DEF FramesWereSent
  <2>4. QED
    BY <1>1, <2>1, <2>2, <2>3, EndsKeep DEF SocketsTypeOK, Reasons
<1>6. QED
  BY <1>2, <1>3, <1>4, <1>5

\* What a handler does with the frame it is called with.
LEMMA MessageSteps ==
  ASSUME SocketsTypeOK, SocketsHold, onmessage
  PROVE  /\ socket # "none" /\ inbox # <<>> /\ inbox' = Tail(inbox)
         /\ UNCHANGED <<kind, setup, status, pushed>>
         /\ \/ Awaited(Frame) /\ resolveWithCleanup
            \/ \E reason \in Reasons : rejectWithCleanup(reason)
            \/ UNCHANGED <<settled, timer, socket, stage, outcome, causes>>
<1>1. /\ socket # "none" /\ inbox # <<>> /\ inbox' = Tail(inbox)
      /\ UNCHANGED <<kind, setup, status, pushed>>
  BY DEF onmessage, call_
<1>2. CASE kind \in SessionCalls
  BY <1>1, <1>2 DEF onmessage, onSessionMessage, Reasons
<1>3. CASE kind \notin SessionCalls
  BY <1>1, <1>3 DEF onmessage, onTaskMessage, Reasons
<1>4. QED
  BY <1>1, <1>2, <1>3

LEMMA MessageKeeps ==
  ASSUME SocketsTypeOK, SocketsHold, onmessage
  PROVE  SocketsTypeOK' /\ SocketsHold'
<1>1. UNCHANGED <<kind, setup, status, pushed>> /\ inbox # <<>> /\ inbox' = Tail(inbox) /\ socket # "none"
  BY MessageSteps
<1>2. inbox \in Seq(Frames)
  BY DEF SocketsHold, FramesWereSent
<1>3. /\ inbox' \in Seq(Frames) /\ Len(inbox) \in Nat /\ Len(inbox') = Len(inbox) - 1
      /\ \A i \in 1..Len(inbox') : i + 1 \in 1..Len(inbox) /\ inbox'[i] = inbox[i + 1]
  BY <1>1, <1>2, HeadTailProperties, LenProperties
<1>4. Frames' = Frames /\ \A f : Awaited(f)' = Awaited(f)
  BY <1>1 DEF Frames, Awaited
<1>5. Len(inbox') <= MaxFrames /\ \A i \in 1..Len(inbox') : inbox'[i] \in Frames'
  BY <1>3, <1>4, ZkTlsSocketsAssumption DEF SocketsTypeOK
<1>6. FramesWereSent'
  BY <1>1, <1>3, <1>4 DEF SocketsHold, FramesWereSent
<1>7. CASE resolveWithCleanup
  BY <1>1, <1>5, <1>6, <1>7, ResolveReleases, EndsKeep DEF SocketsTypeOK
<1>8. CASE \E reason \in Reasons : rejectWithCleanup(reason)
  BY <1>1, <1>5, <1>6, <1>8, RejectReleases, EndsKeep DEF SocketsTypeOK
<1>9. CASE UNCHANGED <<settled, timer, socket, stage, outcome, causes>>
  BY <1>1, <1>5, <1>6, <1>9 DEF SocketsTypeOK, SocketsHold, StageHolds, SettledReleases
<1>10. QED
  BY <1>7, <1>8, <1>9, MessageSteps

LEMMA SocketsKeep ==
  ASSUME SocketsTypeOK, SocketsHold, [SocketsNext]_socketVars
  PROVE  SocketsTypeOK' /\ SocketsHold'
<1>1. CASE UNCHANGED socketVars
  <2>1. UNCHANGED <<kind, setup, stage, settled, outcome, timer, socket, inbox, status, pushed, causes>>
    BY <1>1 DEF socketVars, call_
  <2>2. QED
    BY <2>1, FramesStay DEF SocketsTypeOK, SocketsHold, StageHolds, SettledReleases
<1>2. CASE SocketsNext
  BY <1>2, StartsKeep, PeerKeeps, EventsKeep, MessageKeeps DEF SocketsNext
<1>3. QED
  BY <1>1, <1>2

\* The promise of a call settles once: by the frame it waits for, or for a cause there is.
LEMMA SettlesOnce ==
  ASSUME SocketsTypeOK, SocketsHold, SocketsNext
  PROVE  /\ causes \subseteq causes'
         /\ pushed => pushed'
         /\ \/ UNCHANGED outcome
            \/ outcome = "pending" /\ pushed' /\ outcome' = "resolved"
            \/ outcome = "pending" /\ outcome' \in causes'
<1>1. CASE createSession \/ reveal \/ trackTask \/ sendTask \/ submitAndWait
  <2>1. UNCHANGED pushed
    BY <1>1 DEF createSession, reveal, trackTask, sendTask, submitAndWait
  <2>2. \/ UNCHANGED <<outcome, causes>>
        \/ \E reason \in Reasons : Refuse(reason)
    BY <1>1 DEF createSession, reveal, trackTask, sendTask, submitAndWait, Track, Connect, Reasons
  <2>3. QED
    BY <2>1, <2>2 DEF Refuse, Settle
<1>2. CASE GatewayTakes \/ TaskMoves \/ PeerSends \/ onopen
  <2>1. UNCHANGED <<causes, outcome>>
    BY <1>2 DEF GatewayTakes, TaskMoves, PeerSends, onopen
  <2>2. UNCHANGED pushed \/ \E frame \in Frames : pushed' = (pushed \/ Awaited(frame))
    BY <1>2 DEF GatewayTakes, TaskMoves, PeerSends, onopen, Push
  <2>3. pushed => pushed'
    BY <2>2, Zenon
  <2>4. QED
    BY <2>1, <2>3
<1>3. CASE sendTaskTimesOut \/ timerFires
  BY <1>3 DEF sendTaskTimesOut, timerFires, Settle
<1>4. CASE onerror
  BY <1>4, RejectReleases DEF onerror, Reasons
<1>5. CASE onclose
  BY <1>5 DEF onclose, Settle
<1>6. CASE onmessage
  <2>1. Awaited(Frame) => pushed
    <3>1. inbox # <<>> /\ inbox \in Seq(Frames)
      BY <1>6, MessageSteps DEF SocketsHold, FramesWereSent
    <3>2. Frame = inbox[1] /\ 1 \in 1..Len(inbox)
      BY <3>1, EmptySeq DEF Frame
    <3>3. QED
      BY <3>2 DEF SocketsHold, FramesWereSent
  <2>2. QED
    BY <1>6, <2>1, MessageSteps, ResolveReleases, RejectReleases
<1>7. QED
  BY <1>1, <1>2, <1>3, <1>4, <1>5, <1>6 DEF SocketsNext

-----------------------------------------------------------------------------
(* The page. *)

\* A request's value is under its snake_case key.
LEMMA CamelToSnakeKeepsValues ==
  ASSUME NEW params, DOMAIN params \subseteq DOMAIN SnakeKey,
         \A j, k \in DOMAIN params : SnakeKey[j] = SnakeKey[k] => j = k,
         NEW k \in DOMAIN params
  PROVE  camelToSnake(params)[SnakeKey[k]] = params[k]
<1> DEFINE from == CHOOSE j \in DOMAIN params : SnakeKey[j] = SnakeKey[k]
<1>1. from \in DOMAIN params /\ SnakeKey[from] = SnakeKey[k]
  OBVIOUS
<1>2. from = k
  BY <1>1
<1>3. SnakeKey[k] \in {SnakeKey[j] : j \in DOMAIN params}
  OBVIOUS
<1>4. camelToSnake(params)[SnakeKey[k]] = params[from]
  BY <1>3 DEF camelToSnake
<1>5. QED
  BY <1>2, <1>4

\* The task asked for is the submission's: its proof's CID and its minimum.
LEMMA WhatIsSubmitted ==
  /\ submitTwitterFollowersTask.params.proof_cid = submission.proof.cid
  /\ submitTwitterFollowersTask.params.wasm_args[1].hex.min_followers = submission.minFollowers
<1> DEFINE options == [policyClient |-> "client", intent |-> "intent", proofCid |-> submission.proof.cid,
                       timeout |-> 60, wasmArgs |-> [min_followers |-> submission.minFollowers]]
           params == buildCreateRequest(options)
           keys == {"policyClient", "intent", "wasmArgs", "timeout", "proofCid"}
<1>1. /\ DOMAIN params = keys
      /\ params["proofCid"] = submission.proof.cid
      /\ params["wasmArgs"] = <<[hex |-> [min_followers |-> submission.minFollowers]]>>
  BY DEF buildCreateRequest, buildSendRequest, resolveWasmArgs, WasmHex
<1>2. /\ keys \subseteq DOMAIN SnakeKey
      /\ \A j, k \in keys : SnakeKey[j] = SnakeKey[k] => j = k
      /\ SnakeKey["proofCid"] = "proof_cid" /\ SnakeKey["wasmArgs"] = "wasm_args"
  BY DEF SnakeKey
<1>3. /\ camelToSnake(params)["proof_cid"] = submission.proof.cid
      /\ camelToSnake(params)["wasm_args"] = <<[hex |-> [min_followers |-> submission.minFollowers]]>>
  <2> HIDE DEF params
  <2>1. "proofCid" \in DOMAIN params /\ "wasmArgs" \in DOMAIN params
    BY <1>1
  <2>2. DOMAIN params \subseteq DOMAIN SnakeKey
        /\ \A j, k \in DOMAIN params : SnakeKey[j] = SnakeKey[k] => j = k
    BY <1>1, <1>2
  <2>3. camelToSnake(params)[SnakeKey["proofCid"]] = params["proofCid"]
        /\ camelToSnake(params)[SnakeKey["wasmArgs"]] = params["wasmArgs"]
    BY <2>1, <2>2, CamelToSnakeKeepsValues
  <2>4. QED
    BY <1>1, <1>2, <2>3
<1>4. submitTwitterFollowersTask.params = camelToSnake(params)
  BY DEF submitTwitterFollowersTask, JsonRpcRequest
<1>5. QED
  BY <1>3, <1>4

\* The header the plugin takes is of the account asked for.
LEMMA HeaderIsAskedFor ==
  ASSUME NEW header \in latestTwitterHeader
  PROVE  header.user = request
BY DEF latestTwitterHeader, isUserByScreenNameHeader

\* What is left when a proof has failed.
LEMMA RemovedIsLeftOut ==
  ASSUME NEW S, NEW s \in Seq(S), NEW i \in 1..Len(s)
  PROVE  /\ RemoveAt(s, i) \in Seq(S)
         /\ \A j \in 1..Len(RemoveAt(s, i)) : \E k \in 1..Len(s) : RemoveAt(s, i)[j] = s[k]
<1> DEFINE before == SubSeq(s, 1, i - 1)
           after == SubSeq(s, i + 1, Len(s))
<1>1. Len(s) \in Nat /\ i \in Nat /\ \A k \in 1..Len(s) : s[k] \in S
  BY LenProperties, ElementOfSeq
<1>2. /\ before \in Seq(S) /\ Len(before) = i - 1
      /\ \A k \in 1..Len(before) : before[k] = s[k]
  <2>1. \A k \in 1..(i - 1) : s[k] \in S
    BY <1>1
  <2>2. QED
    BY <1>1, <2>1, SubSeqProperties
<1>3. /\ after \in Seq(S) /\ Len(after) = Len(s) - i
      /\ \A k \in 1..Len(after) : after[k] = s[i + k]
  <2>1. \A k \in (i + 1)..Len(s) : s[k] \in S
    BY <1>1
  <2>2. QED
    BY <1>1, <2>1, SubSeqProperties
<1>4. RemoveAt(s, i) = before \o after
  BY DEF RemoveAt
<1> HIDE DEF before, after
<1>5. /\ RemoveAt(s, i) \in Seq(S) /\ Len(RemoveAt(s, i)) = Len(before) + Len(after)
      /\ \A j \in 1..Len(before) + Len(after) :
           RemoveAt(s, i)[j] = IF j <= Len(before) THEN before[j] ELSE after[j - Len(before)]
  BY <1>2, <1>3, <1>4, ConcatProperties
<1>6. ASSUME NEW j \in 1..Len(RemoveAt(s, i))
      PROVE  \E k \in 1..Len(s) : RemoveAt(s, i)[j] = s[k]
  <2>1. CASE j <= i - 1
    BY <1>1, <1>2, <1>5, <2>1
  <2>2. CASE j > i - 1
    <3>1. j - (i - 1) \in 1..Len(after) /\ i + (j - (i - 1)) \in 1..Len(s)
      BY <1>1, <1>2, <1>3, <1>5, <2>2
    <3>2. RemoveAt(s, i)[j] = s[i + (j - (i - 1))]
      BY <1>1, <1>2, <1>3, <1>5, <2>2, <3>1
    <3>3. QED
      BY <3>1, <3>2
  <2>3. QED
    BY <1>1, <1>5, <2>1, <2>2
<1>7. QED
  BY <1>5, <1>6

LEMMA InitDemo == DemoInit => DemoTypeOK /\ DemoHolds
<1> SUFFICES ASSUME DemoInit PROVE DemoTypeOK /\ DemoHolds
  OBVIOUS
<1>1. /\ NoPlugin \in [headers : Seq([user : Users, auth : BOOLEAN]), autoStarted : BOOLEAN,
                        isProving : BOOLEAN, proving : Seq([user : Users, auto : BOOLEAN])]
      /\ DOMAIN NoPlugin.proving = {}
  BY EmptySeq DEF NoPlugin
<1>2. DemoTypeOK
  BY <1>1 DEF DemoInit, DemoTypeOK
<1>3. DemoHolds
  BY <1>1 DEF DemoInit, DemoHolds, GenerationIsOf, TaskIsSubmitted, ProofIsVerified, ResultMatchesTask
<1>4. QED
  BY <1>2, <1>3

\* The person at the page, and the checks.
LEMMA InputsKeep ==
  ASSUME DemoTypeOK, DemoHolds,
         onUsernameChange \/ onMinFollowersChange \/ ExtensionLoads \/ runChecks \/ checkSystem
  PROVE  DemoTypeOK' /\ DemoHolds'
<1>1. UNCHANGED <<generating, request, plugin, bytes, proof, submission, task, policyResult>>
  BY DEF onUsernameChange, onMinFollowersChange, ExtensionLoads, runChecks, checkSystem, generation
<1>2. /\ tlsn' \in BOOLEAN /\ validConfig' \in BOOLEAN
      /\ checks' \in {"idle", "checking", "passed", "failed"}
      /\ twitterUsername' \in Users \cup {NoUser} /\ minFollowers' \in Thresholds
  BY DEF DemoTypeOK, onUsernameChange, onMinFollowersChange, ExtensionLoads, runChecks, checkSystem, inputs
<1>3. DemoTypeOK'
  BY <1>1, <1>2 DEF DemoTypeOK
<1>4. DemoHolds'
  BY <1>1 DEF DemoHolds, GenerationIsOf, TaskIsSubmitted, ProofIsVerified, ResultMatchesTask
<1>5. QED
  BY <1>3, <1>4

\* A generation that begins or ends.
LEMMA GenerationStartsAndEnds ==
  ASSUME DemoTypeOK, DemoHolds, generateProof \/ execCodeFails \/ storeTimesOut
  PROVE  DemoTypeOK' /\ DemoHolds'
<1>1. UNCHANGED <<tlsn, validConfig, checks, twitterUsername, minFollowers, submission, task>>
  BY DEF generateProof, startGeneration, execCodeFails, storeTimesOut, inputs
<1>2. /\ NoPlugin \in [headers : Seq([user : Users, auth : BOOLEAN]), autoStarted : BOOLEAN,
                        isProving : BOOLEAN, proving : Seq([user : Users, auto : BOOLEAN])]
      /\ DOMAIN NoPlugin.proving = {}
  BY EmptySeq DEF NoPlugin
<1>3. plugin' = NoPlugin /\ proof' \in {proof, Nothing} /\ policyResult' \in {policyResult, Nothing}
  BY DEF generateProof, startGeneration, execCodeFails, storeTimesOut, GenerationEnds
<1>4. \/ generating' = "plugin" /\ generating = "no" /\ request' \in Users /\ UNCHANGED bytes
      \/ generating' = "no" /\ request' = NoUser
         /\ bytes' \in {bytes, Nothing}
  BY DEF DemoTypeOK, generateProof, startGeneration, execCodeFails, storeTimesOut, GenerationEnds
<1>5. DemoTypeOK'
  BY <1>1, <1>2, <1>3, <1>4 DEF DemoTypeOK
<1>6. DemoHolds'
  <2>1. generating' # "storing" /\ bytes' = Nothing
    BY <1>4 DEF DemoHolds, GenerationIsOf, generateProof, startGeneration, execCodeFails, storeTimesOut,
       GenerationEnds
  <2>2. GenerationIsOf(request)'
    BY <1>2, <1>3, <2>1 DEF GenerationIsOf
  <2>3. ProofIsVerified' /\ ResultMatchesTask'
    BY <1>3 DEF DemoHolds, ProofIsVerified, ResultMatchesTask
  <2>4. QED
    BY <1>1, <2>2, <2>3 DEF DemoHolds, TaskIsSubmitted
<1>7. QED
  BY <1>5, <1>6

\* A step of the plugin that goes on proving what was asked for.
LEMMA PluginGoesOn ==
  ASSUME DemoTypeOK, DemoHolds, generating = "plugin", inPlugin,
         plugin' \in [headers : Seq([user : Users, auth : BOOLEAN]), autoStarted : BOOLEAN,
                     isProving : BOOLEAN, proving : Seq([user : Users, auto : BOOLEAN])],
         \A i \in DOMAIN plugin'.proving : plugin'.proving[i].user = request
  PROVE  DemoTypeOK' /\ DemoHolds'
<1>1. UNCHANGED <<tlsn, validConfig, checks, twitterUsername, minFollowers, generating, request, bytes, proof,
                  submission, task, policyResult>>
  BY DEF inPlugin, inputs
<1>2. DemoTypeOK'
  BY <1>1 DEF DemoTypeOK
<1>3. GenerationIsOf(request)'
  BY <1>1 DEF DemoHolds, GenerationIsOf
<1>4. DemoHolds'
  BY <1>1, <1>3 DEF DemoHolds, TaskIsSubmitted, ProofIsVerified, ResultMatchesTask
<1>5. QED
  BY <1>2, <1>4

\* onClick adds no proof but one of the account asked for.
LEMMA ClickProvesWhatIsAskedFor ==
  ASSUME DemoTypeOK, DemoHolds, generating = "plugin", NEW auto \in BOOLEAN,
         NEW state \in [headers : Seq([user : Users, auth : BOOLEAN]), autoStarted : BOOLEAN,
                       isProving : BOOLEAN, proving : Seq([user : Users, auto : BOOLEAN])],
         state.proving = plugin.proving
  PROVE  /\ onClick(state, auto)
              \in [headers : Seq([user : Users, auth : BOOLEAN]), autoStarted : BOOLEAN,
                  isProving : BOOLEAN, proving : Seq([user : Users, auto : BOOLEAN])]
         /\ \A i \in DOMAIN onClick(state, auto).proving : onClick(state, auto).proving[i].user = request
<1> DEFINE chosen == CHOOSE header \in latestTwitterHeader : header.auth
           new == [user |-> chosen.user, auto |-> auto]
           T == [user : Users, auto : BOOLEAN]
<1>1. state.proving \in Seq(T) /\ \A i \in DOMAIN state.proving : state.proving[i].user = request
  BY DEF DemoHolds, GenerationIsOf
<1>2. CASE ready
  <2>1. chosen \in latestTwitterHeader
    BY <1>2 DEF ready
  <2>2. chosen.user = request
    BY <2>1, HeaderIsAskedFor
  <2>3. request \in Users
    BY DEF DemoTypeOK
  <2>4. new \in T /\ new.user = request
    BY <2>2, <2>3
  <2>5. onClick(state, auto) = [state EXCEPT !.isProving = TRUE, !.proving = Append(@, new)]
    BY <1>2 DEF onClick
  <2> HIDE DEF new, T, chosen
  <2>6. /\ Append(state.proving, new) \in Seq(T)
        /\ Len(Append(state.proving, new)) = Len(state.proving) + 1
        /\ \A i \in 1..Len(state.proving) : Append(state.proving, new)[i] = state.proving[i]
        /\ Append(state.proving, new)[Len(state.proving) + 1] = new
    BY <1>1, <2>4, AppendProperties
  <2>7. /\ Len(state.proving) \in Nat
        /\ DOMAIN state.proving = 1..Len(state.proving)
        /\ DOMAIN Append(state.proving, new) = 1..Len(Append(state.proving, new))
    BY <1>1, <2>6, LenProperties
  <2>8. \A i \in DOMAIN Append(state.proving, new) : Append(state.proving, new)[i].user = request
    <3>1. TAKE i \in DOMAIN Append(state.proving, new)
    <3>2. CASE i \in 1..Len(state.proving)
      BY <1>1, <2>6, <2>7, <3>2
    <3>3. CASE i = Len(state.proving) + 1
      BY <2>4, <2>6, <3>3
    <3>4. QED
      BY <2>6, <2>7, <3>2, <3>3
  <2>9. onClick(state, auto).proving = Append(state.proving, new)
    BY <2>5
  <2>10. onClick(state, auto)
           \in [headers : Seq([user : Users, auth : BOOLEAN]), autoStarted : BOOLEAN,
               isProving : BOOLEAN, proving : Seq(T)]
    BY <2>5, <2>6
  <2>11. QED
    BY <2>8, <2>9, <2>10 DEF T
<1>3. CASE ~ready
  <2>1. onClick(state, auto) = [state EXCEPT !.isProving = TRUE]
    BY <1>3 DEF onClick
  <2>2. QED
    BY <1>1, <2>1
<1>4. QED
  BY <1>2, <1>3

LEMMA PluginKeeps ==
  ASSUME DemoTypeOK, DemoHolds, XRequests \/ autoStart \/ manualStart
  PROVE  DemoTypeOK' /\ DemoHolds'
<1>1. generating = "plugin" /\ inPlugin
  BY DEF XRequests, autoStart, manualStart
<1>2. /\ plugin \in [headers : Seq([user : Users, auth : BOOLEAN]), autoStarted : BOOLEAN,
                     isProving : BOOLEAN, proving : Seq([user : Users, auto : BOOLEAN])]
      /\ \A i \in DOMAIN plugin.proving : plugin.proving[i].user = request
  BY DEF DemoTypeOK, DemoHolds, GenerationIsOf
<1>3. CASE XRequests
  <2>1. PICK h \in [user : Users, auth : BOOLEAN] : plugin' = [plugin EXCEPT !.headers = Append(@, h)]
    BY <1>3 DEF XRequests
  <2>2. Append(plugin.headers, h) \in Seq([user : Users, auth : BOOLEAN])
    BY <1>2, AppendProperties
  <2>3. QED
    BY <1>1, <1>2, <2>1, <2>2, PluginGoesOn
<1>4. CASE autoStart
  <2>1. plugin' = onClick([plugin EXCEPT !.autoStarted = TRUE], TRUE)
    BY <1>4 DEF autoStart
  <2> DEFINE started == [plugin EXCEPT !.autoStarted = TRUE]
  <2>2. /\ started \in [headers : Seq([user : Users, auth : BOOLEAN]), autoStarted : BOOLEAN,
                        isProving : BOOLEAN, proving : Seq([user : Users, auto : BOOLEAN])]
        /\ started.proving = plugin.proving
    BY <1>2
  <2> HIDE DEF started
  <2>3. plugin' = onClick(started, TRUE)
    BY <2>1 DEF started
  <2>4. QED
    BY <1>1, <2>2, <2>3, ClickProvesWhatIsAskedFor, PluginGoesOn
<1>5. CASE manualStart
  <2>1. plugin' = onClick(plugin, FALSE)
    BY <1>5 DEF manualStart
  <2>2. QED
    BY <1>1, <1>2, <2>1, ClickProvesWhatIsAskedFor, PluginGoesOn
<1>6. QED
  BY <1>3, <1>4, <1>5

LEMMA ProveFailsKeeps ==
  ASSUME DemoTypeOK, DemoHolds, proveFails
  PROVE  DemoTypeOK' /\ DemoHolds'
<1>1. generating = "plugin"
  BY DEF proveFails
<1>2. CASE execCodeFails
  BY <1>2, GenerationStartsAndEnds
<1>3. CASE ~execCodeFails
  <2>1. PICK i \in DOMAIN plugin.proving :
          plugin' = [plugin EXCEPT !.proving = RemoveAt(@, i)] /\ UNCHANGED <<generating, request, bytes>>
    BY <1>3 DEF proveFails, execCodeFails
  <2>2. /\ plugin.proving \in Seq([user : Users, auto : BOOLEAN])
        /\ \A k \in DOMAIN plugin.proving : plugin.proving[k].user = request
    BY DEF DemoTypeOK, DemoHolds, GenerationIsOf
  <2>3. i \in 1..Len(plugin.proving)
    BY <2>2, LenProperties
  <2>4. /\ RemoveAt(plugin.proving, i) \in Seq([user : Users, auto : BOOLEAN])
        /\ \A j \in 1..Len(RemoveAt(plugin.proving, i)) :
             \E k \in 1..Len(plugin.proving) : RemoveAt(plugin.proving, i)[j] = plugin.proving[k]
    <3> DEFINE T == [user : Users, auto : BOOLEAN]
               s == plugin.proving
    <3>1. s \in Seq(T) /\ i \in 1..Len(s)
      BY <2>2, <2>3
    <3> HIDE DEF T, s
    <3>2. /\ RemoveAt(s, i) \in Seq(T)
          /\ \A j \in 1..Len(RemoveAt(s, i)) : \E k \in 1..Len(s) : RemoveAt(s, i)[j] = s[k]
      BY <3>1, RemovedIsLeftOut, Z3
    <3>3. QED
      BY <3>2 DEF T, s
  <2>5. \A j \in DOMAIN RemoveAt(plugin.proving, i) : RemoveAt(plugin.proving, i)[j].user = request
    BY <2>2, <2>4, LenProperties
  <2>6. plugin'.proving = RemoveAt(plugin.proving, i)
    BY <2>1 DEF DemoTypeOK
  <2>7. plugin' \in [headers : Seq([user : Users, auth : BOOLEAN]), autoStarted : BOOLEAN,
                    isProving : BOOLEAN, proving : Seq([user : Users, auto : BOOLEAN])]
    BY <2>1, <2>4 DEF DemoTypeOK
  <2>8. inPlugin
    BY <2>1 DEF proveFails, inPlugin
  <2>9. QED
    BY <1>1, <2>5, <2>6, <2>7, <2>8, PluginGoesOn
<1>4. QED
  BY <1>2, <1>3

\* The result the page stores is of the account asked for.
LEMMA ProveSucceedsKeeps ==
  ASSUME DemoTypeOK, DemoHolds, proveSucceeds
  PROVE  DemoTypeOK' /\ DemoHolds'
<1>1. UNCHANGED <<tlsn, validConfig, checks, twitterUsername, minFollowers, request, proof, submission, task,
                  policyResult>>
  BY DEF proveSucceeds, inputs
<1>2. PICK i \in DOMAIN plugin.proving, hasProof \in BOOLEAN, readable \in BOOLEAN :
        bytes' = readExtensionResult(plugin.proving[i].user, hasProof, readable)
  BY DEF proveSucceeds
<1>3. generating = "plugin" /\ generating' = "storing" /\ plugin' = NoPlugin /\ request \in Users
  BY DEF proveSucceeds, DemoTypeOK
<1>4. plugin.proving[i].user = request
  BY DEF DemoHolds, GenerationIsOf
<1>5. /\ bytes'.proof \in Proofs /\ bytes'.proof.of = request
      /\ bytes'.followerCount \in {0, Followers[request]} /\ bytes'.followerCount \in Nat
  BY <1>2, <1>3, <1>4, ZkTlsDemoAssumption DEF readExtensionResult, Proofs
<1>6. /\ NoPlugin \in [headers : Seq([user : Users, auth : BOOLEAN]), autoStarted : BOOLEAN,
                        isProving : BOOLEAN, proving : Seq([user : Users, auto : BOOLEAN])]
      /\ DOMAIN NoPlugin.proving = {}
  BY EmptySeq DEF NoPlugin
<1>7. DemoTypeOK'
  BY <1>1, <1>3, <1>5, <1>6 DEF DemoTypeOK
<1>8. GenerationIsOf(request)'
  BY <1>1, <1>3, <1>5, <1>6 DEF GenerationIsOf
<1>9. DemoHolds'
  BY <1>1, <1>8 DEF DemoHolds, TaskIsSubmitted, ProofIsVerified, ResultMatchesTask
<1>10. QED
  BY <1>7, <1>9

\* store gives no CID but that of the bytes it was given.
LEMMA StoredIsVerified ==
  ASSUME NEW b, NEW response \in StoreResponses(Cids), store(b, response).kind = "result"
  PROVE  store(b, response).value = Cid("sha2-256", b)
<1>1. response.cid \in Cids
  BY DEF StoreResponses
<1>2. /\ response.cid.hash = "sha2-256" /\ response.cid.bytes = b
      /\ store(b, response).value = response.cid
  BY DEF store, verifyCidIntegrity, Result, Failure
<1>3. response.cid \in [hash : {response.cid.hash}, bytes : {response.cid.bytes}]
  BY <1>1 DEF Cids, Cid, MalformedCid
<1>4. QED
  BY <1>2, <1>3 DEF Cid

LEMMA StoringKeeps ==
  ASSUME DemoTypeOK, DemoHolds, generateTwitterFollowerProof
  PROVE  DemoTypeOK' /\ DemoHolds'
<1>1. UNCHANGED <<tlsn, validConfig, checks, twitterUsername, minFollowers, submission, task, policyResult>>
  BY DEF generateTwitterFollowerProof, inputs, GenerationEnds
<1>2. /\ generating' = "no" /\ request' = NoUser /\ plugin' = NoPlugin /\ bytes' = Nothing
      /\ generating = "storing" /\ request \in Users
  BY DEF generateTwitterFollowerProof, GenerationEnds, DemoTypeOK
<1>3. /\ bytes.proof \in Proofs /\ bytes.proof.of = request
      /\ bytes.followerCount \in {0, Followers[request]} /\ bytes.followerCount \in Nat
  BY <1>2, ZkTlsDemoAssumption DEF DemoHolds, GenerationIsOf
<1>4. \/ UNCHANGED proof
      \/ proof' = PageProof(Cid("sha2-256", bytes.proof), bytes.proof, bytes.followerCount, request)
  <2>1. PICK response \in StoreResponses(Cids) :
          proof' = IF store(bytes.proof, response).kind = "result"
                   THEN PageProof(store(bytes.proof, response).value, bytes.proof, bytes.followerCount, request)
                   ELSE proof
    BY DEF generateTwitterFollowerProof
  <2>2. QED
    BY <2>1, StoredIsVerified
<1>5. /\ NoPlugin \in [headers : Seq([user : Users, auth : BOOLEAN]), autoStarted : BOOLEAN,
                        isProving : BOOLEAN, proving : Seq([user : Users, auto : BOOLEAN])]
      /\ DOMAIN NoPlugin.proving = {}
  BY EmptySeq DEF NoPlugin
<1>6. DemoTypeOK'
  BY <1>1, <1>2, <1>3, <1>4, <1>5 DEF DemoTypeOK, PageProof
<1>7. GenerationIsOf(request)'
  BY <1>2, <1>5 DEF GenerationIsOf
<1>8. ProofIsVerified'
  BY <1>3, <1>4 DEF DemoHolds, ProofIsVerified, PageProof
<1>9. DemoHolds'
  BY <1>1, <1>7, <1>8 DEF DemoHolds, TaskIsSubmitted, ResultMatchesTask
<1>10. QED
  BY <1>6, <1>9

\* The task is that of the click, and so is what the page makes of its answer.
LEMMA SubmittingKeeps ==
  ASSUME DemoTypeOK, DemoHolds, submitTask \/ GatewayEvaluates
  PROVE  DemoTypeOK' /\ DemoHolds'
<1>1. UNCHANGED <<tlsn, validConfig, checks, twitterUsername, minFollowers, generating, request, plugin, bytes,
                  proof, policyResult>>
  BY DEF submitTask, GatewayEvaluates, inputs, generation
<1>2. GenerationIsOf(request)' /\ ProofIsVerified' /\ ResultMatchesTask'
  BY <1>1 DEF DemoHolds, GenerationIsOf, ProofIsVerified, ResultMatchesTask
<1>3. CASE submitTask
  <2>1. /\ task' = task /\ submission = Nothing
        /\ submission' \in {Nothing, [proof |-> proof, minFollowers |-> minFollowers]} /\ proof # Nothing
    BY <1>3 DEF submitTask
  <2>2. DemoTypeOK'
    BY <1>1, <2>1 DEF DemoTypeOK
  <2>3. DemoHolds'
    BY <1>2, <2>1 DEF DemoTypeOK, DemoHolds, TaskIsSubmitted
  <2>4. QED
    BY <2>2, <2>3
<1>4. CASE GatewayEvaluates
  <2>1. PICK verdict \in Verdicts :
          task' = [cid |-> submission.proof.cid, min_followers |-> submission.minFollowers, allowed |-> verdict]
    BY <1>4, WhatIsSubmitted DEF GatewayEvaluates
  <2>2. UNCHANGED submission /\ submission # Nothing
    BY <1>4 DEF GatewayEvaluates
  <2>3. DemoTypeOK' /\ DemoHolds'
    BY <1>1, <1>2, <2>1, <2>2 DEF DemoTypeOK, DemoHolds, TaskIsSubmitted
  <2>4. QED
    BY <2>3
<1>5. QED
  BY <1>3, <1>4

\* An answer is shown against the submission's minimum, and allowed by whom it says.
LEMMA ShownIsOfTheTask ==
  ASSUME DemoTypeOK, DemoHolds, submission # Nothing, task # Nothing, NEW response \in TaskResponses,
         NEW shown, shown = extractPolicyVisualization(response, fallbackThreshold, submission.proof)
  PROVE  /\ shown.allow \in BOOLEAN /\ shown.threshold \in Nat
         /\ shown.threshold = shown.of.min_followers
         /\ shown.allow => \/ shown.of.allowed = "allowed"
                           \/ shown.told = Absent /\ shown.followersCount >= shown.threshold
<1>1. submission.minFollowers \in Nat /\ task.min_followers = submission.minFollowers
      /\ submission.proof.followerCount \in Nat
  BY ZkTlsDemoAssumption DEF DemoTypeOK, DemoHolds, TaskIsSubmitted
<1>2. CASE response.result # Nothing
  <2>1. /\ response.result.allow = task.allowed /\ response.result.min_required = task.min_followers
    BY <1>2 DEF TaskResponses
  <2>2. shown = Shown(response.result.allow = "allowed", response.result.followers_count,
                      response.result.min_required, response.result.allow)
    BY <1>2 DEF extractPolicyVisualization
  <2>3. /\ shown.allow = (response.result.allow = "allowed")
        /\ shown.threshold = response.result.min_required
        /\ shown.of.min_followers = task.min_followers /\ shown.of.allowed = task.allowed
    BY <2>2 DEF Shown
  <2>4. QED
    BY <1>1, <2>1, <2>3
<1>3. CASE response.result = Nothing /\ response.status = "success"
  <2>1. response.allowed \in {Absent, task.allowed}
    BY DEF TaskResponses
  <2>2. shown = Shown(IF response.allowed # Absent THEN response.allowed = "allowed"
                      ELSE submission.proof.followerCount >= submission.minFollowers,
                      submission.proof.followerCount, submission.minFollowers, response.allowed)
    BY <1>3 DEF extractPolicyVisualization, fallbackThreshold
  <2>3. /\ shown.allow = IF response.allowed # Absent THEN response.allowed = "allowed"
                         ELSE submission.proof.followerCount >= submission.minFollowers
        /\ shown.threshold = submission.minFollowers /\ shown.told = response.allowed
        /\ shown.followersCount = submission.proof.followerCount
        /\ shown.of.min_followers = task.min_followers /\ shown.of.allowed = task.allowed
    BY <2>2 DEF Shown
  <2>4. CASE response.allowed # Absent
    BY <1>1, <2>1, <2>3, <2>4
  <2>5. CASE response.allowed = Absent
    <3>1. CASE submission.proof.followerCount >= submission.minFollowers
      <4>1. shown.allow = TRUE
        BY <2>3, <2>5, <3>1
      <4>2. shown.followersCount >= shown.threshold
        BY <2>3, <3>1
      <4>3. QED
        BY <1>1, <2>3, <2>5, <4>1, <4>2
    <3>2. CASE ~(submission.proof.followerCount >= submission.minFollowers)
      <4>1. (submission.proof.followerCount >= submission.minFollowers) = FALSE
        BY <1>1, <3>2
      <4>2. shown.allow = (submission.proof.followerCount >= submission.minFollowers)
        BY <2>3, <2>5
      <4>3. shown.allow = FALSE
        BY <4>1, <4>2, Zenon
      <4>4. QED
        BY <1>1, <2>3, <4>3
    <3>3. QED
      BY <3>1, <3>2
  <2>6. QED
    BY <2>4, <2>5
<1>4. CASE response.result = Nothing /\ response.status # "success"
  <2>1. shown = Shown(FALSE, 0, submission.minFollowers, Absent)
    BY <1>4 DEF extractPolicyVisualization, fallbackThreshold
  <2>2. QED
    BY <1>1, <2>1 DEF Shown
<1>5. QED
  BY <1>2, <1>3, <1>4

LEMMA AnswerKeeps ==
  ASSUME DemoTypeOK, DemoHolds, TaskAnswered
  PROVE  DemoTypeOK' /\ DemoHolds'
<1>1. /\ UNCHANGED <<tlsn, validConfig, checks, twitterUsername, minFollowers, generating, request, plugin,
                      bytes, proof>>
      /\ submission # Nothing /\ submission' = Nothing /\ task' = Nothing
  BY DEF TaskAnswered, inputs, generation
<1>2. \/ UNCHANGED policyResult
      \/ task # Nothing /\ \E response \in TaskResponses :
            policyResult' = extractPolicyVisualization(response, fallbackThreshold, submission.proof)
  <2>1. CASE UNCHANGED policyResult
    BY <2>1
  <2>2. CASE ~UNCHANGED policyResult
    <3>1. PICK response \in Responses(TaskResponses, {"InvalidRequest"}) :
            policyResult' = extractPolicyVisualization(response.value, fallbackThreshold, submission.proof)
      BY <2>2 DEF TaskAnswered
    <3>2. task # Nothing
      BY <2>2 DEF TaskAnswered
    <3>3. response.value \in TaskResponses
      BY DEF Responses
    <3>4. QED
      BY <3>1, <3>2, <3>3
  <2>3. QED
    BY <2>1, <2>2
<1>3. /\ policyResult' # Nothing => policyResult'.allow \in BOOLEAN /\ policyResult'.threshold \in Nat
      /\ ResultMatchesTask'
  BY <1>1, <1>2, ShownIsOfTheTask DEF DemoTypeOK, DemoHolds, ResultMatchesTask
<1>4. DemoTypeOK'
  BY <1>1, <1>3 DEF DemoTypeOK
<1>5. DemoHolds'
  BY <1>1, <1>3 DEF DemoHolds, GenerationIsOf, TaskIsSubmitted, ProofIsVerified
<1>6. QED
  BY <1>4, <1>5

LEMMA DemoKeeps ==
  ASSUME DemoTypeOK, DemoHolds, [DemoNext]_demoVars
  PROVE  DemoTypeOK' /\ DemoHolds'
<1>1. CASE UNCHANGED demoVars
  <2>1. UNCHANGED <<tlsn, validConfig, checks, twitterUsername, minFollowers, generating, request, plugin,
                    bytes, proof, submission, task, policyResult>>
    BY <1>1 DEF demoVars, inputs, generation
  <2>2. QED
    BY <2>1
    DEF DemoTypeOK, DemoHolds, GenerationIsOf, TaskIsSubmitted, ProofIsVerified, ResultMatchesTask
<1>2. CASE DemoNext
  BY <1>2, InputsKeep, GenerationStartsAndEnds, PluginKeeps, ProveFailsKeeps, ProveSucceedsKeeps,
     StoringKeeps, SubmittingKeeps, AnswerKeeps
  DEF DemoNext
<1>3. QED
  BY <1>1, <1>2

-----------------------------------------------------------------------------
(* The programs. *)

\* What holds of the state of both programs.
IInv == TypeOK /\ SocketsHold /\ DemoHolds

LEMMA InitIInv == Init => IInv
<1> SUFFICES ASSUME Init PROVE IInv
  OBVIOUS
<1>1. SocketsTypeOK /\ SocketsHold
  BY InitSockets DEF Init
<1>2. DemoTypeOK /\ DemoHolds
  BY InitDemo DEF Init
<1>3. program \in {createNewtonSDK[c] : c \in DOMAIN createNewtonSDK}
  BY DEF Init, createNewtonSDK
<1>4. QED
  BY <1>1, <1>2, <1>3 DEF IInv, TypeOK

\* A step is of one of the programs, and leaves the other's state alone.
LEMMA StepIsOfOne == [Next]_vars => [SocketsNext]_socketVars /\ [DemoNext]_demoVars /\ UNCHANGED program
BY DEF Next, Page, Script, vars

\* The invariant the safety properties follow from: what each stage of a call over a socket holds
\* and which frames were sent to it (attester.ts, task.ts), and whose proof is being made and
\* whose task is being evaluated (newtonFlow.ts, App.tsx).
THEOREM Invariance == Spec => []IInv
<1>1. IInv /\ [Next]_vars => IInv'
  <2> SUFFICES ASSUME IInv, [Next]_vars PROVE IInv'
    OBVIOUS
  <2>1. SocketsTypeOK' /\ SocketsHold'
    BY StepIsOfOne, SocketsKeep DEF IInv, TypeOK
  <2>2. DemoTypeOK' /\ DemoHolds'
    BY StepIsOfOne, DemoKeeps DEF IInv, TypeOK
  <2>3. program' \in {createNewtonSDK[c] : c \in DOMAIN createNewtonSDK}
    BY StepIsOfOne DEF IInv, TypeOK
  <2>4. QED
    BY <2>1, <2>2, <2>3 DEF IInv, TypeOK
<1>2. QED
  BY <1>1, InitIInv, PTL DEF Spec

\* The state of both programs has its type: createNewtonSDK's calls and the page never hold a
\* value of another kind (attester.ts, task.ts, App.tsx, newtonFlow.ts).
THEOREM TypeInvariant == Spec => []TypeOK
<1>1. IInv => TypeOK
  BY DEF IInv
<1>2. QED
  BY <1>1, Invariance, PTL

\* Whatever order frames, errors, closes and timeouts come in, a call that has settled has no
\* timer and no open socket, and one that waits has its timer: the cleanup of attester.ts and
\* task.ts.
THEOREM SettledCallsRelease == Spec => []SettledReleases
<1>1. IInv => SettledReleases
  BY DEF IInv, SocketsHold
<1>2. QED
  BY <1>1, Invariance, PTL

\* Whatever is typed, captured or answered while a proof is made, the page's proof is of the
\* account it names, has the hash of its bytes as CID and that account's follower count or 0
\* (newtonFlow.ts, proof.ts).
THEOREM ProofsAreVerified == Spec => []ProofIsVerified
<1>1. IInv => ProofIsVerified
  BY DEF IInv, DemoHolds
<1>2. QED
  BY <1>1, Invariance, PTL

\* Whatever is typed while a task is under way, the result the page shows is of the minimum its
\* task was submitted with and does not contradict the operators (App.tsx, utils.ts).
THEOREM ResultsMatchTheirTask == Spec => []ResultMatchesTask
<1>1. IInv => ResultMatchesTask
  BY DEF IInv, DemoHolds
<1>2. QED
  BY <1>1, Invariance, PTL

\* createSession, reveal, trackTask and submitAndWait implement Await: each settles once, resolves
\* only if the frame it waits for was sent to it and rejects only with what has happened.
THEOREM Refinement == Spec => ImplementsAwait
<1>1. Init => AbstractAwait!Init
  BY DEF Init, SocketsInit, AbstractAwait!Init
<1>2. IInv /\ [Next]_vars => [AbstractAwait!Next]_(AbstractAwait!awaitVars)
  <2> SUFFICES ASSUME IInv, [Next]_vars
               PROVE  [AbstractAwait!Next]_(AbstractAwait!awaitVars)
    OBVIOUS
  <2>1. SocketsTypeOK /\ SocketsHold /\ [SocketsNext]_socketVars
    BY StepIsOfOne DEF IInv, TypeOK
  <2>2. CASE UNCHANGED socketVars
    BY <2>2 DEF socketVars, AbstractAwait!awaitVars
  <2>3. CASE SocketsNext
    <3>1. pushed' \in BOOLEAN /\ causes' \in SUBSET Reasons
      BY <2>1, SocketsKeep DEF SocketsTypeOK
    <3>2. AbstractAwait!Advance
      BY <2>1, <2>3, <3>1, SettlesOnce DEF AbstractAwait!Advance
    <3>3. CASE UNCHANGED outcome
      BY <3>2, <3>3 DEF AbstractAwait!Next
    <3>4. CASE outcome = "pending" /\ pushed' /\ outcome' = "resolved"
      BY <3>2, <3>4 DEF AbstractAwait!Next, AbstractAwait!Resolve
    <3>5. CASE outcome = "pending" /\ outcome' \in causes'
      BY <3>2, <3>5 DEF AbstractAwait!Next, AbstractAwait!Reject
    <3>6. QED
      BY <2>1, <2>3, <3>3, <3>4, <3>5, SettlesOnce
  <2>4. QED
    BY <2>1, <2>2, <2>3
<1>3. QED
  BY <1>1, <1>2, Invariance, PTL DEF Spec, ImplementsAwait, AbstractAwait!Spec
=============================================================================
