---------------------------- MODULE GatewayCalls ----------------------------
(***************************************************************************)
(* The calls of one wallet client to the gateway (src/modules/avs/index.ts *)
(* and src/modules/privacy/index.ts over src/utils/https.ts) and the       *)
(* WebSocket that submitIntentAndSubscribe leaves its caller               *)
(* (src/utils/task-events.ts).                                             *)
(*                                                                         *)
(* The gateway takes a request, works on it and answers, or gives up its   *)
(* HTTP request while the task runs on; it publishes updates of a task to  *)
(* those that are subscribed when it does.  Nothing is sent twice, and no  *)
(* update is kept for who comes late.  Secrets and confidential data are   *)
(* sealed to a key that the gateway is asked for first, and that it may    *)
(* replace meanwhile.                                                      *)
(*                                                                         *)
(* submitEvaluationRequest, and the wait that follows it, is TaskWait.     *)
(***************************************************************************)
EXTENDS Integers, Sequences

CONSTANTS
  Calls,        \* the calls made
  Asked,        \* what they may be, together: functions from Calls to Kinds
  CallerKeys,   \* the keys a caller may have of its own
  Plaintexts,   \* what there is to seal: Uint8Arrays, each a view of a buffer
  MaxUpdates,   \* bound: the updates the gateway publishes of a task
  MaxKey        \* bound: the keys the gateway has for one purpose, one after the other

TaskKinds == {"evaluateIntentDirect", "submitIntentAndSubscribe"}

SealingKinds == {"storeEncryptedSecrets", "uploadConfidentialData"}

\* simulate stands for each call that is one Post and its result: the simulations, the
\* webhook calls, and, with no `success` in their results, the privacy module's other calls.
Kinds == TaskKinds \cup SealingKinds \cup {"simulate"}

\* Those whose result has a `success`, which may be false.
ReportingKinds == {"simulate", "storeEncryptedSecrets"}

Purposes == {"secrets", "privacy"}

GatewayKeys == [for : Purposes, number : 1..MaxKey]

ASSUME GatewayCallsAssumption ==
  /\ Asked \subseteq [Calls -> Kinds]
  /\ MaxUpdates \in Nat /\ MaxKey \in Nat \ {0}
  /\ CallerKeys \subseteq GatewayKeys
  /\ Plaintexts \subseteq [buffer : Seq(Nat), offset : Nat, length : Nat]

VARIABLES
  apiKey,      \* the client's: accepted, unknown to the gateway, or accepted in a header alone
  kind,        \* call -> the function called
  stage,       \* call -> where it is
  outcome,     \* call -> what its promise settled with
  wire,        \* the calls whose request the gateway has yet to take
  serving,     \* those whose request it has taken and not answered
  work,        \* call -> how far the gateway is with what it asked for, the task among it
  answer,      \* call -> the answer to it, on its way
  socket,      \* call -> its WebSocket
  subscribing, \* those whose subscribe frame is on its way
  since,       \* call -> the updates published when it was subscribed
  published,   \* call -> the updates of its task published so far
  frames,      \* call -> those on their way to it
  received,    \* call -> those its caller has had
  gatewayKey,  \* purpose -> the number of the gateway's key for it
  keyWire,     \* the calls whose request for a key the gateway has yet to answer
  told,        \* call -> the key it is being told
  envelope,    \* call -> the envelope it has made
  keyAtCall    \* call -> the number its key had when it was made

call == <<stage, outcome>>
args == <<apiKey, kind>>
gateway == <<wire, serving, work, answer>>
stream == <<socket, subscribing, since, published, frames, received>>
keys == <<gatewayKey, keyWire, told, envelope, keyAtCall>>
vars == <<args, call, gateway, stream, keys>>

Keys == {"accepted", "unknown", "header_only"}

NoKey == [for |-> "none", number |-> 0]

\* A view's own bytes.
BytesOf(view) == SubSeq(view.buffer, view.offset + 1, view.offset + view.length)

\* A string's, or an object's, are a buffer of their own.
IsWhole(view) == view.offset = 0 /\ view.length = Len(view.buffer)

Envelopes ==
  [key : GatewayKeys, source : {"caller", "gateway"}, plaintext : Plaintexts, sealed : Seq(Nat)]

NoEnvelope == [key |-> NoKey, source |-> "none", plaintext |-> {}, sealed |-> <<>>]

\* A JSON-RPC result; one whose `success` is false; one of a task with an `error`; a createTask
\* result without a task_response; a JSON-RPC error; a status that is not 2xx; a 2xx that is no
\* JSON-RPC.
Answers ==
  {"result", "unsuccessful", "failed_task", "no_response", "error", "http_error", "malformed"}

Errors == {"invalid_argument", "gateway_error", "task_failed", "malformed_response", "network"}

Unsubscribed == -1

TypeOK ==
  /\ apiKey \in Keys /\ kind \in [Calls -> Kinds]
  /\ stage \in [Calls -> {"idle", "asking", "sent", "settled"}]
  /\ outcome \in [Calls -> {"pending", "resolved", "resolved_unsuccessful"} \cup Errors]
  /\ wire \subseteq Calls /\ serving \subseteq Calls
  /\ work \in [Calls -> {"none", "running", "done", "failed"}]
  /\ answer \in [Calls -> Answers \cup {"none"}]
  /\ socket \in [Calls -> {"none", "connecting", "open", "closed"}]
  /\ subscribing \subseteq Calls
  /\ since \in [Calls -> 0..MaxUpdates \cup {Unsubscribed}]
  /\ published \in [Calls -> 0..MaxUpdates]
  /\ frames \in [Calls -> Seq(1..MaxUpdates)]
  /\ received \in [Calls -> SUBSET (1..MaxUpdates)]
  /\ gatewayKey \in [Purposes -> 1..MaxKey] /\ keyWire \subseteq Calls
  /\ told \in [Calls -> GatewayKeys \cup {NoKey}]
  /\ envelope \in [Calls -> Envelopes \cup {NoEnvelope}]
  /\ keyAtCall \in [Calls -> 0..MaxKey]

Init ==
  /\ apiKey \in Keys /\ kind \in Asked
  /\ stage = [k \in Calls |-> "idle"] /\ outcome = [k \in Calls |-> "pending"]
  /\ wire = {} /\ serving = {}
  /\ work = [k \in Calls |-> "none"] /\ answer = [k \in Calls |-> "none"]
  /\ socket = [k \in Calls |-> "none"] /\ subscribing = {}
  /\ since = [k \in Calls |-> Unsubscribed] /\ published = [k \in Calls |-> 0]
  /\ frames = [k \in Calls |-> <<>>] /\ received = [k \in Calls |-> {}]
  /\ gatewayKey = [purpose \in Purposes |-> 1] /\ keyWire = {}
  /\ told = [k \in Calls |-> NoKey] /\ envelope = [k \in Calls |-> NoEnvelope]
  /\ keyAtCall = [k \in Calls |-> 0]

-----------------------------------------------------------------------------
(* The gateway. *)

Takes(k) ==
  /\ k \in wire /\ apiKey # "unknown"
  /\ wire' = wire \ {k} /\ serving' = serving \cup {k}
  /\ work' = [work EXCEPT ![k] = "running"]
  /\ UNCHANGED <<args, call, answer, stream, keys>>

\* Secrets are stored if an operator has decrypted them.
Works(k) ==
  /\ work[k] = "running"
  /\ \E end \in {"done", "failed"} :
       /\ end = "done" /\ kind[k] = "storeEncryptedSecrets" =>
            envelope[k].key = [for |-> "secrets", number |-> gatewayKey["secrets"]]
       /\ work' = [work EXCEPT ![k] = end]
  /\ UNCHANGED <<args, call, wire, serving, answer, stream, keys>>

\* An answer finds the call waiting, or nobody.
Hears(k, reply) == answer' =
  IF stage[k] \in {"asking", "sent"} THEN [answer EXCEPT ![k] = reply] ELSE answer

\* Not this key, not now, or a proxy's page: nothing is begun.
Refuses(k) ==
  /\ k \in wire
  /\ wire' = wire \ {k}
  /\ \E reply \in {"error", "http_error", "malformed"} : Hears(k, reply)
  /\ UNCHANGED <<args, call, serving, work, stream, keys>>

\* newt_sendTask answers when it has a task, the others when they are through; any request
\* is given up with a 408 when it has lasted too long.
Replies(k) ==
  /\ k \in serving
  /\ serving' = serving \ {k}
  /\ \E reply \in Answers \ {"malformed"} :
       /\ reply = "result" => work[k] = "done"
            \/ (work[k] = "running" /\ kind[k] = "submitIntentAndSubscribe")
       /\ reply = "unsuccessful" => work[k] = "failed" /\ kind[k] \in ReportingKinds
       /\ reply = "no_response" =>
            work[k] \in {"done", "failed"} /\ kind[k] = "evaluateIntentDirect"
       /\ reply = "failed_task" => work[k] = "failed" /\ kind[k] \in TaskKinds
       /\ reply = "error" => work[k] = "failed"
       /\ Hears(k, reply)
  /\ UNCHANGED <<args, call, wire, work, stream, keys>>

\* An update of a task, to the one subscribed to it.
Publishes(k) ==
  /\ kind[k] = "submitIntentAndSubscribe" /\ work[k] # "none" /\ published[k] < MaxUpdates
  /\ published' = [published EXCEPT ![k] = @ + 1]
  /\ frames' = IF since[k] # Unsubscribed /\ socket[k] = "open"
               THEN [frames EXCEPT ![k] = Append(@, published[k] + 1)]
               ELSE frames
  /\ UNCHANGED <<args, call, gateway, socket, subscribing, since, received, keys>>

Subscribes(k) ==
  /\ k \in subscribing
  /\ subscribing' = subscribing \ {k}
  /\ since' = [since EXCEPT ![k] = published[k]]
  /\ UNCHANGED <<args, call, gateway, socket, published, frames, received, keys>>

\* A restart, or a rotation.
Rotates(purpose) ==
  /\ gatewayKey[purpose] < MaxKey
  /\ gatewayKey' = [gatewayKey EXCEPT ![purpose] = @ + 1]
  /\ UNCHANGED <<args, call, gateway, stream, keyWire, told, envelope, keyAtCall>>

-----------------------------------------------------------------------------
(* The calls. *)

Settle(k, how) ==
  /\ stage' = [stage EXCEPT ![k] = "settled"]
  /\ outcome' = [outcome EXCEPT ![k] = how]

\* The key is left to getTaskEventsWebSocket.
Invalid_KeyUnchecked(k) == FALSE

\* assertWebSocketApiKey, before anything is sent.
Invalid(k) == kind[k] = "submitIntentAndSubscribe" /\ apiKey = "header_only"

Purpose_Privacy(k) == "privacy"

\* Which key it is sealed to: getSecretsPublicKey, or getPrivacyPublicKey.
Purpose(k) == IF kind[k] = "storeEncryptedSecrets" THEN "secrets" ELSE "privacy"

\* createSecureEnvelope seals the buffer of its plaintext, and the request goes out.
Seals(k, key, source) ==
  /\ \E plaintext \in Plaintexts :
       /\ kind[k] = "storeEncryptedSecrets" => IsWhole(plaintext)
       /\ envelope' = [envelope EXCEPT ![k] =
            [key |-> key, source |-> source, plaintext |-> plaintext, sealed |-> plaintext.buffer]]
  /\ stage' = [stage EXCEPT ![k] = "sent"] /\ wire' = wire \cup {k}

\* Any argument that does not convert throws: an intent, secrets that are no envelope, a key
\* of another length.
CallFails(k) ==
  /\ stage[k] = "idle"
  /\ Settle(k, "invalid_argument")
  /\ UNCHANGED <<args, gateway, stream, keys>>

Call(k) ==
  /\ stage[k] = "idle" /\ kind[k] \notin SealingKinds /\ ~Invalid(k)
  /\ stage' = [stage EXCEPT ![k] = "sent"] /\ wire' = wire \cup {k}
  /\ UNCHANGED <<args, outcome, serving, work, answer, stream, keys>>

\* storeEncryptedSecrets and uploadConfidentialData, with the caller's own recipientPublicKey
\* or with none.
CallToSeal(k) ==
  /\ stage[k] = "idle" /\ kind[k] \in SealingKinds
  /\ keyAtCall' = [keyAtCall EXCEPT ![k] = gatewayKey[Purpose(k)]]
  /\ \/ (\E key \in CallerKeys : Seals(k, key, "caller")) /\ UNCHANGED keyWire
     \/ /\ stage' = [stage EXCEPT ![k] = "asking"] /\ keyWire' = keyWire \cup {k}
        /\ UNCHANGED <<wire, envelope>>
  /\ UNCHANGED <<args, outcome, serving, work, answer, stream, gatewayKey, told>>

\* The gateway answers with its present key, or with none.
TellsKey(k) ==
  /\ k \in keyWire
  /\ keyWire' = keyWire \ {k}
  /\ \/ /\ \E reply \in {"error", "http_error", "malformed"} : Hears(k, reply)
        /\ UNCHANGED told
     \/ /\ apiKey # "unknown" /\ Hears(k, "result")
        /\ told' = [told EXCEPT ![k] = [for |-> Purpose(k), number |-> gatewayKey[Purpose(k)]]]
  /\ UNCHANGED <<args, call, wire, serving, work, stream, gatewayKey, envelope, keyAtCall>>

\* The connection fails; the gateway may take the request for all that.
FetchFails(k) ==
  /\ stage[k] \in {"asking", "sent"}
  /\ Settle(k, "network")
  /\ UNCHANGED <<args, gateway, stream, keys>>

\* A 2xx without an error is a result.
PostThrows_NoShape(reply) == reply \in {"error", "http_error"}

\* AvsHttpService.Post
PostThrows(reply) == reply \in {"error", "http_error", "malformed"}

\* What the call throws: Post's error; the task and its error; a task without a response.
Failure(reply) ==
  IF PostThrows(reply) THEN "gateway_error"
  ELSE IF reply = "failed_task" THEN "task_failed" ELSE "malformed_response"

Fails(reply) == PostThrows(reply) \/ reply \in {"failed_task", "no_response"}

\* getTaskEventsWebSocket: the constructor begins to connect, and its caller goes on.
Connect(k) ==
  IF apiKey = "header_only"
  THEN Settle(k, "invalid_argument") /\ UNCHANGED socket
  ELSE Settle(k, "resolved") /\ socket' = [socket EXCEPT ![k] = "connecting"]

\* Any other call hands over the result as it is; its `success` is for the caller to look at.
Handed(reply) == IF reply = "unsuccessful" THEN "resolved_unsuccessful" ELSE "resolved"

Lands(k) ==
  /\ stage[k] = "sent" /\ answer[k] # "none"
  /\ \/ Fails(answer[k]) /\ Settle(k, Failure(answer[k])) /\ UNCHANGED socket
     \/ ~Fails(answer[k]) /\ kind[k] = "submitIntentAndSubscribe" /\ Connect(k)
     \/ /\ ~Fails(answer[k]) /\ kind[k] # "submitIntentAndSubscribe"
        /\ Settle(k, Handed(answer[k])) /\ UNCHANGED socket
  /\ UNCHANGED <<args, gateway, subscribing, since, published, frames, received, keys>>

\* The key has come, and the envelope is made and sent; or the key is of another length.
LandsKey(k) ==
  /\ stage[k] = "asking" /\ answer[k] # "none"
  /\ \/ /\ PostThrows(answer[k]) /\ Settle(k, "gateway_error")
        /\ UNCHANGED <<wire, envelope>>
     \/ /\ ~PostThrows(answer[k]) /\ Settle(k, "invalid_argument")
        /\ UNCHANGED <<wire, envelope>>
     \/ ~PostThrows(answer[k]) /\ Seals(k, told[k], "gateway") /\ UNCHANGED outcome
  /\ answer' = [answer EXCEPT ![k] = "none"] /\ told' = [told EXCEPT ![k] = NoKey]
  /\ UNCHANGED <<args, serving, work, stream, gatewayKey, keyWire, keyAtCall>>

-----------------------------------------------------------------------------
(* The WebSocket. *)

\* The socket is open before anybody listens for it.
Opens_Unheard(k) ==
  /\ socket[k] = "connecting" /\ apiKey = "accepted"
  /\ socket' = [socket EXCEPT ![k] = "open"]
  /\ UNCHANGED <<args, call, gateway, subscribing, since, published, frames, received, keys>>

\* onopen subscribes to the task's topic.
Opens(k) ==
  /\ socket[k] = "connecting" /\ apiKey = "accepted"
  /\ socket' = [socket EXCEPT ![k] = "open"]
  /\ subscribing' = subscribing \cup {k}
  /\ UNCHANGED <<args, call, gateway, since, published, frames, received, keys>>

\* A refused upgrade, a broken connection, a caller that has enough: onerror and onclose do
\* nothing, and what is on its way is lost.
Closes(k) ==
  /\ socket[k] \in {"connecting", "open"}
  /\ socket' = [socket EXCEPT ![k] = "closed"]
  /\ subscribing' = subscribing \ {k}
  /\ frames' = [frames EXCEPT ![k] = <<>>]
  /\ UNCHANGED <<args, call, gateway, since, published, received, keys>>

\* The caller's onmessage.
Delivers(k) ==
  /\ frames[k] # <<>>
  /\ received' = [received EXCEPT ![k] = @ \cup {Head(frames[k])}]
  /\ frames' = [frames EXCEPT ![k] = Tail(@)]
  /\ UNCHANGED <<args, call, gateway, socket, subscribing, since, published, keys>>

-----------------------------------------------------------------------------
Next ==
  \/ \E k \in Calls :
       \/ Takes(k) \/ Works(k) \/ Refuses(k) \/ Replies(k) \/ Publishes(k) \/ Subscribes(k)
       \/ CallFails(k) \/ Call(k) \/ FetchFails(k) \/ Lands(k)
       \/ CallToSeal(k) \/ TellsKey(k) \/ LandsKey(k)
       \/ Opens(k) \/ Closes(k) \/ Delivers(k)
  \/ \E purpose \in Purposes : Rotates(purpose)

Spec == Init /\ [][Next]_vars

\* A connection that is up carries what is sent over it.  The gateway need not take a
\* request, and a socket need not open or stay open.
FairSpec == Spec /\ \A k \in Calls : WF_vars(Subscribes(k)) /\ WF_vars(Delivers(k))

-----------------------------------------------------------------------------
(* Properties. *)

\* avs/index.ts:372: "before newt_sendTask, so an unusable key cannot leave a task created
\* with no subscription": whatever the gateway makes of the key, there is no such task.
KeyCheckedFirst ==
  \A k \in Calls :
    kind[k] = "submitIntentAndSubscribe" /\ apiKey = "header_only" => work[k] = "none"

\* Work that has failed, or was never begun, resolves no call as if it were done: no page of a
\* proxy, no 408, no failed task passes for a result (https.ts:52-74, avs/index.ts:320-330).  A
\* simulation, a webhook call or an upload of secrets may still resolve when its work has failed,
\* with a result that says so; a task or confidential data never do.  A subscriber's task may run
\* on; it has a socket.
ResolvedIsTrue ==
  \A k \in Calls :
    /\ outcome[k] = "resolved" =>
         IF kind[k] = "submitIntentAndSubscribe"
         THEN work[k] # "none" /\ socket[k] # "none"
         ELSE work[k] = "done"
    /\ outcome[k] = "resolved_unsuccessful" =>
         work[k] = "failed" /\ kind[k] \in ReportingKinds

\* A socket that opens is subscribed, and from then on its caller has every update, unless
\* it closes (task-events.ts:46-56): only the updates before that are missed.
UpdatesArrive ==
  \A k \in Calls :
    socket[k] = "open" ~>
      \/ socket[k] = "closed"
      \/ since[k] # Unsubscribed /\ (since[k] + 1)..published[k] \subseteq received[k]

\* Secrets and confidential data are sealed to different keys (privacy/index.ts:283), and what
\* is sealed to a key the call has asked for is sealed to the right one of the two, as it was
\* at some moment of the call: a key is not kept from one call to the next.
SealedToTheGateway ==
  \A k \in Calls : envelope[k].source = "gateway" =>
    LET purpose == IF kind[k] = "storeEncryptedSecrets" THEN "secrets" ELSE "privacy"
    IN  \E number \in keyAtCall[k]..gatewayKey[purpose] :
          envelope[k].key = [for |-> purpose, number |-> number]

\* types/privacy.ts:22, of a Uint8Array too: "Plaintext data to encrypt" (privacy/index.ts:145).
SealsItsPlaintext ==
  \A k \in Calls : envelope[k] # NoEnvelope => envelope[k].sealed = BytesOf(envelope[k].plaintext)

-----------------------------------------------------------------------------
(* The inductive invariant. *)

\* A request that is on the wire is valid and not begun, one that is served is begun, a call
\* that has sent none has neither, and a socket is what a subscriber's call has resolved with.
InOrder ==
  /\ \A k \in wire : work[k] = "none" /\ ~Invalid(k)
  /\ \A k \in serving : work[k] # "none"
  /\ \A k \in Calls : stage[k] \in {"idle", "asking"} => k \notin wire /\ work[k] = "none"
  /\ \A k \in Calls : stage[k] # "settled" => outcome[k] = "pending"
  /\ \A k \in Calls : stage[k] = "idle" => answer[k] = "none" /\ envelope[k] = NoEnvelope
  /\ \A k \in Calls : stage[k] = "asking" => kind[k] \in SealingKinds
  /\ \A k \in keyWire : stage[k] \in {"asking", "settled"}
  /\ \A k \in keyWire : stage[k] = "asking" => answer[k] = "none"
  /\ \A k \in Calls : socket[k] # "none" <=>
       kind[k] = "submitIntentAndSubscribe" /\ outcome[k] = "resolved"

\* What an answer tells of the work.
AnswerIsTrue ==
  \A k \in Calls : stage[k] = "sent" =>
    /\ answer[k] = "result" =>
         work[k] = "done" \/ (work[k] # "none" /\ kind[k] = "submitIntentAndSubscribe")
    /\ answer[k] = "unsuccessful" => work[k] = "failed" /\ kind[k] \in ReportingKinds

\* The gateway's key for the call's purpose, as it was at some moment since it was made.
Current(k, key) ==
  \E number \in keyAtCall[k]..gatewayKey[Purpose(k)] :
    key = [for |-> Purpose(k), number |-> number]

\* What the gateway tells of its keys, which only grow.
KeysAreCurrent ==
  \A k \in Calls :
    /\ keyAtCall[k] <= gatewayKey[Purpose(k)]
    /\ stage[k] = "asking" /\ answer[k] # "none" /\ ~PostThrows(answer[k]) =>
         Current(k, told[k])

IInv ==
  /\ TypeOK /\ InOrder /\ AnswerIsTrue /\ KeysAreCurrent
  /\ KeyCheckedFirst /\ ResolvedIsTrue /\ SealedToTheGateway
=============================================================================
