------------------------- MODULE GatewayCallsProofs -------------------------
(***************************************************************************)
(* Proofs about GatewayCalls, for any number of calls and updates.         *)
(***************************************************************************)
EXTENDS GatewayCalls, SequenceTheorems, TLAPS

\* The parts of TypeOK about calls and gateway, about the sockets, and about the envelopes.
CallTypes ==
  /\ apiKey \in Keys /\ kind \in [Calls -> Kinds]
  /\ stage \in [Calls -> {"idle", "asking", "sent", "settled"}]
  /\ outcome \in [Calls -> {"pending", "resolved", "resolved_unsuccessful"} \cup Errors]
  /\ wire \subseteq Calls /\ serving \subseteq Calls
  /\ work \in [Calls -> {"none", "running", "done", "failed"}]
  /\ answer \in [Calls -> Answers \cup {"none"}]

SocketTypes ==
  /\ socket \in [Calls -> {"none", "connecting", "open", "closed"}]
  /\ subscribing \subseteq Calls
  /\ since \in [Calls -> 0..MaxUpdates \cup {Unsubscribed}]
  /\ published \in [Calls -> 0..MaxUpdates]
  /\ frames \in [Calls -> Seq(1..MaxUpdates)]
  /\ received \in [Calls -> SUBSET (1..MaxUpdates)]

KeyTypes ==
  /\ gatewayKey \in [Purposes -> 1..MaxKey] /\ keyWire \subseteq Calls
  /\ told \in [Calls -> GatewayKeys \cup {NoKey}]
  /\ envelope \in [Calls -> Envelopes \cup {NoEnvelope}]
  /\ keyAtCall \in [Calls -> 0..MaxKey]

LEMMA TypesAre == TypeOK <=> CallTypes /\ SocketTypes /\ KeyTypes
BY DEF TypeOK, CallTypes, SocketTypes, KeyTypes

LEMMA FailureType == \A reply : Failure(reply) \in Errors
BY DEF Failure, Errors

LEMMA PurposeType == \A k : Purpose(k) \in Purposes
BY DEF Purpose, Purposes

-----------------------------------------------------------------------------
(* What each kind of step does to calls, gateway and sockets, as far as the invariant asks. *)

main == <<args, call, gateway>>

\* The gateway takes a request.
Begun(k) ==
  /\ k \in wire /\ wire' = wire \ {k} /\ serving' = serving \cup {k}
  /\ work' = [work EXCEPT ![k] = "running"]
  /\ UNCHANGED <<args, call, answer, socket, keyWire, envelope>>

\* It is through with it.
Ended(k) ==
  /\ work[k] = "running"
  /\ \E end \in {"done", "failed"} : work' = [work EXCEPT ![k] = end]
  /\ UNCHANGED <<args, call, wire, serving, answer, socket, keyWire, envelope>>

\* An answer leaves.
Told(k) ==
  /\ k \in wire \cup serving
  /\ wire' \subseteq wire /\ serving' \subseteq serving
  /\ \E reply \in Answers :
       /\ Hears(k, reply)
       /\ reply = "result" => work[k] = "done"
            \/ (work[k] = "running" /\ kind[k] = "submitIntentAndSubscribe")
       /\ reply = "unsuccessful" => work[k] = "failed" /\ kind[k] \in ReportingKinds
  /\ UNCHANGED <<args, call, work, socket, keyWire, envelope>>

\* Or one that tells a key, or none.
KeyTold(k) ==
  /\ k \in keyWire /\ keyWire' = keyWire \ {k}
  /\ \E reply \in Answers : Hears(k, reply)
  /\ UNCHANGED <<args, call, wire, serving, work, socket, envelope>>

\* A call settles without an answer, or without having sent its request.
Dropped(k) ==
  /\ stage[k] # "settled"
  /\ \E how \in Errors : Settle(k, how)
  /\ answer' \in {answer, [answer EXCEPT ![k] = "none"]}
  /\ UNCHANGED <<args, wire, serving, work, socket, keyWire, envelope>>

\* It asks for a key.
Asks(k) ==
  /\ stage[k] = "idle" /\ kind[k] \in SealingKinds
  /\ stage' = [stage EXCEPT ![k] = "asking"] /\ keyWire' = keyWire \cup {k}
  /\ UNCHANGED <<args, outcome, gateway, socket, envelope>>

\* It sends its request.
Sent(k) ==
  /\ \/ stage[k] = "idle" /\ answer' = answer
     \/ /\ stage[k] = "asking" /\ answer[k] # "none"
        /\ answer' = [answer EXCEPT ![k] = "none"]
  /\ ~Invalid(k)
  /\ stage' = [stage EXCEPT ![k] = "sent"] /\ wire' = wire \cup {k}
  /\ \E e : envelope' \in {envelope, [envelope EXCEPT ![k] = e]}
  /\ UNCHANGED <<args, outcome, serving, work, socket, keyWire>>

\* It settles with its answer.
Landed(k) ==
  /\ stage[k] = "sent" /\ answer[k] # "none"
  /\ \/ (\E how \in Errors : Settle(k, how)) /\ UNCHANGED socket
     \/ /\ answer[k] = "result" /\ kind[k] = "submitIntentAndSubscribe"
        /\ Settle(k, "resolved") /\ socket' = [socket EXCEPT ![k] = "connecting"]
     \/ /\ answer[k] = "result" /\ kind[k] # "submitIntentAndSubscribe"
        /\ Settle(k, "resolved") /\ UNCHANGED socket
     \/ /\ answer[k] = "unsuccessful" /\ kind[k] # "submitIntentAndSubscribe"
        /\ Settle(k, "resolved_unsuccessful") /\ UNCHANGED socket
  /\ UNCHANGED <<args, gateway, keyWire, envelope>>

\* A socket lives, or a key is replaced.
Streamed ==
  /\ \A k \in Calls : socket'[k] = "none" <=> socket[k] = "none"
  /\ UNCHANGED <<args, call, gateway, keyWire, envelope>>

LEMMA SealingIsValid == \A k : kind[k] \in SealingKinds => ~Invalid(k)
BY DEF SealingKinds, Invalid

\* Each step has one of these shapes.
LEMMA StepShape ==
  ASSUME CallTypes, SocketTypes, InOrder, AnswerIsTrue, Next
  PROVE  \/ Streamed
         \/ \E k \in Calls : \/ Begun(k) \/ Ended(k) \/ Told(k) \/ KeyTold(k)
                             \/ Dropped(k) \/ Asks(k) \/ Sent(k) \/ Landed(k)
<1>1. \/ \E purpose \in Purposes : Rotates(purpose)
      \/ \E k \in Calls :
        \/ Takes(k) \/ Works(k) \/ Refuses(k) \/ Replies(k) \/ Publishes(k) \/ Subscribes(k)
        \/ CallFails(k) \/ Call(k) \/ FetchFails(k) \/ Lands(k)
        \/ CallToSeal(k) \/ TellsKey(k) \/ LandsKey(k)
        \/ Opens(k) \/ Closes(k) \/ Delivers(k)
  BY DEF Next
<1>2. ASSUME NEW k \in Calls, Takes(k) \/ Works(k)
      PROVE  Begun(k) \/ Ended(k)
  BY <1>2 DEF Takes, Works, Begun, Ended, stream, keys
<1>3. ASSUME NEW k \in Calls, Refuses(k)
      PROVE  Told(k)
  <2>1. PICK reply \in {"error", "http_error", "malformed"} : Hears(k, reply)
    BY <1>3 DEF Refuses
  <2>2. reply \in Answers /\ reply \notin {"result", "unsuccessful"}
    BY DEF Answers
  <2>3. QED
    BY <1>3, <2>1, <2>2 DEF Refuses, Told, stream, keys
<1>4. ASSUME NEW k \in Calls, Replies(k)
      PROVE  Told(k)
  <2>1. PICK reply \in Answers :
          /\ reply = "result" => work[k] = "done"
               \/ (work[k] = "running" /\ kind[k] = "submitIntentAndSubscribe")
          /\ reply = "unsuccessful" => work[k] = "failed" /\ kind[k] \in ReportingKinds
          /\ Hears(k, reply)
    BY <1>4 DEF Replies
  <2>2. QED
    BY <1>4, <2>1 DEF Replies, Told, stream, keys
<1>5. ASSUME NEW k \in Calls, Publishes(k) \/ Subscribes(k) \/ Delivers(k) \/ Opens(k) \/ Closes(k)
      PROVE  Streamed
  BY <1>5 DEF Publishes, Subscribes, Delivers, Opens, Closes, Streamed, SocketTypes, keys
<1>6. ASSUME NEW purpose \in Purposes, Rotates(purpose)
      PROVE  Streamed
  BY <1>6 DEF Rotates, Streamed, stream
<1>7. ASSUME NEW k \in Calls, CallFails(k) \/ FetchFails(k)
      PROVE  Dropped(k)
  <2>1. "invalid_argument" \in Errors /\ "network" \in Errors
    BY DEF Errors
  <2>2. QED
    BY <1>7, <2>1 DEF CallFails, FetchFails, Dropped, gateway, stream, keys
<1>8. ASSUME NEW k \in Calls, Call(k)
      PROVE  Sent(k)
  BY <1>8 DEF Call, Sent, stream, keys
<1>9. ASSUME NEW k \in Calls, CallToSeal(k)
      PROVE  Asks(k) \/ Sent(k)
  BY <1>9, SealingIsValid DEF CallToSeal, Seals, Asks, Sent, gateway, stream
<1>10. ASSUME NEW k \in Calls, TellsKey(k)
       PROVE  KeyTold(k)
  <2>1. {"error", "http_error", "malformed", "result"} \subseteq Answers
    BY DEF Answers
  <2>2. QED
    BY <1>10, <2>1 DEF TellsKey, KeyTold, stream
<1>11. ASSUME NEW k \in Calls, LandsKey(k)
       PROVE  Dropped(k) \/ Sent(k)
  <2>1. "invalid_argument" \in Errors /\ "gateway_error" \in Errors
    BY DEF Errors
  <2>2. stage[k] = "asking" /\ answer[k] # "none" /\ ~Invalid(k)
    BY <1>11, SealingIsValid DEF LandsKey, InOrder
  <2>3. QED
    BY <1>11, <2>1, <2>2 DEF LandsKey, Seals, Dropped, Sent, stream
<1>12. ASSUME NEW k \in Calls, Lands(k)
       PROVE  Landed(k)
  <2>1. stage[k] = "sent" /\ answer[k] # "none" /\ UNCHANGED <<args, gateway, keyWire, envelope>>
    BY <1>12 DEF Lands, keys
  <2>2. CASE Fails(answer[k]) /\ Settle(k, Failure(answer[k])) /\ UNCHANGED socket
    BY <2>1, <2>2, FailureType DEF Landed
  <2>3. CASE ~Fails(answer[k])
    <3>1. answer[k] \in {"result", "unsuccessful"}
      BY <2>1, <2>3 DEF CallTypes, Answers, Fails, PostThrows
    <3>2. kind[k] = "submitIntentAndSubscribe" => answer[k] = "result"
      BY <2>1, <3>1 DEF AnswerIsTrue, ReportingKinds
    <3>3. "invalid_argument" \in Errors
      BY DEF Errors
    <3>4. QED
      BY <1>12, <2>1, <2>3, <3>1, <3>2, <3>3 DEF Lands, Handed, Connect, Landed
  <2>4. QED
    BY <1>12, <2>2, <2>3 DEF Lands
<1>13. QED
  BY <1>1, <1>2, <1>3, <1>4, <1>5, <1>6, <1>7, <1>8, <1>9, <1>10, <1>11, <1>12

-----------------------------------------------------------------------------
(* Types. *)

LEMMA StepCallTypes ==
  ASSUME CallTypes, SocketTypes, InOrder, AnswerIsTrue, Next
  PROVE  CallTypes'
<1>1. CASE Streamed
  BY <1>1 DEF Streamed, CallTypes, args, call, gateway
<1>2. ASSUME NEW k \in Calls, Begun(k) \/ Ended(k)
      PROVE  CallTypes'
  BY <1>2 DEF Begun, Ended, CallTypes, args, call
<1>3. ASSUME NEW k \in Calls, Told(k) \/ KeyTold(k)
      PROVE  CallTypes'
  BY <1>3 DEF Told, KeyTold, Hears, CallTypes, args, call
<1>4. ASSUME NEW k \in Calls, Dropped(k) \/ Landed(k)
      PROVE  CallTypes'
  BY <1>4 DEF Dropped, Landed, Settle, CallTypes, args, gateway
<1>5. ASSUME NEW k \in Calls, Asks(k) \/ Sent(k)
      PROVE  CallTypes'
  BY <1>5 DEF Asks, Sent, CallTypes, args, gateway
<1>6. QED
  BY <1>1, <1>2, <1>3, <1>4, <1>5, StepShape

LEMMA StepSocketTypes ==
  ASSUME CallTypes, SocketTypes, Next
  PROVE  SocketTypes'
<1>1. CASE \/ \E purpose \in Purposes : Rotates(purpose)
           \/ \E k \in Calls :
                \/ Takes(k) \/ Works(k) \/ Refuses(k) \/ Replies(k)
                \/ CallFails(k) \/ Call(k) \/ FetchFails(k)
                \/ CallToSeal(k) \/ TellsKey(k) \/ LandsKey(k)
  <2>1. UNCHANGED stream
    BY <1>1 DEF Rotates, Takes, Works, Refuses, Replies, CallFails, Call, FetchFails, CallToSeal,
       TellsKey, LandsKey
  <2>2. QED
    BY <2>1 DEF SocketTypes, stream
<1>3. ASSUME NEW k \in Calls, Publishes(k)
      PROVE  SocketTypes'
  <2>1. published[k] + 1 \in 1..MaxUpdates /\ published' \in [Calls -> 0..MaxUpdates]
    BY <1>3, GatewayCallsAssumption DEF Publishes, SocketTypes
  <2>2. Append(frames[k], published[k] + 1) \in Seq(1..MaxUpdates)
    BY <2>1 DEF SocketTypes
  <2>3. frames' \in [Calls -> Seq(1..MaxUpdates)]
    BY <1>3, <2>2 DEF Publishes, SocketTypes
  <2>4. QED
    BY <1>3, <2>1, <2>3 DEF Publishes, SocketTypes
<1>4. ASSUME NEW k \in Calls, Subscribes(k)
      PROVE  SocketTypes'
  <2>1. since' \in [Calls -> 0..MaxUpdates \cup {Unsubscribed}]
    BY <1>4 DEF Subscribes, SocketTypes
  <2>2. QED
    BY <1>4, <2>1 DEF Subscribes, SocketTypes
<1>5. ASSUME NEW k \in Calls, Lands(k)
      PROVE  SocketTypes'
  <2>1. socket' \in {socket, [socket EXCEPT ![k] = "connecting"]}
    BY <1>5 DEF Lands, Connect
  <2>2. socket' \in [Calls -> {"none", "connecting", "open", "closed"}]
    BY <2>1 DEF SocketTypes
  <2>3. QED
    BY <1>5, <2>2 DEF Lands, SocketTypes
<1>6. ASSUME NEW k \in Calls, Opens(k)
      PROVE  SocketTypes'
  BY <1>6 DEF Opens, SocketTypes
<1>7. ASSUME NEW k \in Calls, Closes(k)
      PROVE  SocketTypes'
  <2>1. <<>> \in Seq(1..MaxUpdates)
    OBVIOUS
  <2>2. QED
    BY <1>7, <2>1 DEF Closes, SocketTypes
<1>8. ASSUME NEW k \in Calls, Delivers(k)
      PROVE  SocketTypes'
  <2>1. frames[k] \in Seq(1..MaxUpdates) /\ frames[k] # <<>>
    BY <1>8 DEF Delivers, SocketTypes
  <2>2. Head(frames[k]) \in 1..MaxUpdates /\ Tail(frames[k]) \in Seq(1..MaxUpdates)
    BY <2>1, HeadTailProperties
  <2>3. frames' \in [Calls -> Seq(1..MaxUpdates)] /\ received' \in [Calls -> SUBSET (1..MaxUpdates)]
    BY <1>8, <2>2 DEF Delivers, SocketTypes
  <2>4. QED
    BY <1>8, <2>3 DEF Delivers, SocketTypes
<1>9. QED
  BY <1>1, <1>3, <1>4, <1>5, <1>6, <1>7, <1>8 DEF Next

LEMMA KeyTellsTypes == \A purpose \in Purposes, number \in 1..MaxKey :
  [for |-> purpose, number |-> number] \in GatewayKeys
BY DEF GatewayKeys

LEMMA SealedType ==
  ASSUME KeyTypes, NEW k \in Calls, NEW key \in GatewayKeys,
         NEW source \in {"caller", "gateway"}, Seals(k, key, source)
  PROVE  envelope' \in [Calls -> Envelopes \cup {NoEnvelope}]
<1>1. PICK plaintext \in Plaintexts : envelope' = [envelope EXCEPT ![k] =
        [key |-> key, source |-> source, plaintext |-> plaintext, sealed |-> plaintext.buffer]]
  BY DEF Seals
<1>2. plaintext.buffer \in Seq(Nat)
  BY GatewayCallsAssumption
<1>3. [key |-> key, source |-> source, plaintext |-> plaintext, sealed |-> plaintext.buffer]
        \in Envelopes
  BY <1>2 DEF Envelopes
<1>4. QED
  BY <1>1, <1>3 DEF KeyTypes

\* A key that has come is one of the gateway's.
LEMMA CurrentType ==
  ASSUME KeyTypes, NEW k \in Calls, Current(k, told[k])
  PROVE  told[k] \in GatewayKeys
<1>1. told[k] \in GatewayKeys \cup {NoKey} /\ told[k].for = Purpose(k)
  BY DEF KeyTypes, Current
<1>2. NoKey.for # Purpose(k)
  BY DEF NoKey, Purpose
<1>3. QED
  BY <1>1, <1>2

LEMMA StepKeyTypes ==
  ASSUME CallTypes, KeyTypes, KeysAreCurrent, Next
  PROVE  KeyTypes'
<1>1. ASSUME NEW purpose \in Purposes, Rotates(purpose)
      PROVE  KeyTypes'
  <2>1. gatewayKey[purpose] + 1 \in 1..MaxKey
    BY <1>1, GatewayCallsAssumption DEF Rotates, KeyTypes
  <2>2. QED
    BY <1>1, <2>1 DEF Rotates, KeyTypes
<1>2. ASSUME NEW k \in Calls,
             \/ Takes(k) \/ Works(k) \/ Refuses(k) \/ Replies(k) \/ Publishes(k) \/ Subscribes(k)
             \/ CallFails(k) \/ Call(k) \/ FetchFails(k) \/ Lands(k)
             \/ Opens(k) \/ Closes(k) \/ Delivers(k)
      PROVE  KeyTypes'
  <2>1. UNCHANGED keys
    BY <1>2 DEF Takes, Works, Refuses, Replies, Publishes, Subscribes, CallFails, Call, FetchFails,
       Lands, Opens, Closes, Delivers
  <2>2. QED
    BY <2>1 DEF KeyTypes, keys
<1>3. ASSUME NEW k \in Calls, CallToSeal(k)
      PROVE  KeyTypes'
  <2>1. keyAtCall' \in [Calls -> 0..MaxKey]
    BY <1>3, PurposeType, GatewayCallsAssumption DEF CallToSeal, KeyTypes
  <2>2. envelope' \in [Calls -> Envelopes \cup {NoEnvelope}]
    <3>1. CASE UNCHANGED envelope
      BY <3>1 DEF KeyTypes
    <3>2. CASE \E key \in CallerKeys : Seals(k, key, "caller")
      BY <3>2, SealedType, GatewayCallsAssumption
    <3>3. QED
      BY <1>3, <3>1, <3>2 DEF CallToSeal
  <2>3. QED
    BY <1>3, <2>1, <2>2 DEF CallToSeal, KeyTypes
<1>4. ASSUME NEW k \in Calls, TellsKey(k)
      PROVE  KeyTypes'
  <2>1. [for |-> Purpose(k), number |-> gatewayKey[Purpose(k)]] \in GatewayKeys
    BY PurposeType, KeyTellsTypes DEF KeyTypes
  <2>2. QED
    BY <1>4, <2>1 DEF TellsKey, KeyTypes
<1>5. ASSUME NEW k \in Calls, LandsKey(k)
      PROVE  KeyTypes'
  <2>1. envelope' \in [Calls -> Envelopes \cup {NoEnvelope}]
    <3>1. CASE UNCHANGED envelope
      BY <3>1 DEF KeyTypes
    <3>2. CASE ~PostThrows(answer[k]) /\ Seals(k, told[k], "gateway")
      <4>1. Current(k, told[k])
        BY <1>5, <3>2 DEF LandsKey, KeysAreCurrent
      <4>2. QED
        BY <3>2, <4>1, CurrentType, SealedType
    <3>3. QED
      BY <1>5, <3>1, <3>2 DEF LandsKey
  <2>2. QED
    BY <1>5, <2>1 DEF LandsKey, KeyTypes
<1>6. QED
  BY <1>1, <1>2, <1>3, <1>4, <1>5 DEF Next

-----------------------------------------------------------------------------
(* The rest of the invariant. *)

\* The parts of InOrder about requests, calls, and requests for a key.
WiresInOrder ==
  /\ \A k \in wire : work[k] = "none" /\ ~Invalid(k)
  /\ \A k \in serving : work[k] # "none"
  /\ \A k \in Calls : stage[k] \in {"idle", "asking"} => k \notin wire /\ work[k] = "none"

CallsInOrder ==
  /\ \A k \in Calls : stage[k] # "settled" => outcome[k] = "pending"
  /\ \A k \in Calls : stage[k] = "idle" => answer[k] = "none" /\ envelope[k] = NoEnvelope
  /\ \A k \in Calls : stage[k] = "asking" => kind[k] \in SealingKinds
  /\ \A k \in Calls : socket[k] # "none" <=>
       kind[k] = "submitIntentAndSubscribe" /\ outcome[k] = "resolved"

KeyWireInOrder ==
  /\ \A k \in keyWire : stage[k] \in {"asking", "settled"}
  /\ \A k \in keyWire : stage[k] = "asking" => answer[k] = "none"

LEMMA OrderIs == InOrder <=> WiresInOrder /\ CallsInOrder /\ KeyWireInOrder
BY DEF InOrder, WiresInOrder, CallsInOrder, KeyWireInOrder

LEMMA StepInOrder ==
  ASSUME IInv, Next
  PROVE  InOrder'
<1>1. CallTypes /\ SocketTypes /\ KeyTypes /\ InOrder /\ AnswerIsTrue
  BY TypesAre DEF IInv
<1>2. "resolved" \notin Errors /\ "pending" \notin Errors
  BY DEF Errors
<1>3. CASE Streamed
  BY <1>1, <1>3 DEF Streamed, InOrder, Invalid, SocketTypes, args, call, gateway
<1>4. ASSUME NEW k \in Calls, Begun(k) \/ Ended(k)
      PROVE  InOrder'
  BY <1>1, <1>4 DEF Begun, Ended, InOrder, Invalid, CallTypes, args, call
<1>5. ASSUME NEW k \in Calls, Told(k)
      PROVE  InOrder'
  <2>1. stage[k] \notin {"idle", "asking"}
    BY <1>1, <1>5 DEF Told, InOrder
  <2>2. QED
    BY <1>1, <1>5, <2>1 DEF Told, Hears, InOrder, Invalid, CallTypes, args, call
<1>6. ASSUME NEW k \in Calls, KeyTold(k)
      PROVE  InOrder'
  BY <1>1, <1>6 DEF KeyTold, Hears, InOrder, Invalid, CallTypes, args, call
<1>7. ASSUME NEW k \in Calls, Dropped(k)
      PROVE  InOrder'
  <2>1. UNCHANGED <<apiKey, kind, wire, serving, work, socket, keyWire, envelope>>
    BY <1>7 DEF Dropped, args
  <2>2. \A j \in Calls \ {k} :
          stage'[j] = stage[j] /\ outcome'[j] = outcome[j] /\ answer'[j] = answer[j]
    BY <1>1, <1>7 DEF Dropped, Settle, CallTypes
  <2>3. stage'[k] = "settled" /\ outcome'[k] \in Errors /\ outcome[k] = "pending"
    BY <1>1, <1>7 DEF Dropped, Settle, InOrder, CallTypes
  <2>4. \A j \in Calls : j = k \/ stage'[j] = stage[j]
    BY <2>2
  <2>5. WiresInOrder'
    BY <1>1, <2>1, <2>3, <2>4, OrderIs DEF WiresInOrder, Invalid
  <2>6. CallsInOrder'
    BY <1>1, <1>2, <2>1, <2>2, <2>3, OrderIs DEF CallsInOrder
  <2>7. KeyWireInOrder'
    BY <1>1, <2>1, <2>2, <2>3, OrderIs DEF KeyWireInOrder, KeyTypes
  <2>8. QED
    BY <2>5, <2>6, <2>7 DEF InOrder, WiresInOrder, CallsInOrder, KeyWireInOrder
<1>8. ASSUME NEW k \in Calls, Asks(k)
      PROVE  InOrder'
  BY <1>1, <1>8 DEF Asks, InOrder, Invalid, CallTypes, KeyTypes, args, gateway
<1>9. ASSUME NEW k \in Calls, Sent(k)
      PROVE  InOrder'
  <2>1. UNCHANGED <<apiKey, kind, outcome, serving, work, socket, keyWire>> /\ wire' = wire \cup {k}
    BY <1>9 DEF Sent, args
  <2>2. \A j \in Calls \ {k} : stage'[j] = stage[j] /\ answer'[j] = answer[j]
          /\ envelope'[j] = envelope[j]
    BY <1>1, <1>9 DEF Sent, CallTypes, KeyTypes
  <2>3. stage'[k] = "sent" /\ outcome[k] = "pending" /\ work[k] = "none" /\ ~Invalid(k)
    BY <1>1, <1>9 DEF Sent, InOrder, CallTypes
  <2>4. k \notin keyWire
    <3>1. CASE stage[k] = "idle"
      BY <1>1, <3>1 DEF InOrder
    <3>2. CASE stage[k] = "asking" /\ answer[k] # "none"
      BY <1>1, <3>2 DEF InOrder
    <3>3. QED
      BY <1>9, <3>1, <3>2 DEF Sent
  <2>5. \A j \in wire' : work'[j] = "none" /\ ~Invalid(j)'
    BY <1>1, <2>1, <2>3 DEF InOrder, Invalid
  <2>6. \A j \in Calls : stage'[j] \in {"idle", "asking"} => j # k /\ stage[j] = stage'[j]
    BY <2>2, <2>3
  <2>7. \A j \in keyWire : j \in Calls \ {k}
    BY <1>1, <2>4 DEF KeyTypes
  <2>8. QED
    BY <1>1, <2>1, <2>2, <2>3, <2>5, <2>6, <2>7 DEF InOrder
<1>10. ASSUME NEW k \in Calls, Landed(k)
       PROVE  InOrder'
  <2>1. stage[k] = "sent" /\ outcome[k] = "pending" /\ socket[k] = "none"
    BY <1>1, <1>10 DEF Landed, InOrder
  <2>2. UNCHANGED <<apiKey, kind, wire, serving, work, answer, keyWire, envelope>>
    BY <1>10 DEF Landed, args, gateway
  <2>3. \A j \in Calls \ {k} :
          stage'[j] = stage[j] /\ outcome'[j] = outcome[j] /\ socket'[j] = socket[j]
    BY <1>1, <1>10 DEF Landed, Settle, CallTypes, SocketTypes
  <2>4. stage'[k] = "settled"
    BY <1>1, <1>10 DEF Landed, Settle, CallTypes
  <2>5. socket'[k] # "none" <=> kind[k] = "submitIntentAndSubscribe" /\ outcome'[k] = "resolved"
    BY <1>1, <1>2, <1>10, <2>1 DEF Landed, Settle, CallTypes, SocketTypes
  <2>6. WiresInOrder'
    BY <1>1, <2>2, <2>3, <2>4, OrderIs DEF WiresInOrder, Invalid
  <2>7. CallsInOrder'
    BY <1>1, <2>2, <2>3, <2>4, <2>5, OrderIs DEF CallsInOrder
  <2>8. KeyWireInOrder'
    BY <1>1, <2>2, <2>3, <2>4, OrderIs DEF KeyWireInOrder, KeyTypes
  <2>9. QED
    BY <2>6, <2>7, <2>8 DEF InOrder, WiresInOrder, CallsInOrder, KeyWireInOrder
<1>11. QED
  BY <1>1, <1>3, <1>4, <1>5, <1>6, <1>7, <1>8, <1>9, <1>10, StepShape

LEMMA StepAnswerIsTrue ==
  ASSUME IInv, Next
  PROVE  AnswerIsTrue'
<1>1. CallTypes /\ SocketTypes /\ InOrder /\ AnswerIsTrue
  BY TypesAre DEF IInv
<1>2. CASE Streamed
  BY <1>1, <1>2 DEF Streamed, AnswerIsTrue, args, call, gateway
<1>3. ASSUME NEW k \in Calls, Begun(k) \/ Ended(k)
      PROVE  AnswerIsTrue'
  BY <1>1, <1>3 DEF Begun, Ended, InOrder, AnswerIsTrue, CallTypes, args, call
<1>4. ASSUME NEW k \in Calls, Told(k)
      PROVE  AnswerIsTrue'
  BY <1>1, <1>4 DEF Told, Hears, AnswerIsTrue, CallTypes, args, call
<1>5. ASSUME NEW k \in Calls, KeyTold(k)
      PROVE  AnswerIsTrue'
  BY <1>1, <1>5 DEF KeyTold, Hears, InOrder, AnswerIsTrue, CallTypes, args, call
<1>6. ASSUME NEW k \in Calls, Dropped(k) \/ Landed(k)
      PROVE  AnswerIsTrue'
  BY <1>1, <1>6 DEF Dropped, Landed, Settle, AnswerIsTrue, CallTypes, args, gateway
<1>7. ASSUME NEW k \in Calls, Asks(k) \/ Sent(k)
      PROVE  AnswerIsTrue'
  BY <1>1, <1>7 DEF Asks, Sent, InOrder, AnswerIsTrue, CallTypes, args, gateway
<1>8. QED
  BY <1>1, <1>2, <1>3, <1>4, <1>5, <1>6, <1>7, StepShape

LEMMA StepKeyCheckedFirst ==
  ASSUME IInv, Next
  PROVE  KeyCheckedFirst'
<1>1. CallTypes /\ SocketTypes /\ InOrder /\ AnswerIsTrue /\ KeyCheckedFirst
  BY TypesAre DEF IInv
<1>2. ASSUME NEW k \in Calls, Begun(k)
      PROVE  KeyCheckedFirst'
  BY <1>1, <1>2 DEF Begun, InOrder, Invalid, KeyCheckedFirst, CallTypes, args
<1>3. ASSUME NEW k \in Calls, Ended(k)
      PROVE  KeyCheckedFirst'
  BY <1>1, <1>3 DEF Ended, KeyCheckedFirst, CallTypes, args
<1>4. CASE \/ Streamed
           \/ \E k \in Calls :
                Told(k) \/ KeyTold(k) \/ Dropped(k) \/ Asks(k) \/ Sent(k) \/ Landed(k)
  <2>1. UNCHANGED <<apiKey, kind, work>>
    BY <1>4 DEF Streamed, Told, KeyTold, Dropped, Asks, Sent, Landed, args, gateway
  <2>2. QED
    BY <1>1, <2>1 DEF KeyCheckedFirst
<1>5. QED
  BY <1>1, <1>2, <1>3, <1>4, StepShape

LEMMA StepResolvedIsTrue ==
  ASSUME IInv, Next
  PROVE  ResolvedIsTrue'
<1>1. CallTypes /\ SocketTypes /\ InOrder /\ AnswerIsTrue /\ ResolvedIsTrue
  BY TypesAre DEF IInv
<1>2. "resolved" \notin Errors /\ "resolved_unsuccessful" \notin Errors
  BY DEF Errors
<1>3. CASE Streamed
  BY <1>1, <1>3 DEF Streamed, ResolvedIsTrue, args, call, gateway
<1>4. ASSUME NEW k \in Calls, Begun(k) \/ Ended(k)
      PROVE  ResolvedIsTrue'
  BY <1>1, <1>4 DEF Begun, Ended, InOrder, ResolvedIsTrue, CallTypes, args, call
<1>5. ASSUME NEW k \in Calls, Told(k) \/ KeyTold(k) \/ Asks(k) \/ Sent(k)
      PROVE  ResolvedIsTrue'
  <2>1. UNCHANGED <<kind, outcome, work, socket>>
    BY <1>5 DEF Told, KeyTold, Asks, Sent, args, call, gateway
  <2>2. QED
    BY <1>1, <2>1 DEF ResolvedIsTrue
<1>6. ASSUME NEW k \in Calls, Dropped(k)
      PROVE  ResolvedIsTrue'
  BY <1>1, <1>2, <1>6 DEF Dropped, Settle, ResolvedIsTrue, CallTypes, args
<1>7. ASSUME NEW k \in Calls, Landed(k)
      PROVE  ResolvedIsTrue'
  <2>1. \A j \in Calls \ {k} : outcome'[j] = outcome[j] /\ socket'[j] = socket[j]
    BY <1>1, <1>7 DEF Landed, Settle, CallTypes, SocketTypes
  <2>2. outcome'[k] = "resolved" =>
          IF kind[k] = "submitIntentAndSubscribe"
          THEN work[k] # "none" /\ socket'[k] # "none" ELSE work[k] = "done"
    BY <1>1, <1>2, <1>7 DEF Landed, Settle, AnswerIsTrue, CallTypes, SocketTypes
  <2>3. outcome'[k] = "resolved_unsuccessful" => work[k] = "failed" /\ kind[k] \in ReportingKinds
    BY <1>1, <1>2, <1>7 DEF Landed, Settle, AnswerIsTrue, CallTypes
  <2>4. kind' = kind /\ work' = work
    BY <1>7 DEF Landed, args, gateway
  <2>5. QED
    BY <1>1, <2>1, <2>2, <2>3, <2>4 DEF ResolvedIsTrue
<1>8. QED
  BY <1>1, <1>3, <1>4, <1>5, <1>6, <1>7, StepShape

-----------------------------------------------------------------------------
(* Keys and envelopes. *)

\* What is current stays so when the gateway's keys grow.
LEMMA CurrentStays ==
  ASSUME KeyTypes, KeyTypes', NEW k \in Calls, NEW key,
         kind' = kind, keyAtCall'[k] = keyAtCall[k],
         gatewayKey[Purpose(k)] <= gatewayKey'[Purpose(k)], Current(k, key)
  PROVE  \E number \in keyAtCall'[k]..gatewayKey'[Purpose(k)] :
           key = [for |-> Purpose(k), number |-> number]
<1>1. PICK number \in keyAtCall[k]..gatewayKey[Purpose(k)] :
        key = [for |-> Purpose(k), number |-> number]
  BY DEF Current
<1>2. number \in keyAtCall'[k]..gatewayKey'[Purpose(k)]
  BY <1>1, PurposeType DEF KeyTypes
<1>3. QED
  BY <1>1, <1>2

LEMMA StepKeysAreCurrent ==
  ASSUME IInv, Next
  PROVE  KeysAreCurrent'
<1>1. CallTypes /\ KeyTypes /\ InOrder /\ KeysAreCurrent
  BY TypesAre DEF IInv
<1>2. KeyTypes'
  BY <1>1, StepKeyTypes
<1>3. ASSUME NEW purpose \in Purposes, Rotates(purpose)
      PROVE  KeysAreCurrent'
  <2>1. UNCHANGED <<kind, stage, answer, told, keyAtCall>>
    BY <1>3 DEF Rotates, args, call, gateway
  <2>2. \A p \in Purposes : gatewayKey[p] <= gatewayKey'[p]
    BY <1>1, <1>3 DEF Rotates, KeyTypes
  <2>3. \A k \in Calls : /\ keyAtCall'[k] <= gatewayKey'[Purpose(k)]
                         /\ Current(k, told[k]) => Current(k, told[k])'
    <3>1. TAKE k \in Calls
    <3>2. keyAtCall[k] <= gatewayKey[Purpose(k)] /\ gatewayKey[Purpose(k)] <= gatewayKey'[Purpose(k)]
      BY <1>1, <2>2, PurposeType DEF KeysAreCurrent
    <3>3. keyAtCall'[k] <= gatewayKey'[Purpose(k)]
      BY <1>1, <1>2, <2>1, <3>2, PurposeType DEF KeyTypes
    <3>4. Current(k, told[k]) => Current(k, told[k])'
      BY <1>1, <1>2, <2>1, <3>2, CurrentStays DEF Current, Purpose
    <3>5. QED
      BY <3>3, <3>4
  <2>4. QED
    BY <1>1, <2>1, <2>3 DEF KeysAreCurrent, Current, Purpose
<1>4. ASSUME NEW k \in Calls, CallToSeal(k)
      PROVE  KeysAreCurrent'
  <2>1. UNCHANGED <<kind, answer, gatewayKey, told>> /\ answer[k] = "none"
    BY <1>1, <1>4 DEF CallToSeal, InOrder, args
  <2>2. keyAtCall' = [keyAtCall EXCEPT ![k] = gatewayKey[Purpose(k)]]
    BY <1>4 DEF CallToSeal
  <2>3. \A j \in Calls \ {k} : stage'[j] = stage[j]
    BY <1>1, <1>4 DEF CallToSeal, Seals, CallTypes
  <2>4. QED
    BY <1>1, <2>1, <2>2, <2>3, PurposeType DEF KeysAreCurrent, Current, Purpose, KeyTypes
<1>5. ASSUME NEW k \in Calls, TellsKey(k)
      PROVE  KeysAreCurrent'
  <2>1. UNCHANGED <<kind, stage, gatewayKey, keyAtCall>>
    BY <1>5 DEF TellsKey, args, call
  <2>2. \A j \in Calls \ {k} : answer'[j] = answer[j] /\ told'[j] = told[j]
    BY <1>1, <1>5 DEF TellsKey, Hears, CallTypes, KeyTypes
  <2>3. stage'[k] = "asking" /\ ~PostThrows(answer'[k]) =>
          told'[k] = [for |-> Purpose(k), number |-> gatewayKey[Purpose(k)]]
    BY <1>1, <1>5 DEF TellsKey, Hears, PostThrows, CallTypes, KeyTypes, call
  <2>4. keyAtCall[k] \in Int /\ gatewayKey[Purpose(k)] \in Int
    BY <1>1, PurposeType DEF KeyTypes
  <2>5. QED
    BY <1>1, <2>1, <2>2, <2>3, <2>4 DEF KeysAreCurrent, Current, Purpose
<1>6. ASSUME NEW k \in Calls, LandsKey(k)
      PROVE  KeysAreCurrent'
  <2>1. UNCHANGED <<kind, gatewayKey, keyAtCall>>
    BY <1>6 DEF LandsKey, args
  <2>2. \A j \in Calls \ {k} : stage'[j] = stage[j] /\ answer'[j] = answer[j] /\ told'[j] = told[j]
    BY <1>1, <1>6 DEF LandsKey, Seals, Settle, CallTypes, KeyTypes
  <2>3. answer'[k] = "none"
    BY <1>1, <1>6 DEF LandsKey, CallTypes
  <2>4. QED
    BY <1>1, <2>1, <2>2, <2>3 DEF KeysAreCurrent, Current, Purpose
<1>7. ASSUME NEW k \in Calls, Refuses(k) \/ Replies(k)
      PROVE  KeysAreCurrent'
  <2>1. UNCHANGED <<kind, stage, gatewayKey, told, keyAtCall>>
    BY <1>7 DEF Refuses, Replies, args, call, keys
  <2>2. stage[k] # "asking"
    BY <1>1, <1>7 DEF Refuses, Replies, InOrder
  <2>3. \A j \in Calls \ {k} : answer'[j] = answer[j]
    BY <1>1, <1>7 DEF Refuses, Replies, Hears, CallTypes
  <2>4. QED
    BY <1>1, <2>1, <2>2, <2>3 DEF KeysAreCurrent, Current, Purpose
<1>8. ASSUME NEW k \in Calls,
             \/ Takes(k) \/ Works(k) \/ Publishes(k) \/ Subscribes(k)
             \/ CallFails(k) \/ Call(k) \/ FetchFails(k) \/ Lands(k)
             \/ Opens(k) \/ Closes(k) \/ Delivers(k)
      PROVE  KeysAreCurrent'
  <2>1. UNCHANGED <<kind, answer, keys>>
    BY <1>8 DEF Takes, Works, Publishes, Subscribes, CallFails, Call, FetchFails, Lands, Opens,
       Closes, Delivers, args, gateway
  <2>2. \A j \in Calls : stage'[j] = "asking" => stage[j] = "asking"
    BY <1>1, <1>8 DEF Takes, Works, Publishes, Subscribes, CallFails, Call, FetchFails, Lands,
       Connect, Settle, Opens, Closes, Delivers, CallTypes, call
  <2>3. QED
    BY <1>1, <2>1, <2>2 DEF KeysAreCurrent, Current, Purpose, keys
<1>9. QED
  BY <1>3, <1>4, <1>5, <1>6, <1>7, <1>8 DEF Next

\* An envelope sealed to a key that the gateway has told, in the words of Current.
LEMMA SealedIs ==
  SealedToTheGateway <=>
    \A k \in Calls : envelope[k].source = "gateway" => Current(k, envelope[k].key)
BY DEF SealedToTheGateway, Current, Purpose

LEMMA StepSealedToTheGateway ==
  ASSUME IInv, Next
  PROVE  SealedToTheGateway'
<1>1. CallTypes /\ KeyTypes /\ InOrder /\ KeysAreCurrent /\ SealedToTheGateway
  BY TypesAre DEF IInv
<1>2. KeyTypes'
  BY <1>1, StepKeyTypes
<1> DEFINE Right(k) == envelope[k].source = "gateway" => Current(k, envelope[k].key)
<1>3. \A k \in Calls : Right(k)
  BY <1>1, SealedIs
<1>4. SUFFICES \A k \in Calls : Right(k)'
  BY DEF SealedToTheGateway, Current, Purpose
<1>5. ASSUME NEW purpose \in Purposes, Rotates(purpose), NEW k \in Calls
      PROVE  Right(k)'
  <2>1. UNCHANGED <<kind, envelope, keyAtCall>>
    BY <1>5 DEF Rotates, args
  <2>2. gatewayKey[Purpose(k)] <= gatewayKey'[Purpose(k)]
    BY <1>1, <1>5, PurposeType DEF Rotates, KeyTypes
  <2>3. Current(k, envelope[k].key) => Current(k, envelope[k].key)'
    BY <1>1, <1>2, <2>1, <2>2, CurrentStays DEF Current, Purpose
  <2>4. QED
    BY <1>3, <2>1, <2>3
<1>6. ASSUME NEW k \in Calls, CallToSeal(k), NEW j \in Calls
      PROVE  Right(j)'
  <2>1. UNCHANGED <<kind, gatewayKey>>
    BY <1>6 DEF CallToSeal, args
  <2>2. CASE j = k
    <3>1. envelope[k] = NoEnvelope
      BY <1>1, <1>6 DEF CallToSeal, InOrder
    <3>2. envelope'[k].source # "gateway"
      BY <1>1, <1>6, <3>1 DEF CallToSeal, Seals, KeyTypes, NoEnvelope
    <3>3. QED
      BY <2>2, <3>2
  <2>3. CASE j # k
    <3>1. envelope'[j] = envelope[j] /\ keyAtCall'[j] = keyAtCall[j]
      BY <1>1, <1>6, <2>3 DEF CallToSeal, Seals, KeyTypes
    <3>2. QED
      BY <1>3, <2>1, <3>1 DEF Current, Purpose
  <2>4. QED
    BY <2>2, <2>3
<1>7. ASSUME NEW k \in Calls, LandsKey(k), NEW j \in Calls
      PROVE  Right(j)'
  <2>1. UNCHANGED <<kind, gatewayKey, keyAtCall>>
    BY <1>7 DEF LandsKey, args
  <2>2. CASE UNCHANGED envelope
    BY <1>3, <2>1, <2>2 DEF Current, Purpose
  <2>3. CASE ~PostThrows(answer[k]) /\ Seals(k, told[k], "gateway")
    <3>1. Current(k, told[k])
      BY <1>1, <1>7, <2>3 DEF LandsKey, KeysAreCurrent
    <3>2. j = k => envelope'[j].key = told[k]
      BY <1>1, <2>3 DEF Seals, KeyTypes
    <3>3. j # k => envelope'[j] = envelope[j]
      BY <1>1, <2>3 DEF Seals, KeyTypes
    <3>4. QED
      BY <1>3, <2>1, <3>1, <3>2, <3>3 DEF Current, Purpose
  <2>4. QED
    BY <1>7, <2>2, <2>3 DEF LandsKey
<1>8. ASSUME NEW k \in Calls,
             \/ Takes(k) \/ Works(k) \/ Refuses(k) \/ Replies(k) \/ Publishes(k) \/ Subscribes(k)
             \/ CallFails(k) \/ Call(k) \/ FetchFails(k) \/ Lands(k) \/ TellsKey(k)
             \/ Opens(k) \/ Closes(k) \/ Delivers(k),
             NEW j \in Calls
      PROVE  Right(j)'
  <2>1. UNCHANGED <<kind, gatewayKey, envelope, keyAtCall>>
    BY <1>8 DEF Takes, Works, Refuses, Replies, Publishes, Subscribes, CallFails, Call, FetchFails,
       Lands, TellsKey, Opens, Closes, Delivers, args, keys
  <2>2. QED
    BY <1>3, <2>1 DEF Current, Purpose
<1>9. QED
  BY <1>5, <1>6, <1>7, <1>8 DEF Next

-----------------------------------------------------------------------------
(* The theorems. *)

LEMMA InitIInv == Init => IInv
<1> SUFFICES ASSUME Init
             PROVE  IInv
  OBVIOUS
<1>1. CallTypes
  BY GatewayCallsAssumption DEF Init, CallTypes
<1>2. SocketTypes
  <2>1. <<>> \in Seq(1..MaxUpdates) /\ 0 \in 0..MaxUpdates
    BY GatewayCallsAssumption
  <2>2. QED
    BY <2>1 DEF Init, SocketTypes, Unsubscribed
<1>3. KeyTypes
  BY GatewayCallsAssumption DEF Init, KeyTypes
<1>4. InOrder /\ AnswerIsTrue /\ KeyCheckedFirst /\ ResolvedIsTrue
  BY DEF Init, InOrder, AnswerIsTrue, KeyCheckedFirst, ResolvedIsTrue
<1>5. KeysAreCurrent
  <2>1. \A p \in Purposes : gatewayKey[p] = 1
    BY DEF Init
  <2>2. \A k \in Calls : keyAtCall[k] = 0 /\ stage[k] = "idle"
    BY DEF Init
  <2>3. QED
    <3> SUFFICES ASSUME NEW k \in Calls
                 PROVE  keyAtCall[k] <= gatewayKey[Purpose(k)]
      BY <2>2 DEF KeysAreCurrent
    <3>1. Purpose(k) \in Purposes
      BY PurposeType
    <3>2. QED
      BY <2>1, <2>2, <3>1
<1>6. SealedToTheGateway
  BY DEF Init, SealedToTheGateway, NoEnvelope
<1>7. QED
  BY <1>1, <1>2, <1>3, <1>4, <1>5, <1>6, TypesAre DEF IInv

LEMMA StepIInv == IInv /\ [Next]_vars => IInv'
<1>1. ASSUME IInv, Next
      PROVE  IInv'
  <2>1. CallTypes /\ SocketTypes /\ KeyTypes /\ InOrder /\ AnswerIsTrue /\ KeysAreCurrent
    BY <1>1, TypesAre DEF IInv
  <2>2. TypeOK'
    <3>1. CallTypes' /\ SocketTypes' /\ KeyTypes'
      BY <1>1, <2>1, StepCallTypes, StepSocketTypes, StepKeyTypes
    <3>2. QED
      BY <3>1 DEF CallTypes, SocketTypes, KeyTypes, TypeOK
  <2>3. QED
    BY <1>1, <2>2, StepInOrder, StepAnswerIsTrue, StepKeysAreCurrent, StepKeyCheckedFirst,
       StepResolvedIsTrue, StepSealedToTheGateway DEF IInv
<1>2. ASSUME IInv, UNCHANGED vars
      PROVE  IInv'
  <2>1. TypeOK' /\ InOrder'
    BY <1>2 DEF IInv, TypeOK, InOrder, Invalid, vars, args, call, gateway, stream, keys
  <2>2. AnswerIsTrue' /\ KeyCheckedFirst' /\ ResolvedIsTrue'
    BY <1>2 DEF IInv, AnswerIsTrue, KeyCheckedFirst, ResolvedIsTrue, vars, args, call, gateway, stream
  <2>3. KeysAreCurrent' /\ SealedToTheGateway'
    BY <1>2 DEF IInv, KeysAreCurrent, Current, Purpose, SealedToTheGateway, vars, args, call, gateway,
       keys
  <2>4. QED
    BY <2>1, <2>2, <2>3 DEF IInv
<1>3. QED
  BY <1>1, <1>2

\* The inductive invariant holds however calls, gateway and sockets interleave
\* (avs/index.ts:290-551, https.ts:36-75, task-events.ts:43-62).
THEOREM Invariance == Spec => []IInv
BY InitIInv, StepIInv, PTL DEF Spec

\* Every variable keeps its type: a call settles with a result or an error of its own.
THEOREM TypeInvariant == Spec => []TypeOK
<1>1. IInv => TypeOK
  BY DEF IInv
<1>2. QED
  BY <1>1, Invariance, PTL

\* A key that no subprotocol carries leaves no task without a subscriber (avs/index.ts:372).
THEOREM NoTaskForNobody == Spec => []KeyCheckedFirst
<1>1. IInv => KeyCheckedFirst
  BY DEF IInv
<1>2. QED
  BY <1>1, Invariance, PTL

\* What resolves has been done, or failed with a result that says so, which only calls with a
\* `success` in their result do (https.ts:52-74, avs/index.ts:320-330, 387-394, 416-551).
THEOREM ResultsAreTrue == Spec => []ResolvedIsTrue
<1>1. IInv => ResolvedIsTrue
  BY DEF IInv
<1>2. QED
  BY <1>1, Invariance, PTL

\* What is sealed to a key that a call has asked for is sealed to the right one of the two, as
\* it was during the call (privacy/index.ts:283-286, 385-388).
THEOREM SealedRight == Spec => []SealedToTheGateway
<1>1. IInv => SealedToTheGateway
  BY DEF IInv
<1>2. QED
  BY <1>1, Invariance, PTL
=============================================================================
