--------------------------- MODULE DelegatorCalls ---------------------------
(***************************************************************************)
(* The calls of the delegator client (src/modules/delegator/index.ts) that *)
(* submit a signed intent, read it and read its attestation, several at a  *)
(* time, each a request or two over a network that loses requests and      *)
(* answers.  The delegator stores an intent once, attests it, lets its     *)
(* attestation expire and prunes it, between any two steps of a call.      *)
(*                                                                         *)
(* waitForIntent, which polls getIntent, is DelegatorWait.                 *)
(***************************************************************************)

CONSTANTS
  Calls,    \* the calls made; a caller that tries again makes another
  Intents,  \* signed intents, by their idempotency key
  Asks      \* what a call may be: its method and who its `auth` makes it

Kinds == {"submitIntent", "submitDelegatedIntent", "getIntent", "getAttestation"}

\* What the delegator takes the signer for: one that can read the intent, one that cannot,
\* or nobody, without `auth`.
Auths == {"reader", "stranger", "unsigned"}

ASSUME DelegatorCallsAssumption == Asks \subseteq Kinds \X Auths

VARIABLES
  rec,       \* intent -> "unknown", "live" or "gone": the delegator's record
  attested,  \* the intents it has an attestation for
  wire,      \* the calls whose request the delegator has yet to take
  kind,      \* call -> the method called
  target,    \* call -> the intent
  auth,      \* call -> config.auth
  honours,   \* config.fetch rejects when its signal aborts
  aborted,   \* call -> its abortSignal is aborted
  stage,     \* call -> where it is
  op,        \* call -> the request it has made last
  answer,    \* call -> the delegator's answer to it, on its way
  outcome,   \* call -> what its promise settled with
  seen       \* history: call -> the conditions the intent has been in since

service == <<rec, attested>>
args == <<kind, target, auth, honours>>
vars == <<service, wire, args, aborted, stage, op, answer, outcome, seen>>

Conditions == {"unknown", "unattested", "attested", "gone"}

\* 202; 200 with a view; 200 with id and state only; 404; 410; any other error; a 2xx that
\* is not a JSON object.
Answers == {"stored", "view", "ref", "not_found", "gone", "refused", "malformed"}

Results == {"created", "existing", "intent", "attestation", "none_yet"}
Errors == {"aborted", "sign_error", "network", "not_found", "gone", "refused", "malformed"}

TypeOK ==
  /\ rec \in [Intents -> {"unknown", "live", "gone"}]
  /\ attested \subseteq Intents
  /\ wire \subseteq Calls
  /\ kind \in [Calls -> Kinds] /\ target \in [Calls -> Intents] /\ auth \in [Calls -> Auths]
  /\ honours \in BOOLEAN
  /\ aborted \in [Calls -> BOOLEAN]
  /\ stage \in [Calls -> {"idle", "consent", "signing", "sent", "settled"}]
  /\ op \in [Calls -> {"none", "submit", "intent", "attestation"}]
  /\ answer \in [Calls -> Answers \cup {"none"}]
  /\ outcome \in [Calls -> Results \cup Errors \cup {"pending"}]
  /\ seen \in [Calls -> SUBSET Conditions]

-----------------------------------------------------------------------------
(* The delegator. *)

Condition(i) ==
  IF rec[i] # "live" THEN rec[i] ELSE IF i \in attested THEN "attested" ELSE "unattested"

Attests(i) ==
  /\ rec[i] = "live"
  /\ attested' = attested \cup {i}
  /\ UNCHANGED <<rec, wire, args, aborted, stage, op, answer, outcome>>

\* The intent falls back to accepted.
AttestationExpires(i) ==
  /\ i \in attested
  /\ attested' = attested \ {i}
  /\ UNCHANGED <<rec, wire, args, aborted, stage, op, answer, outcome>>

\* Its retention window is over.
Prunes(i) ==
  /\ rec[i] = "live"
  /\ rec' = [rec EXCEPT ![i] = "gone"]
  /\ attested' = attested \ {i}
  /\ UNCHANGED <<wire, args, aborted, stage, op, answer, outcome>>

\* The answer to call k's request, if the delegator serves it.
AnswerTo(k) ==
  LET i == target[k]
  IN  IF op[k] = "submit"
      THEN IF rec[i] = "unknown" THEN "stored"
           ELSE IF rec[i] = "gone" THEN "gone"
           ELSE IF auth[k] = "reader" THEN "view" ELSE "ref"
      ELSE IF auth[k] = "unsigned" THEN "refused"
      ELSE IF auth[k] = "stranger" \/ rec[i] = "unknown" THEN "not_found"
      ELSE IF rec[i] = "gone" THEN "gone"
      ELSE IF op[k] = "attestation" /\ i \notin attested THEN "not_found"
      ELSE "view"

\* The request is off the wire; its answer finds the call waiting, or nobody.
Answered(k, reply) ==
  /\ k \in wire
  /\ wire' = wire \ {k}
  /\ answer' = IF stage[k] = "sent" THEN [answer EXCEPT ![k] = reply] ELSE answer
  /\ UNCHANGED <<attested, args, aborted, stage, op, outcome>>

Serves(k) ==
  /\ Answered(k, AnswerTo(k))
  /\ rec' = IF AnswerTo(k) = "stored" THEN [rec EXCEPT ![target[k]] = "live"] ELSE rec

\* A stale signature, a limit, no right to submit, a proxy's page: nothing is stored.
Refuses(k) ==
  /\ \E reply \in {"refused", "malformed"} : Answered(k, reply)
  /\ UNCHANGED rec

\* The network loses the request.
Loses(k) ==
  /\ k \in wire
  /\ wire' = wire \ {k}
  /\ UNCHANGED <<service, args, aborted, stage, op, answer, outcome>>

-----------------------------------------------------------------------------
(* request: one request of call k. *)

Settle(k, how) ==
  /\ stage' = [stage EXCEPT ![k] = "settled"]
  /\ outcome' = [outcome EXCEPT ![k] = how]

\* doFetch: a fetch that honours its signal sends nothing once it has aborted.
Fetch(k) ==
  \/ /\ aborted[k] /\ honours
     /\ Settle(k, "aborted") /\ UNCHANGED wire
  \/ /\ ~(aborted[k] /\ honours)
     /\ stage' = [stage EXCEPT ![k] = "sent"] /\ wire' = wire \cup {k}
     /\ UNCHANGED outcome

\* throwIfAborted, then signNewtonRequest if there is `auth`.
Issue(k, r) ==
  /\ op' = [op EXCEPT ![k] = r]
  /\ answer' = [answer EXCEPT ![k] = "none"]
  /\ \/ aborted[k] /\ Settle(k, "aborted") /\ UNCHANGED wire
     \/ ~aborted[k] /\ auth[k] = "unsigned" /\ Fetch(k)
     \/ /\ ~aborted[k] /\ auth[k] # "unsigned"
        /\ stage' = [stage EXCEPT ![k] = "signing"] /\ UNCHANGED <<outcome, wire>>

SignsRequest(k) ==
  /\ stage[k] = "signing"
  /\ Fetch(k)
  /\ UNCHANGED <<service, args, aborted, op, answer>>

SignFails(k) ==
  /\ stage[k] = "signing"
  /\ Settle(k, "sign_error")
  /\ UNCHANGED <<service, wire, args, aborted, op, answer>>

\* The connection fails; the request may be on the wire for all that.
FetchFails(k) ==
  /\ stage[k] = "sent"
  /\ Settle(k, "network")
  /\ UNCHANGED <<service, wire, args, aborted, op, answer>>

\* The caller's signal aborts, before, during or between the requests of the call.
Abort(k) ==
  /\ ~aborted[k] /\ stage[k] # "settled"
  /\ aborted' = [aborted EXCEPT ![k] = TRUE]
  /\ IF stage[k] = "sent" /\ honours THEN Settle(k, "aborted") ELSE UNCHANGED <<stage, outcome>>
  /\ UNCHANGED <<service, wire, args, op, answer>>

-----------------------------------------------------------------------------
(* The calls. *)

SubmitIntent(k) ==
  /\ stage[k] = "idle" /\ kind[k] = "submitIntent"
  /\ Issue(k, "submit")
  /\ UNCHANGED <<service, args, aborted>>

GetIntent(k) ==
  /\ stage[k] = "idle" /\ kind[k] = "getIntent"
  /\ Issue(k, "intent")
  /\ UNCHANGED <<service, args, aborted>>

GetAttestation(k) ==
  /\ stage[k] = "idle" /\ kind[k] = "getAttestation"
  /\ Issue(k, "attestation")
  /\ UNCHANGED <<service, args, aborted>>

\* intent.from's wallet is asked to sign the intent, whatever the signal says.
SubmitDelegatedIntent(k) ==
  /\ stage[k] = "idle" /\ kind[k] = "submitDelegatedIntent"
  /\ stage' = [stage EXCEPT ![k] = "consent"]
  /\ UNCHANGED <<service, wire, args, aborted, op, answer, outcome>>

SignsIntent(k) ==
  /\ stage[k] = "consent"
  /\ Issue(k, "submit")
  /\ UNCHANGED <<service, args, aborted>>

\* No account, another account than intent.from, or the user refuses.
IntentUnsigned(k) ==
  /\ stage[k] = "consent"
  /\ Settle(k, "sign_error")
  /\ UNCHANGED <<service, wire, args, aborted, op, answer>>

\* The second throwIfAborted is gone.
Dropped_Never(k) == FALSE

\* A fetch that ignores its signal answers after the abort.
Dropped(k) == aborted[k]

IsError(reply) == reply \in {"not_found", "gone", "refused", "malformed"}

\* Whatever is not an error has created it.
Submitted_AnyOk(reply) == "created"

\* created: status === 202
Submitted(reply) == IF reply = "stored" THEN "created" ELSE "existing"

\* Any error is looked into.
CatchAttestation_Any(k) == Issue(k, "intent")

\* The attestation is asked for until it is there.
CatchAttestation_Again(k) ==
  \/ answer[k] = "not_found" /\ Issue(k, "attestation")
  \/ answer[k] # "not_found" /\ Settle(k, answer[k]) /\ UNCHANGED <<wire, op, answer>>

\* A 404 is looked into: the intent tells an unknown one from one not attested yet.
CatchAttestation(k) ==
  \/ answer[k] = "not_found" /\ Issue(k, "intent")
  \/ answer[k] # "not_found" /\ Settle(k, answer[k]) /\ UNCHANGED <<wire, op, answer>>

\* What the call makes of an answer that is no error.
Resolved(k) ==
  IF op[k] = "submit" THEN Submitted(answer[k])
  ELSE IF op[k] = "attestation" THEN "attestation"
  ELSE IF kind[k] = "getAttestation" THEN "none_yet" ELSE "intent"

Lands(k) ==
  /\ stage[k] = "sent" /\ answer[k] # "none"
  /\ \/ Dropped(k) /\ Settle(k, "aborted") /\ UNCHANGED <<wire, op, answer>>
     \/ /\ ~Dropped(k) /\ ~IsError(answer[k])
        /\ Settle(k, Resolved(k)) /\ UNCHANGED <<wire, op, answer>>
     \/ /\ ~Dropped(k) /\ IsError(answer[k]) /\ op[k] = "attestation"
        /\ CatchAttestation(k)
     \/ /\ ~Dropped(k) /\ IsError(answer[k]) /\ op[k] # "attestation"
        /\ Settle(k, answer[k]) /\ UNCHANGED <<wire, op, answer>>
  /\ UNCHANGED <<service, args, aborted>>

-----------------------------------------------------------------------------
Init ==
  /\ rec = [i \in Intents |-> "unknown"] /\ attested = {} /\ wire = {}
  /\ kind \in [Calls -> Kinds] /\ target \in [Calls -> Intents] /\ auth \in [Calls -> Auths]
  /\ \A k \in Calls : <<kind[k], auth[k]>> \in Asks
  /\ honours \in BOOLEAN
  /\ aborted = [k \in Calls |-> FALSE]
  /\ stage = [k \in Calls |-> "idle"] /\ op = [k \in Calls |-> "none"]
  /\ answer = [k \in Calls |-> "none"] /\ outcome = [k \in Calls |-> "pending"]
  /\ seen = [k \in Calls |-> {}]

DelegatorStep == \E i \in Intents : Attests(i) \/ AttestationExpires(i) \/ Prunes(i)

WireStep == \E k \in Calls : Serves(k) \/ Refuses(k) \/ Loses(k)

CallStep ==
  \E k \in Calls :
    \/ SubmitIntent(k) \/ SubmitDelegatedIntent(k) \/ GetIntent(k) \/ GetAttestation(k)
    \/ SignsIntent(k) \/ IntentUnsigned(k) \/ SignsRequest(k) \/ SignFails(k)
    \/ Lands(k) \/ FetchFails(k) \/ Abort(k)

\* A call under way sees its intent's condition change.
Observed ==
  seen' = [k \in Calls |->
             IF stage'[k] = "idle" \/ stage[k] = "settled" THEN seen[k]
             ELSE seen[k] \cup {Condition(target[k])'}]

Next == (DelegatorStep \/ WireStep \/ CallStep) /\ Observed

Spec == Init /\ [][Next]_vars

\* Every request on the wire is answered or its connection fails, and what is answered is
\* read.  Nobody need sign.
FairSpec == Spec /\ \A k \in Calls : WF_vars((Lands(k) \/ FetchFails(k)) /\ Observed)

-----------------------------------------------------------------------------
(* Properties. *)

\* However often a signed intent is submitted, over whatever failures, at most one of the
\* submissions is told that it created it (index.ts:309-332; delegated-intents.mdx: "Submitting
\* the same signed intent twice is safe").
CreatedOnce ==
  \A j, k \in Calls :
    outcome[j] = "created" /\ outcome[k] = "created" /\ target[j] = target[k] => j = k

\* What a call answers has been so since it was called, also where it is put together from
\* two reads: `null` is given only for an intent that was known without an attestation,
\* `not_found` only for one that was unknown or not the caller's to see (index.ts:358-379).
AnswersHeld ==
  \A k \in Calls :
    /\ outcome[k] = "none_yet" => "unattested" \in seen[k]
    /\ outcome[k] = "attestation" => "attested" \in seen[k]
    /\ outcome[k] = "not_found" => auth[k] = "stranger" \/ "unknown" \in seen[k]
    /\ outcome[k] = "gone" => "gone" \in seen[k]
    /\ outcome[k] \in {"created", "existing", "intent"}
         => seen[k] \cap {"attested", "unattested"} # {}

\* After an abort no call asks for another signature of a request, not for its first request,
\* when the intent was being signed, and not for its second (index.ts:260-261); and none
\* resolves, though its fetch ignores the signal (index.ts:280-281).
AbortIsHeeded ==
  [][\A k \in Calls : aborted[k] =>
       /\ stage[k] # "signing" => stage'[k] # "signing"
       /\ outcome[k] = "pending" => outcome'[k] \notin Results]_vars

\* Unless it waits for good for somebody to sign a request, a call ends: it never asks the
\* same thing again and again (index.ts:278-307, 372-379).
CallsEnd ==
  \A k \in Calls : stage[k] = "sent" ~> (stage[k] = "settled" \/ [](stage[k] = "signing"))

-----------------------------------------------------------------------------
(* The inductive invariant. *)

\* A promise that is pending has no outcome, a call not made has seen nothing, a request not
\* sent has no answer, one that is asked for is one of the three, and only what the
\* delegator holds is attested.
InOrder ==
  /\ \A k \in Calls : stage[k] # "settled" => outcome[k] = "pending"
  /\ \A k \in Calls : stage[k] = "idle" => seen[k] = {}
  /\ \A k \in Calls : stage[k] \in {"idle", "consent", "signing"} => answer[k] = "none"
  /\ \A k \in Calls : stage[k] \in {"signing", "sent"} => op[k] # "none"
  /\ \A i \in attested : rec[i] = "live"

\* The one that is told that it created the intent, or will be if it reads its answer.
Creator(k) ==
  \/ outcome[k] = "created"
  \/ stage[k] = "sent" /\ answer[k] = "stored"

OneCreator ==
  /\ \A k \in Calls : Creator(k) => rec[target[k]] # "unknown"
  /\ \A j, k \in Calls : Creator(j) /\ Creator(k) /\ target[j] = target[k] => j = k

UnderWay(k) == stage[k] \in {"consent", "signing", "sent"}

\* A call has seen the present, and an intent that is no longer unknown come without an
\* attestation.
SeesPresent ==
  \A k \in Calls : UnderWay(k) =>
    /\ Condition(target[k]) \in seen[k]
    /\ "unknown" \in seen[k] /\ rec[target[k]] # "unknown" => "unattested" \in seen[k]

\* Why the second request of getAttestation is made.
LooksInto ==
  \A k \in Calls :
    stage[k] \in {"signing", "sent"} /\ op[k] = "intent" /\ kind[k] = "getAttestation"
      => auth[k] = "stranger" \/ seen[k] \cap {"unknown", "unattested"} # {}

\* What an answer on its way tells.
AnswersTell ==
  \A k \in Calls : stage[k] = "sent" =>
    /\ answer[k] \in {"stored", "ref"} => op[k] = "submit"
    /\ answer[k] = "gone" => "gone" \in seen[k]
    /\ answer[k] \in {"stored", "ref", "view"} => seen[k] \cap {"attested", "unattested"} # {}
    /\ answer[k] = "view" /\ op[k] = "attestation" => "attested" \in seen[k]
    /\ answer[k] = "view" /\ op[k] = "intent" /\ kind[k] = "getAttestation"
         => "unattested" \in seen[k]
    /\ answer[k] = "not_found" /\ op[k] # "attestation"
         => auth[k] = "stranger" \/ "unknown" \in seen[k]
    /\ answer[k] = "not_found" /\ op[k] = "attestation"
         => auth[k] = "stranger" \/ seen[k] \cap {"unknown", "unattested"} # {}

IInv ==
  /\ TypeOK /\ InOrder /\ OneCreator /\ SeesPresent /\ LooksInto /\ AnswersTell
  /\ CreatedOnce /\ AnswersHeld
=============================================================================
