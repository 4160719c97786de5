------------------------ MODULE DelegatorCallsProofs ------------------------
(***************************************************************************)
(* Proofs about DelegatorCalls, for any number of calls and intents.       *)
(***************************************************************************)
EXTENDS DelegatorCalls, TLAPS

\* All that TypeOK says of the variables a step sets itself; `seen` follows.
Types ==
  /\ rec \in [Intents -> {"unknown", "live", "gone"}]
  /\ attested \subseteq Intents
  /\ wire \subseteq Calls
  /\ kind \in [Calls -> Kinds] /\ target \in [Calls -> Intents] /\ auth \in [Calls -> Auths]
  /\ honours \in BOOLEAN
  /\ aborted \in [Calls -> BOOLEAN]
  /\ stage \in [Calls -> {"idle", "consent", "signing", "sent", "settled"}]
  /\ op \in [Calls -> {"none", "submit", "intent", "attestation"}]
  /\ answer \in [Calls -> Answers \cup {"none"}]
  /\ outcome \in [Calls -> Results \cup Errors \cup {"pending"}]

LEMMA TypesAre == TypeOK <=> Types /\ seen \in [Calls -> SUBSET Conditions]
BY DEF TypeOK, Types

LEMMA ConditionType ==
  ASSUME NEW i \in Intents, rec \in [Intents -> {"unknown", "live", "gone"}]
  PROVE  Condition(i) \in Conditions
BY DEF Condition, Conditions

\* The call's own steps, one at a time.
OwnStep(k) ==
  \/ SubmitIntent(k) \/ SubmitDelegatedIntent(k) \/ GetIntent(k) \/ GetAttestation(k)
  \/ SignsIntent(k) \/ IntentUnsigned(k) \/ SignsRequest(k) \/ SignFails(k)
  \/ Lands(k) \/ FetchFails(k) \/ Abort(k)

LEMMA OwnSteps == CallStep <=> \E k \in Calls : OwnStep(k)
BY DEF CallStep, OwnStep

\* Settling and issuing are a call's own affair.
LEMMA SettleTypes ==
  ASSUME Types, NEW k \in Calls, NEW how \in Results \cup Errors, Settle(k, how)
  PROVE  /\ stage' \in [Calls -> {"idle", "consent", "signing", "sent", "settled"}]
         /\ outcome' \in [Calls -> Results \cup Errors \cup {"pending"}]
         /\ stage'[k] = "settled" /\ outcome'[k] = how
         /\ \A j \in Calls \ {k} : stage'[j] = stage[j] /\ outcome'[j] = outcome[j]
BY DEF Types, Settle

LEMMA FetchTypes ==
  ASSUME Types, NEW k \in Calls, Fetch(k)
  PROVE  /\ stage' \in [Calls -> {"idle", "consent", "signing", "sent", "settled"}]
         /\ outcome' \in [Calls -> Results \cup Errors \cup {"pending"}]
         /\ wire' \subseteq Calls
         /\ \/ stage'[k] = "settled" /\ outcome'[k] = "aborted" /\ aborted[k]
            \/ stage'[k] = "sent" /\ outcome'[k] = outcome[k]
         /\ \A j \in Calls \ {k} : stage'[j] = stage[j] /\ outcome'[j] = outcome[j]
<1>1. CASE aborted[k] /\ honours
  <2>1. Settle(k, "aborted") /\ wire' = wire
    BY <1>1 DEF Fetch
  <2>2. QED
    BY <1>1, <2>1, SettleTypes DEF Errors, Types
<1>2. CASE ~(aborted[k] /\ honours)
  BY <1>2 DEF Fetch, Types
<1>3. QED
  BY <1>1, <1>2

LEMMA IssueTypes ==
  ASSUME Types, NEW k \in Calls, NEW r \in {"submit", "intent", "attestation"}, Issue(k, r)
  PROVE  /\ stage' \in [Calls -> {"idle", "consent", "signing", "sent", "settled"}]
         /\ outcome' \in [Calls -> Results \cup Errors \cup {"pending"}]
         /\ op' \in [Calls -> {"none", "submit", "intent", "attestation"}]
         /\ answer' \in [Calls -> Answers \cup {"none"}]
         /\ wire' \subseteq Calls
         /\ op'[k] = r /\ answer'[k] = "none"
         /\ \/ stage'[k] = "settled" /\ outcome'[k] = "aborted" /\ aborted[k]
            \/ stage'[k] \in {"signing", "sent"} /\ outcome'[k] = outcome[k] /\ ~aborted[k]
         /\ \A j \in Calls \ {k} :
              /\ stage'[j] = stage[j] /\ outcome'[j] = outcome[j]
              /\ op'[j] = op[j] /\ answer'[j] = answer[j]
<1>1. /\ op' \in [Calls -> {"none", "submit", "intent", "attestation"}]
      /\ answer' \in [Calls -> Answers \cup {"none"}]
      /\ op'[k] = r /\ answer'[k] = "none"
      /\ \A j \in Calls \ {k} : op'[j] = op[j] /\ answer'[j] = answer[j]
  BY DEF Issue, Types
<1>2. CASE aborted[k] /\ Settle(k, "aborted") /\ UNCHANGED wire
  BY <1>1, <1>2, SettleTypes DEF Errors, Types
<1>3. CASE ~aborted[k] /\ auth[k] = "unsigned" /\ Fetch(k)
  BY <1>1, <1>3, FetchTypes
<1>4. CASE /\ ~aborted[k] /\ auth[k] # "unsigned"
           /\ stage' = [stage EXCEPT ![k] = "signing"] /\ UNCHANGED <<outcome, wire>>
  BY <1>1, <1>4 DEF Types
<1>5. QED
  BY <1>2, <1>3, <1>4 DEF Issue

-----------------------------------------------------------------------------
(* What a call's step does to the call. *)

\* It settles for want of a signature, of a connection or of a caller.
GivesUp(k) ==
  /\ stage[k] # "settled" /\ stage'[k] = "settled"
  /\ outcome'[k] \in {"aborted", "sign_error", "network"}
  /\ op'[k] \in {op[k], "submit", "intent", "attestation"}

\* It makes its first request.
Begins(k) ==
  /\ stage[k] \in {"idle", "consent"} /\ ~aborted[k]
  /\ stage'[k] \in {"signing", "sent"} /\ outcome'[k] = outcome[k]
  /\ answer'[k] = "none"
  /\ op'[k] \in {"submit", "attestation"} \/ (op'[k] = "intent" /\ kind[k] = "getIntent")

\* It waits for a signature, or has one, or is aborted without noticing.
GoesOn(k) ==
  /\ \/ stage[k] = "idle" /\ stage'[k] = "consent"
     \/ stage[k] = "signing" /\ stage'[k] = "sent"
     \/ stage'[k] = stage[k]
  /\ outcome'[k] = outcome[k] /\ op'[k] = op[k] /\ answer'[k] = answer[k]

\* It settles with what it makes of its answer.
Concludes(k) ==
  /\ stage[k] = "sent" /\ answer[k] # "none" /\ ~aborted[k]
  /\ stage'[k] = "settled"
  /\ \/ ~IsError(answer[k]) /\ outcome'[k] = Resolved(k)
     \/ /\ IsError(answer[k]) /\ outcome'[k] = answer[k]
        /\ answer[k] = "not_found" => op[k] # "attestation"

\* It looks into a 404.
Looks(k) ==
  /\ stage[k] = "sent" /\ answer[k] = "not_found" /\ op[k] = "attestation" /\ ~aborted[k]
  /\ stage'[k] \in {"signing", "sent"} /\ outcome'[k] = outcome[k]
  /\ op'[k] = "intent" /\ answer'[k] = "none"

Moves(k) == GivesUp(k) \/ Begins(k) \/ GoesOn(k) \/ Concludes(k) \/ Looks(k)

\* The rest stays.
Others(k) ==
  /\ UNCHANGED <<service, args>>
  /\ \A j \in Calls \ {k} :
       stage'[j] = stage[j] /\ outcome'[j] = outcome[j] /\ op'[j] = op[j] /\ answer'[j] = answer[j]

LEMMA ResolvedTypes ==
  ASSUME Types, NEW k \in Calls
  PROVE  Resolved(k) \in Results
BY DEF Resolved, Submitted, Results

LEMMA LandsMoves ==
  ASSUME Types, NEW k \in Calls, Lands(k)
  PROVE  Types' /\ Others(k) /\ (GivesUp(k) \/ Concludes(k) \/ Looks(k))
<1>0. UNCHANGED <<service, args, aborted>> /\ stage[k] = "sent" /\ answer[k] # "none"
      /\ answer[k] \in Answers
  BY DEF Lands, Types
<1>1. CASE Dropped(k) /\ Settle(k, "aborted") /\ UNCHANGED <<wire, op, answer>>
  <2>1. "aborted" \in Results \cup Errors
    BY DEF Errors
  <2>2. QED
    BY <1>0, <1>1, <2>1, SettleTypes DEF Types, Others, GivesUp, service, args
<1>2. CASE /\ ~Dropped(k) /\ ~IsError(answer[k])
           /\ Settle(k, Resolved(k)) /\ UNCHANGED <<wire, op, answer>>
  <2>1. Resolved(k) \in Results \cup Errors
    BY ResolvedTypes
  <2>2. QED
    BY <1>0, <1>2, <2>1, SettleTypes DEF Types, Others, Concludes, Dropped, service, args
<1>3. CASE /\ ~Dropped(k) /\ IsError(answer[k])
           /\ ~(op[k] = "attestation" /\ answer[k] = "not_found")
           /\ Settle(k, answer[k]) /\ UNCHANGED <<wire, op, answer>>
  <2>1. answer[k] \in Results \cup Errors
    BY <1>3 DEF IsError, Errors
  <2>2. QED
    BY <1>0, <1>3, <2>1, SettleTypes DEF Types, Others, Concludes, Dropped, service, args
<1>4. CASE /\ ~Dropped(k) /\ op[k] = "attestation" /\ answer[k] = "not_found"
           /\ Issue(k, "intent")
  <2>1. /\ ~aborted[k]
        /\ stage'[k] \in {"signing", "sent"} /\ outcome'[k] = outcome[k]
        /\ op'[k] = "intent" /\ answer'[k] = "none"
    BY <1>4, IssueTypes DEF Dropped
  <2>2. Looks(k)
    BY <1>0, <1>4, <2>1 DEF Looks
  <2>3. Types' /\ Others(k)
    BY <1>0, <1>4, IssueTypes DEF Types, Others, service, args
  <2>4. QED
    BY <2>2, <2>3
<1>5. QED
  BY <1>1, <1>2, <1>3, <1>4 DEF Lands, CatchAttestation

LEMMA FirstRequestMoves ==
  ASSUME Types, NEW k \in Calls, NEW r \in {"submit", "intent", "attestation"},
         Issue(k, r), UNCHANGED <<service, args, aborted>>,
         stage[k] \in {"idle", "consent"}, r = "intent" => kind[k] = "getIntent"
  PROVE  Types' /\ Others(k) /\ (GivesUp(k) \/ Begins(k))
<1>1. Types' /\ Others(k)
  BY IssueTypes DEF Types, Others, service, args
<1>2. CASE stage'[k] = "settled" /\ outcome'[k] = "aborted"
  BY <1>1, <1>2, IssueTypes DEF GivesUp
<1>3. CASE stage'[k] \in {"signing", "sent"} /\ outcome'[k] = outcome[k] /\ ~aborted[k]
  BY <1>1, <1>3, IssueTypes DEF Begins
<1>4. QED
  BY <1>1, <1>2, <1>3, IssueTypes

LEMMA GivesUpMoves ==
  ASSUME Types, NEW k \in Calls, NEW how \in {"sign_error", "network"}, Settle(k, how),
         UNCHANGED <<service, wire, args, aborted, op, answer>>, stage[k] # "settled"
  PROVE  Types' /\ Others(k) /\ GivesUp(k)
<1>1. how \in Results \cup Errors
  BY DEF Errors
<1>2. QED
  BY <1>1, SettleTypes DEF Types, Others, GivesUp, service, args

LEMMA OwnStepMoves ==
  ASSUME Types, NEW k \in Calls, OwnStep(k)
  PROVE  Types' /\ Others(k) /\ Moves(k)
<1>1. CASE SubmitIntent(k) \/ SignsIntent(k)
  BY <1>1, FirstRequestMoves DEF SubmitIntent, SignsIntent, Moves
<1>2. CASE GetIntent(k)
  BY <1>2, FirstRequestMoves DEF GetIntent, Moves
<1>3. CASE GetAttestation(k)
  BY <1>3, FirstRequestMoves DEF GetAttestation, Moves
<1>4. CASE SubmitDelegatedIntent(k)
  BY <1>4 DEF SubmitDelegatedIntent, Types, Others, Moves, GoesOn, service, args
<1>5. CASE IntentUnsigned(k) \/ SignFails(k) \/ FetchFails(k)
  BY <1>5, GivesUpMoves DEF IntentUnsigned, SignFails, FetchFails, Moves
<1>6. CASE SignsRequest(k)
  <2>1. Types' /\ Others(k)
    BY <1>6, FetchTypes DEF SignsRequest, Types, Others, service, args
  <2>2. CASE stage'[k] = "settled" /\ outcome'[k] = "aborted"
    BY <1>6, <2>1, <2>2 DEF SignsRequest, GivesUp, Moves
  <2>3. CASE stage'[k] = "sent" /\ outcome'[k] = outcome[k]
    BY <1>6, <2>1, <2>3 DEF SignsRequest, GoesOn, Moves
  <2>4. QED
    BY <1>6, <2>2, <2>3, FetchTypes DEF SignsRequest
<1>7. CASE Lands(k)
  BY <1>7, LandsMoves DEF Moves
<1>8. CASE Abort(k)
  <2>1. CASE stage[k] = "sent" /\ honours
    <3>1. Settle(k, "aborted") /\ "aborted" \in Results \cup Errors
      BY <1>8, <2>1 DEF Abort, Errors
    <3>2. QED
      BY <1>8, <2>1, <3>1, SettleTypes DEF Abort, Types, Others, Moves, GivesUp, service, args
  <2>2. CASE ~(stage[k] = "sent" /\ honours)
    BY <1>8, <2>2 DEF Abort, Types, Others, Moves, GoesOn, service, args
  <2>3. QED
    BY <2>1, <2>2
<1>9. QED
  BY <1>1, <1>2, <1>3, <1>4, <1>5, <1>6, <1>7, <1>8 DEF OwnStep

-----------------------------------------------------------------------------
(* What a step of the delegator or of the wire does. *)

\* It changes one record at most, from unknown to live or from live to gone.
LEMMA DelegatorMoves ==
  ASSUME Types, InOrder, DelegatorStep
  PROVE  /\ Types' /\ UNCHANGED <<args, stage, op, answer, outcome>>
         /\ \A i \in Intents : rec[i] = "unknown" <=> rec'[i] = "unknown"
         /\ \A i \in attested' : rec'[i] = "live"
<1>1. PICK i \in Intents : Attests(i) \/ AttestationExpires(i) \/ Prunes(i)
  BY DEF DelegatorStep
<1>2. CASE Attests(i)
  BY <1>2 DEF Attests, Types, InOrder, args
<1>3. CASE AttestationExpires(i)
  BY <1>3 DEF AttestationExpires, Types, InOrder, args
<1>4. CASE Prunes(i)
  BY <1>4 DEF Prunes, Types, InOrder, args
<1>5. QED
  BY <1>1, <1>2, <1>3, <1>4

LEMMA AnswerToTypes == \A k : AnswerTo(k) \in {"stored", "view", "ref", "not_found", "gone", "refused"}
BY DEF AnswerTo

\* An answer reaches call k, if it still waits.
Hears(k, reply) ==
  /\ \A j \in Calls \ {k} : answer'[j] = answer[j]
  /\ answer'[k] = IF stage[k] = "sent" THEN reply ELSE answer[k]

LEMMA WireMoves ==
  ASSUME Types, InOrder, WireStep
  PROVE  /\ Types' /\ UNCHANGED <<attested, args, stage, op, outcome>>
         /\ \A i \in attested' : rec'[i] = "live"
         /\ \/ rec' = rec /\ answer' = answer
            \/ rec' = rec /\ \E k \in Calls : \E reply \in {"refused", "malformed"} : Hears(k, reply)
            \/ \E k \in Calls :
                 /\ Hears(k, AnswerTo(k))
                 /\ rec' = IF AnswerTo(k) = "stored" THEN [rec EXCEPT ![target[k]] = "live"] ELSE rec
<1>1. PICK k \in Calls : Serves(k) \/ Refuses(k) \/ Loses(k)
  BY DEF WireStep
<1>2. ASSUME NEW reply \in Answers, Answered(k, reply)
      PROVE  /\ Hears(k, reply) /\ wire' \subseteq Calls
             /\ answer' \in [Calls -> Answers \cup {"none"}]
             /\ UNCHANGED <<attested, args, aborted, stage, op, outcome>>
  BY <1>2 DEF Answered, Hears, Types, args
<1>3. CASE Serves(k)
  <2>1. AnswerTo(k) \in Answers
    BY AnswerToTypes DEF Answers
  <2>2. Hears(k, AnswerTo(k)) /\ wire' \subseteq Calls
        /\ answer' \in [Calls -> Answers \cup {"none"}]
        /\ UNCHANGED <<attested, args, aborted, stage, op, outcome>>
    BY <1>2, <1>3, <2>1 DEF Serves
  <2>3. rec' = IF AnswerTo(k) = "stored" THEN [rec EXCEPT ![target[k]] = "live"] ELSE rec
    BY <1>3 DEF Serves
  <2>4. Types' /\ \A i \in attested' : rec'[i] = "live"
    BY <2>2, <2>3 DEF Types, InOrder, args
  <2>5. QED
    BY <2>2, <2>3, <2>4
<1>4. CASE Refuses(k)
  <2>1. PICK reply \in {"refused", "malformed"} : Answered(k, reply)
    BY <1>4 DEF Refuses
  <2>2. reply \in Answers
    BY DEF Answers
  <2>3. Hears(k, reply) /\ wire' \subseteq Calls
        /\ answer' \in [Calls -> Answers \cup {"none"}]
        /\ UNCHANGED <<attested, args, aborted, stage, op, outcome>>
    BY <1>2, <2>1, <2>2
  <2>4. UNCHANGED rec
    BY <1>4 DEF Refuses
  <2>5. Types' /\ \A i \in attested' : rec'[i] = "live"
    BY <2>3, <2>4 DEF Types, InOrder, args
  <2>6. QED
    BY <2>3, <2>4, <2>5
<1>5. CASE Loses(k)
  BY <1>5 DEF Loses, Types, InOrder, service, args
<1>6. QED
  BY <1>1, <1>3, <1>4, <1>5

-----------------------------------------------------------------------------
(* Every step. *)

\* The three kinds of step, with what the lemmas above say of each.
ByDelegator ==
  /\ UNCHANGED <<stage, op, answer, outcome>>
  /\ \A i \in Intents : rec[i] = "unknown" <=> rec'[i] = "unknown"

ByWire ==
  /\ UNCHANGED <<attested, stage, op, outcome>>
  /\ \/ rec' = rec /\ answer' = answer
     \/ rec' = rec /\ \E k \in Calls : \E reply \in {"refused", "malformed"} : Hears(k, reply)
     \/ \E k \in Calls :
          /\ Hears(k, AnswerTo(k))
          /\ rec' = IF AnswerTo(k) = "stored" THEN [rec EXCEPT ![target[k]] = "live"] ELSE rec

ByCall == \E k \in Calls : Others(k) /\ Moves(k)

LEMMA StepShape ==
  ASSUME Types, InOrder, Next
  PROVE  /\ Types' /\ UNCHANGED args
         /\ \A i \in attested' : rec'[i] = "live"
         /\ ByDelegator \/ ByWire \/ ByCall
<1>1. CASE DelegatorStep
  BY <1>1, DelegatorMoves DEF ByDelegator
<1>2. CASE WireStep
  BY <1>2, WireMoves DEF ByWire
<1>3. CASE CallStep
  <2>1. PICK k \in Calls : OwnStep(k)
    BY <1>3, OwnSteps
  <2>2. Types' /\ Others(k) /\ Moves(k)
    BY <2>1, OwnStepMoves
  <2>3. QED
    BY <2>2 DEF ByCall, Others, InOrder, service, args
<1>4. QED
  BY <1>1, <1>2, <1>3 DEF Next

\* A settled call stays as it is, and nothing seen is forgotten.
LEMMA StepKeeps ==
  ASSUME TypeOK, InOrder, Next
  PROVE  /\ TypeOK'
         /\ \A k \in Calls : stage[k] = "settled" => stage'[k] = "settled" /\ outcome'[k] = outcome[k]
         /\ \A k \in Calls : seen[k] \subseteq seen'[k]
         /\ \A k \in Calls :
              stage'[k] # "idle" /\ stage[k] # "settled"
                => seen'[k] = seen[k] \cup {Condition(target[k])'}
         /\ \A k \in Calls : stage'[k] = "idle" => seen'[k] = seen[k]
<1>1. Types /\ seen \in [Calls -> SUBSET Conditions]
  BY TypesAre
<1>2. Types' /\ UNCHANGED args /\ (ByDelegator \/ ByWire \/ ByCall)
  BY <1>1, StepShape
<1>3. seen' = [k \in Calls |->
                 IF stage'[k] = "idle" \/ stage[k] = "settled" THEN seen[k]
                 ELSE seen[k] \cup {Condition(target[k])'}]
  BY DEF Next, Observed
<1>4. \A k \in Calls : Condition(target[k])' \in Conditions
  BY <1>2 DEF Types, Condition, Conditions, args
<1>5. seen' \in [Calls -> SUBSET Conditions]
  BY <1>1, <1>3, <1>4
<1>6. TypeOK'
  BY <1>2, <1>5 DEF TypeOK, Types
<1>7. \A k \in Calls : stage[k] = "settled" => stage'[k] = "settled" /\ outcome'[k] = outcome[k]
  BY <1>2 DEF ByDelegator, ByWire, ByCall, Others, Moves, GivesUp, Begins, GoesOn, Concludes, Looks
<1>8. QED
  BY <1>3, <1>6, <1>7

-----------------------------------------------------------------------------
(* Every step keeps the invariant. *)

LEMMA StepInOrder ==
  ASSUME IInv, Next
  PROVE  InOrder'
<1>1. Types /\ TypeOK /\ InOrder
  BY TypesAre DEF IInv
<1>2. Types' /\ (\A i \in attested' : rec'[i] = "live") /\ (ByDelegator \/ ByWire \/ ByCall)
  BY <1>1, StepShape
<1>3. \A k \in Calls : stage'[k] # "settled" => outcome'[k] = "pending"
  BY <1>1, <1>2 DEF InOrder, ByDelegator, ByWire, ByCall, Others, Moves, GivesUp, Begins, GoesOn,
     Concludes, Looks
<1>4. \A k \in Calls : stage'[k] = "idle" => stage[k] = "idle"
  BY <1>1, <1>2 DEF ByDelegator, ByWire, ByCall, Others, Moves, GivesUp, Begins, GoesOn,
     Concludes, Looks
<1>5. \A k \in Calls : stage'[k] = "idle" => seen'[k] = {}
  BY <1>1, <1>4, StepKeeps DEF InOrder
<1>6. \A k \in Calls : stage'[k] \in {"idle", "consent", "signing"} => answer'[k] = "none"
  <2>1. CASE ByDelegator
    BY <1>1, <2>1 DEF InOrder, ByDelegator
  <2>2. CASE ByWire
    BY <1>1, <2>2 DEF InOrder, ByWire, Hears
  <2>3. CASE ByCall
    BY <1>1, <2>3 DEF InOrder, ByCall, Others, Moves, GivesUp, Begins, GoesOn, Concludes, Looks
  <2>4. QED
    BY <1>2, <2>1, <2>2, <2>3
<1>7. \A k \in Calls : stage'[k] \in {"signing", "sent"} => op'[k] # "none"
  BY <1>1, <1>2 DEF InOrder, ByDelegator, ByWire, ByCall, Others, Moves, GivesUp, Begins, GoesOn,
     Concludes, Looks
<1>8. QED
  BY <1>2, <1>3, <1>5, <1>6, <1>7 DEF InOrder

\* An intent becomes known by being stored, without an attestation.
LEMMA BecomesKnown ==
  ASSUME IInv, Next, NEW i \in Intents, rec[i] = "unknown", rec'[i] # "unknown"
  PROVE  Condition(i)' = "unattested"
<1>1. Types /\ InOrder
  BY TypesAre DEF IInv
<1>2. ByDelegator \/ ByWire \/ ByCall
  BY <1>1, StepShape
<1>3. rec' # rec /\ ByWire
  BY <1>2 DEF ByDelegator, ByCall, Others, service
<1>4. PICK k \in Calls :
        rec' = IF AnswerTo(k) = "stored" THEN [rec EXCEPT ![target[k]] = "live"] ELSE rec
  BY <1>3 DEF ByWire
<1>5. rec'[i] = "live"
  BY <1>1, <1>3, <1>4 DEF Types
<1>6. i \notin attested /\ attested' = attested
  BY <1>1, <1>3 DEF InOrder, ByWire
<1>7. QED
  BY <1>5, <1>6 DEF Condition

LEMMA StepSeesPresent ==
  ASSUME IInv, Next
  PROVE  SeesPresent'
<1>1. Types /\ TypeOK /\ InOrder /\ SeesPresent
  BY TypesAre DEF IInv
<1>2. Types' /\ target' = target
  BY <1>1, StepShape DEF args
<1>3. SUFFICES ASSUME NEW k \in Calls, UnderWay(k)'
               PROVE  /\ Condition(target[k])' \in seen'[k]
                      /\ "unknown" \in seen'[k] /\ rec'[target[k]] # "unknown"
                           => "unattested" \in seen'[k]
  BY <1>2 DEF SeesPresent, Condition
<1>4. stage'[k] # "idle" /\ stage[k] # "settled"
  BY <1>1, <1>3, StepKeeps DEF UnderWay
<1>5. seen'[k] = seen[k] \cup {Condition(target[k])'}
  BY <1>1, <1>4, StepKeeps
<1>6. ASSUME "unknown" \in seen'[k], rec'[target[k]] # "unknown"
      PROVE  "unattested" \in seen'[k]
  <2>1. target[k] \in Intents
    BY <1>1 DEF Types
  <2>2. CASE rec[target[k]] = "unknown"
    BY <1>2, <1>5, <1>6, <2>1, <2>2, BecomesKnown DEF Condition
  <2>3. CASE rec[target[k]] # "unknown"
    <3>1. Condition(target[k])' # "unknown"
      BY <1>2, <1>6 DEF Condition
    <3>2. "unknown" \in seen[k]
      BY <1>5, <1>6, <3>1
    <3>3. stage[k] # "idle"
      BY <1>1, <3>2 DEF InOrder
    <3>4. UnderWay(k)
      BY <1>1, <1>4, <3>3 DEF UnderWay, Types
    <3>5. QED
      BY <1>1, <1>5, <2>3, <3>2, <3>4 DEF SeesPresent
  <2>4. QED
    BY <2>2, <2>3
<1>7. QED
  BY <1>5, <1>6

LEMMA StepLooksInto ==
  ASSUME IInv, Next
  PROVE  LooksInto'
<1>1. Types /\ TypeOK /\ InOrder /\ LooksInto /\ AnswersTell
  BY TypesAre DEF IInv
<1>2. Types' /\ UNCHANGED args /\ (ByDelegator \/ ByWire \/ ByCall)
  BY <1>1, StepShape
<1>3. \A k \in Calls : seen[k] \subseteq seen'[k]
  BY <1>1, StepKeeps
<1>4. CASE ByDelegator \/ ByWire
  BY <1>1, <1>2, <1>3, <1>4 DEF LooksInto, ByDelegator, ByWire, args
<1>5. CASE ByCall
  <2>1. PICK k \in Calls : Others(k) /\ Moves(k)
    BY <1>5 DEF ByCall
  <2>2. \A j \in Calls \ {k} :
          stage'[j] \in {"signing", "sent"} /\ op'[j] = "intent" /\ kind'[j] = "getAttestation"
            => auth'[j] = "stranger" \/ seen'[j] \cap {"unknown", "unattested"} # {}
    BY <1>1, <1>2, <1>3, <2>1 DEF LooksInto, Others, args
  <2>3. ASSUME stage'[k] \in {"signing", "sent"}, op'[k] = "intent", kind'[k] = "getAttestation"
        PROVE  auth'[k] = "stranger" \/ seen'[k] \cap {"unknown", "unattested"} # {}
    <3>1. CASE GoesOn(k)
      BY <1>1, <1>2, <1>3, <2>3, <3>1 DEF LooksInto, GoesOn, args
    <3>2. CASE Looks(k)
      BY <1>1, <1>2, <1>3, <2>3, <3>2 DEF AnswersTell, Looks, args
    <3>3. CASE GivesUp(k) \/ Begins(k) \/ Concludes(k)
      BY <1>2, <2>3, <3>3 DEF GivesUp, Begins, Concludes, args
    <3>4. QED
      BY <2>1, <3>1, <3>2, <3>3 DEF Moves
  <2>4. QED
    BY <2>2, <2>3 DEF LooksInto
<1>6. QED
  BY <1>2, <1>4, <1>5

\* The wire's answer tells what the call has seen.
LEMMA AnswerTells ==
  ASSUME IInv, Next, NEW k \in Calls, stage[k] = "sent", UNCHANGED <<args, stage, op, attested>>,
         Hears(k, AnswerTo(k)),
         rec' = IF AnswerTo(k) = "stored" THEN [rec EXCEPT ![target[k]] = "live"] ELSE rec
  PROVE  /\ answer'[k] \in {"stored", "ref"} => op[k] = "submit"
         /\ answer'[k] = "gone" => "gone" \in seen'[k]
         /\ answer'[k] \in {"stored", "ref", "view"}
              => seen'[k] \cap {"attested", "unattested"} # {}
         /\ answer'[k] = "view" /\ op[k] = "attestation" => "attested" \in seen'[k]
         /\ answer'[k] = "view" /\ op[k] = "intent" /\ kind[k] = "getAttestation"
              => "unattested" \in seen'[k]
         /\ answer'[k] = "not_found" /\ op[k] # "attestation"
              => auth[k] = "stranger" \/ "unknown" \in seen'[k]
         /\ answer'[k] = "not_found" /\ op[k] = "attestation"
              => auth[k] = "stranger" \/ seen'[k] \cap {"unknown", "unattested"} # {}
<1>1. Types /\ TypeOK /\ InOrder /\ SeesPresent /\ LooksInto
  BY TypesAre DEF IInv
<1>2. target[k] \in Intents /\ rec[target[k]] \in {"unknown", "live", "gone"}
      /\ auth[k] \in Auths
  BY <1>1 DEF Types
<1>3. seen[k] \subseteq seen'[k] /\ Condition(target[k]) \in seen[k]
  BY <1>1, StepKeeps DEF SeesPresent, UnderWay
<1>4. answer'[k] = AnswerTo(k)
  BY DEF Hears
<1>5. \/ rec[target[k]] = "unknown" /\ Condition(target[k]) = "unknown"
      \/ rec[target[k]] = "gone" /\ Condition(target[k]) = "gone"
      \/ rec[target[k]] = "live" /\ target[k] \in attested
           /\ Condition(target[k]) = "attested"
      \/ rec[target[k]] = "live" /\ target[k] \notin attested
           /\ Condition(target[k]) = "unattested"
  BY <1>2 DEF Condition
<1>6. CASE AnswerTo(k) = "stored"
  <2>1. op[k] = "submit" /\ rec[target[k]] = "unknown"
    BY <1>6 DEF AnswerTo
  <2>2. Condition(target[k])' = "unattested"
    BY <1>1, <1>2, <1>6, <2>1 DEF Condition, InOrder, Types, args
  <2>3. Condition(target[k])' \in seen'[k]
    <3>1. stage'[k] # "idle" /\ stage[k] # "settled"
      OBVIOUS
    <3>2. QED
      BY <1>1, <3>1, StepKeeps
  <2>4. QED
    BY <1>4, <1>6, <2>1, <2>2, <2>3
<1>7. CASE AnswerTo(k) = "view"
  <2>1. rec[target[k]] = "live" /\ auth[k] = "reader"
        /\ (op[k] = "attestation" => target[k] \in attested)
    BY <1>2, <1>7 DEF AnswerTo, Auths
  <2>2. Condition(target[k]) \in {"attested", "unattested"}
        /\ (op[k] = "attestation" => Condition(target[k]) = "attested")
    BY <1>5, <2>1
  <2>3. op[k] = "intent" /\ kind[k] = "getAttestation" => "unattested" \in seen[k]
    BY <1>1, <2>1 DEF LooksInto, SeesPresent, UnderWay
  <2>4. QED
    BY <1>3, <1>4, <1>7, <2>2, <2>3
<1>8. CASE AnswerTo(k) = "ref"
  <2>1. op[k] = "submit" /\ rec[target[k]] = "live"
    BY <1>2, <1>8 DEF AnswerTo
  <2>2. QED
    BY <1>3, <1>4, <1>5, <1>8, <2>1
<1>9. CASE AnswerTo(k) = "gone"
  <2>1. rec[target[k]] = "gone"
    BY <1>9 DEF AnswerTo
  <2>2. QED
    BY <1>3, <1>4, <1>5, <1>9, <2>1
<1>10. CASE AnswerTo(k) = "not_found"
  <2>1. \/ auth[k] = "stranger" \/ rec[target[k]] = "unknown"
        \/ op[k] = "attestation" /\ rec[target[k]] = "live" /\ target[k] \notin attested
    BY <1>2, <1>10 DEF AnswerTo
  <2>2. QED
    BY <1>3, <1>4, <1>5, <1>10, <2>1
<1>11. CASE AnswerTo(k) = "refused"
  BY <1>4, <1>11
<1>12. QED
  BY <1>6, <1>7, <1>8, <1>9, <1>10, <1>11, AnswerToTypes

LEMMA StepAnswersTell ==
  ASSUME IInv, Next
  PROVE  AnswersTell'
<1>1. Types /\ TypeOK /\ InOrder /\ AnswersTell
  BY TypesAre DEF IInv
<1>2. Types' /\ UNCHANGED args /\ (ByDelegator \/ ByWire \/ ByCall)
  BY <1>1, StepShape
<1>3. \A k \in Calls : seen[k] \subseteq seen'[k]
  BY <1>1, StepKeeps
<1>4. SUFFICES ASSUME NEW k \in Calls, stage'[k] = "sent"
      PROVE  /\ answer'[k] \in {"stored", "ref"} => op'[k] = "submit"
             /\ answer'[k] = "gone" => "gone" \in seen'[k]
             /\ answer'[k] \in {"stored", "ref", "view"}
                  => seen'[k] \cap {"attested", "unattested"} # {}
             /\ answer'[k] = "view" /\ op'[k] = "attestation" => "attested" \in seen'[k]
             /\ answer'[k] = "view" /\ op'[k] = "intent" /\ kind[k] = "getAttestation"
                  => "unattested" \in seen'[k]
             /\ answer'[k] = "not_found" /\ op'[k] # "attestation"
                  => auth[k] = "stranger" \/ "unknown" \in seen'[k]
             /\ answer'[k] = "not_found" /\ op'[k] = "attestation"
                  => auth[k] = "stranger" \/ seen'[k] \cap {"unknown", "unattested"} # {}
  BY <1>2 DEF AnswersTell, args
<1>5. CASE answer'[k] \in {"none", "refused", "malformed"}
  BY <1>5
<1>6. CASE stage[k] = "sent" /\ answer'[k] = answer[k] /\ op'[k] = op[k]
  BY <1>1, <1>3, <1>6 DEF AnswersTell
<1>7. CASE ByDelegator
  BY <1>4, <1>6, <1>7 DEF ByDelegator
<1>8. CASE ByWire
  <2>1. stage[k] = "sent" /\ stage' = stage /\ attested' = attested /\ op' = op
    BY <1>4, <1>8 DEF ByWire
  <2>2. CASE answer'[k] = answer[k]
    BY <1>6, <2>1, <2>2
  <2>3. CASE \E reply \in {"refused", "malformed"} : Hears(k, reply)
    BY <1>5, <2>1, <2>3 DEF Hears
  <2>4. CASE /\ Hears(k, AnswerTo(k))
             /\ rec' = IF AnswerTo(k) = "stored" THEN [rec EXCEPT ![target[k]] = "live"] ELSE rec
    BY <1>2, <2>1, <2>4, AnswerTells
  <2>5. QED
    BY <1>8, <2>2, <2>3, <2>4 DEF ByWire, Hears
<1>9. CASE ByCall
  BY <1>1, <1>4, <1>5, <1>6, <1>9 DEF InOrder, ByCall, Others, Moves, GivesUp, Begins, GoesOn,
     Concludes, Looks
<1>10. QED
  BY <1>2, <1>7, <1>8, <1>9

\* The one that is told `created` is the one whose submission stored the intent.
LEMMA StepOneCreator ==
  ASSUME IInv, Next
  PROVE  OneCreator'
<1>1. Types /\ TypeOK /\ InOrder /\ OneCreator /\ AnswersTell
  BY TypesAre DEF IInv
<1>2. Types' /\ UNCHANGED args /\ (ByDelegator \/ ByWire \/ ByCall)
  BY <1>1, StepShape
<1>3. CASE ByDelegator
  <2>1. \A k \in Calls : Creator(k)' <=> Creator(k)
    BY <1>3 DEF ByDelegator, Creator
  <2>2. QED
    BY <1>1, <1>2, <1>3, <2>1 DEF OneCreator, ByDelegator, Types, args
<1>4. CASE ByWire
  <2>1. CASE rec' = rec /\ \A k \in Calls : Creator(k)' => Creator(k)
    BY <1>1, <1>2, <2>1 DEF OneCreator, args
  <2>2. CASE rec' = rec /\ answer' = answer
    BY <1>4, <2>1, <2>2 DEF ByWire, Creator
  <2>3. CASE rec' = rec /\ \E k \in Calls : \E reply \in {"refused", "malformed"} : Hears(k, reply)
    BY <1>4, <2>1, <2>3 DEF ByWire, Creator, Hears
  <2>4. ASSUME NEW k \in Calls, Hears(k, AnswerTo(k)),
               rec' = IF AnswerTo(k) = "stored" THEN [rec EXCEPT ![target[k]] = "live"] ELSE rec
        PROVE  OneCreator'
    <3>1. CASE AnswerTo(k) # "stored"
      BY <1>4, <2>1, <2>4, <3>1 DEF ByWire, Creator, Hears
    <3>2. CASE AnswerTo(k) = "stored"
      <4>1. rec[target[k]] = "unknown" /\ rec' = [rec EXCEPT ![target[k]] = "live"]
        BY <2>4, <3>2 DEF AnswerTo
      <4>2. \A j \in Calls : Creator(j) => target[j] # target[k]
        BY <1>1, <4>1 DEF OneCreator
      <4>3. \A j \in Calls \ {k} : Creator(j)' <=> Creator(j)
        BY <1>4, <2>4 DEF ByWire, Hears, Creator
      <4>4. \A j \in Calls : rec[target[j]] # "unknown" => rec'[target[j]] # "unknown"
        BY <1>1, <4>1 DEF Types
      <4>5. rec'[target[k]] # "unknown"
        BY <1>1, <4>1 DEF Types
      <4>6. \A j \in Calls : Creator(j)' => rec'[target[j]] # "unknown"
        BY <1>1, <4>3, <4>4, <4>5 DEF OneCreator
      <4>7. \A i, j \in Calls : Creator(i)' /\ Creator(j)' /\ target[i] = target[j] => i = j
        BY <1>1, <4>2, <4>3 DEF OneCreator
      <4>8. QED
        BY <1>2, <4>6, <4>7 DEF OneCreator, args
    <3>3. QED
      BY <3>1, <3>2
  <2>5. QED
    BY <1>4, <2>2, <2>3, <2>4 DEF ByWire
<1>5. CASE ByCall
  <2>1. PICK k \in Calls : Others(k) /\ Moves(k)
    BY <1>5 DEF ByCall
  <2>2. \A j \in Calls \ {k} : Creator(j)' <=> Creator(j)
    BY <2>1 DEF Others, Creator
  <2>3. Creator(k)' => Creator(k)
    <3>1. CASE Concludes(k)
      <4>1. ASSUME outcome'[k] = "created"
            PROVE  answer[k] = "stored"
        <5>1. ~IsError(answer[k]) /\ Resolved(k) = "created"
          BY <3>1, <4>1 DEF Concludes, IsError
        <5>2. QED
          BY <5>1 DEF Resolved, Submitted
      <4>2. QED
        BY <3>1, <4>1 DEF Concludes, Creator
    <3>2. CASE GivesUp(k) \/ Begins(k) \/ GoesOn(k) \/ Looks(k)
      BY <1>1, <3>2 DEF InOrder, GivesUp, Begins, GoesOn, Looks, Creator
    <3>3. QED
      BY <2>1, <3>1, <3>2 DEF Moves
  <2>4. rec' = rec
    BY <2>1 DEF Others, service
  <2>5. QED
    BY <1>1, <1>2, <2>2, <2>3, <2>4 DEF OneCreator, args
<1>6. QED
  BY <1>2, <1>3, <1>4, <1>5

LEMMA OneCreatorCreates == OneCreator => CreatedOnce
BY DEF OneCreator, CreatedOnce, Creator

\* What a call concludes, its answer has told.
LEMMA StepAnswersHeld ==
  ASSUME IInv, Next
  PROVE  AnswersHeld'
<1>1. Types /\ TypeOK /\ InOrder /\ AnswersTell /\ AnswersHeld
  BY TypesAre DEF IInv
<1>2. Types' /\ UNCHANGED args /\ (ByDelegator \/ ByWire \/ ByCall)
  BY <1>1, StepShape
<1>3. \A k \in Calls : seen[k] \subseteq seen'[k]
  BY <1>1, StepKeeps
<1>4. \A k \in Calls : outcome'[k] = outcome[k] =>
        /\ outcome'[k] = "none_yet" => "unattested" \in seen'[k]
        /\ outcome'[k] = "attestation" => "attested" \in seen'[k]
        /\ outcome'[k] = "not_found" => auth[k] = "stranger" \/ "unknown" \in seen'[k]
        /\ outcome'[k] = "gone" => "gone" \in seen'[k]
        /\ outcome'[k] \in {"created", "existing", "intent"}
             => seen'[k] \cap {"attested", "unattested"} # {}
  BY <1>1, <1>3 DEF AnswersHeld
<1>5. \A k \in Calls : Concludes(k) =>
        /\ outcome'[k] = "none_yet" => "unattested" \in seen'[k]
        /\ outcome'[k] = "attestation" => "attested" \in seen'[k]
        /\ outcome'[k] = "not_found" => auth[k] = "stranger" \/ "unknown" \in seen'[k]
        /\ outcome'[k] = "gone" => "gone" \in seen'[k]
        /\ outcome'[k] \in {"created", "existing", "intent"}
             => seen'[k] \cap {"attested", "unattested"} # {}
  <2>1. SUFFICES ASSUME NEW k \in Calls, Concludes(k)
        PROVE  /\ outcome'[k] = "none_yet" => "unattested" \in seen[k]
               /\ outcome'[k] = "attestation" => "attested" \in seen[k]
               /\ outcome'[k] = "not_found" => auth[k] = "stranger" \/ "unknown" \in seen[k]
               /\ outcome'[k] = "gone" => "gone" \in seen[k]
               /\ outcome'[k] \in {"created", "existing", "intent"}
                    => seen[k] \cap {"attested", "unattested"} # {}
    BY <1>3
  <2>2. stage[k] = "sent" /\ answer[k] # "none"
    BY <2>1 DEF Concludes
  <2>3. CASE IsError(answer[k]) /\ outcome'[k] = answer[k]
    BY <1>1, <2>1, <2>2, <2>3 DEF AnswersTell, Concludes, IsError
  <2>4. CASE ~IsError(answer[k]) /\ outcome'[k] = Resolved(k)
    <3>1. answer[k] \in {"stored", "ref", "view"}
      BY <1>1, <2>2, <2>4 DEF Types, Answers, IsError
    <3>2. seen[k] \cap {"attested", "unattested"} # {}
      BY <1>1, <2>2, <3>1 DEF AnswersTell
    <3>3. CASE op[k] = "submit"
      BY <2>4, <3>2, <3>3 DEF Resolved, Submitted
    <3>4. CASE op[k] = "attestation"
      <4>1. answer[k] = "view" /\ outcome'[k] = "attestation"
        BY <1>1, <2>2, <2>4, <3>1, <3>4 DEF AnswersTell, Resolved
      <4>2. QED
        BY <1>1, <2>2, <3>4, <4>1 DEF AnswersTell
    <3>5. CASE op[k] = "intent"
      <4>1. answer[k] = "view"
        BY <1>1, <2>2, <3>1, <3>5 DEF AnswersTell
      <4>2. outcome'[k] = IF kind[k] = "getAttestation" THEN "none_yet" ELSE "intent"
        BY <2>4, <3>5 DEF Resolved
      <4>3. kind[k] = "getAttestation" => "unattested" \in seen[k]
        BY <1>1, <2>2, <3>5, <4>1 DEF AnswersTell
      <4>4. QED
        BY <3>2, <4>2, <4>3
    <3>6. QED
      BY <1>1, <2>2, <3>3, <3>4, <3>5 DEF Types, InOrder
  <2>5. QED
    BY <2>1, <2>3, <2>4 DEF Concludes
<1>6. \A k \in Calls :
        \/ outcome'[k] = outcome[k]
        \/ Concludes(k)
        \/ outcome'[k] \in {"aborted", "sign_error", "network"}
  BY <1>2 DEF ByDelegator, ByWire, ByCall, Others, Moves, GivesUp, Begins, GoesOn, Looks
<1>7. QED
  BY <1>2, <1>4, <1>5, <1>6 DEF AnswersHeld, args

-----------------------------------------------------------------------------
(* The theorems. *)

LEMMA InitIInv == Init => IInv
<1>1. SUFFICES ASSUME Init
               PROVE  IInv
  OBVIOUS
<1>2. /\ rec = [i \in Intents |-> "unknown"] /\ attested = {} /\ wire = {}
      /\ kind \in [Calls -> Kinds] /\ target \in [Calls -> Intents] /\ auth \in [Calls -> Auths]
      /\ honours \in BOOLEAN
      /\ aborted = [k \in Calls |-> FALSE]
      /\ stage = [k \in Calls |-> "idle"] /\ op = [k \in Calls |-> "none"]
      /\ answer = [k \in Calls |-> "none"] /\ outcome = [k \in Calls |-> "pending"]
      /\ seen = [k \in Calls |-> {}]
  BY <1>1 DEF Init
<1>3. TypeOK
  <2>1. Types
    BY <1>2 DEF Types
  <2>2. QED
    BY <1>2, <2>1, TypesAre
<1>4. \A k \in Calls :
        stage[k] = "idle" /\ outcome[k] = "pending" /\ answer[k] = "none" /\ seen[k] = {}
  BY <1>2
<1>5. InOrder /\ SeesPresent /\ LooksInto /\ AnswersTell
  BY <1>2, <1>4 DEF InOrder, SeesPresent, LooksInto, AnswersTell, UnderWay
<1>6. AnswersHeld /\ OneCreator
  BY <1>4 DEF AnswersHeld, OneCreator, Creator
<1>7. QED
  BY <1>3, <1>5, <1>6, OneCreatorCreates DEF IInv

LEMMA StepIInv == IInv /\ [Next]_vars => IInv'
<1>1. ASSUME IInv, Next
      PROVE  IInv'
  <2>1. TypeOK'
    BY <1>1, StepKeeps DEF IInv
  <2>2. InOrder' /\ OneCreator' /\ SeesPresent' /\ LooksInto' /\ AnswersTell' /\ AnswersHeld'
    BY <1>1, StepInOrder, StepOneCreator, StepSeesPresent, StepLooksInto, StepAnswersTell,
       StepAnswersHeld
  <2>3. CreatedOnce'
    BY <2>2 DEF OneCreator, CreatedOnce, Creator
  <2>4. QED
    BY <2>1, <2>2, <2>3 DEF IInv
<1>2. ASSUME IInv, UNCHANGED vars
      PROVE  IInv'
  <2>1. UNCHANGED <<rec, attested, wire, kind, target, auth, honours, aborted, stage, op, answer,
                    outcome, seen>>
    BY <1>2 DEF vars, service, args
  <2>2. TypeOK' /\ InOrder' /\ LooksInto' /\ AnswersTell' /\ AnswersHeld' /\ CreatedOnce'
    BY <1>2, <2>1 DEF IInv, TypeOK, InOrder, LooksInto, AnswersTell, AnswersHeld, CreatedOnce
  <2>3. OneCreator' /\ SeesPresent'
    BY <1>2, <2>1 DEF IInv, OneCreator, Creator, SeesPresent, UnderWay, Condition
  <2>4. QED
    BY <2>2, <2>3 DEF IInv
<1>3. QED
  BY <1>1, <1>2

\* The inductive invariant holds of every state the calls of a client and the delegator can
\* be in together (index.ts:260-379).
THEOREM Invariance == Spec => []IInv
BY InitIInv, StepIInv, PTL DEF Spec

\* Every variable keeps its type: a call is at one of the stages of `request`
\* (index.ts:260-307) and settles with a result or an error of its methods.
THEOREM TypeInvariant == Spec => []TypeOK
<1>1. IInv => TypeOK
  BY DEF IInv
<1>2. QED
  BY <1>1, Invariance, PTL

\* Any number of submissions of one signed intent, each of them failing or retried anyhow,
\* have `created` answered at most once (index.ts:327-331).
THEOREM CreatedOnlyOnce == Spec => []CreatedOnce
<1>1. IInv => CreatedOnce
  BY DEF IInv
<1>2. QED
  BY <1>1, Invariance, PTL

\* What a call answers was so at some moment of the call, for getAttestation too, which
\* reads the intent after a 404 of its attestation (index.ts:358-379).
THEOREM AnswersAreTrue == Spec => []AnswersHeld
<1>1. IInv => AnswersHeld
  BY DEF IInv
<1>2. QED
  BY <1>1, Invariance, PTL

\* An aborted call asks for no further signature and never resolves, whatever its fetch
\* makes of the signal (index.ts:260-261, 280-281).
THEOREM AbortsAreHeeded == Spec => AbortIsHeeded
<1>1. ASSUME IInv, [Next]_vars
      PROVE  \A k \in Calls : aborted[k] =>
               /\ stage[k] # "signing" => stage'[k] # "signing"
               /\ outcome[k] = "pending" => outcome'[k] \notin Results
  <2>1. Types /\ InOrder
    BY <1>1, TypesAre DEF IInv
  <2>2. CASE UNCHANGED vars
    BY <2>2 DEF vars, Results
  <2>3. CASE Next
    <3>1. ByDelegator \/ ByWire \/ ByCall
      BY <2>1, <2>3, StepShape
    <3>2. CASE ByDelegator \/ ByWire
      BY <3>2 DEF ByDelegator, ByWire, Results
    <3>3. CASE ByCall
      BY <3>3 DEF ByCall, Others, Moves, GivesUp, Begins, GoesOn, Concludes, Looks, Results
    <3>4. QED
      BY <3>1, <3>2, <3>3
  <2>4. QED
    BY <1>1, <2>2, <2>3
<1>2. IInv /\ [Next]_vars
        => \A k \in Calls : aborted[k] =>
             /\ stage[k] # "signing" => stage'[k] # "signing"
             /\ outcome[k] = "pending" => outcome'[k] \notin Results
  BY <1>1
<1>3. QED
  BY <1>2, Invariance, PTL DEF Spec, AbortIsHeeded
=============================================================================
