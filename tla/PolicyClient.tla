---------------------------- MODULE PolicyClient ----------------------------
(***************************************************************************)
(* The calls that read and write one NewtonPolicyClient contract           *)
(* (src/modules/policy/index.ts, the delegation surface of                 *)
(* src/modules/delegator/index.ts): replacements of its policy set and the *)
(* prediction of their ids, and the delegators it takes on and loses.      *)
(*                                                                         *)
(* The contract is external.  A transaction is mined at some later time,   *)
(* after any others, and the contract may revert it for reasons of its     *)
(* own; the user of a wallet may cancel it by another one.  Every read is  *)
(* of the latest block.                                                    *)
(***************************************************************************)
EXTENDS Integers, Sequences

CONSTANTS
  Calls,        \* the calls made
  Wallets,      \* the accounts they are made with
  Sets,         \* policy sets: ordered lists of policies and their configurations
  Asked,        \* what the calls may be, together: functions from Calls to Requests
  MaxRevision,  \* bound: replacements of the set
  MaxNonce      \* bound: nonces of a delegator

\* read stands for each call that is one contract read and tells no id, initialize for each
\* that is one write and touches neither sets nor delegators.
Kinds ==
  {"setPolicies", "getPolicySetSnapshot", "precomputePolicyId", "signDelegatorApproval",
   "approveDelegator", "removeDelegator", "resignDelegator", "read", "initialize"}

Default == -1

\* nonce: the one given, or Default.  approval: the call that signed what approveDelegator
\* submits.  delegator: whom removeDelegator removes.
Requests ==
  [kind : Kinds, by : Wallets, set : Sets, nonce : 0..MaxNonce \cup {Default},
   approval : Calls, delegator : Wallets]

ASSUME PolicyClientAssumption ==
  /\ Asked \subseteq [Calls -> Requests] /\ MaxRevision \in Nat /\ MaxNonce \in Nat

VARIABLES
  owner,       \* the contract's owner
  sets,        \* its policy sets so far; the set of revision i is sets[i]
  delegators,  \* its delegators
  nonces,      \* wallet -> its delegatorNonces
  mempool,     \* the calls whose transaction is on its way
  receipt,     \* call -> what has become of its transaction
  minedAt,     \* call -> the revision after its transaction
  asked,       \* call -> what it is
  stage,       \* call -> where it is
  outcome,     \* call -> what its promise settled with
  seen,        \* call -> the nonce or revision it has read or was given
  answer,      \* call -> the policy id it answers
  void         \* the approvals whose nonce was there when their signer resigned

contract == <<owner, sets, delegators, nonces>>
chain == <<contract, mempool, receipt, minedAt>>
vars == <<chain, asked, stage, outcome, seen, answer, void>>

\* An id commits to the revision and the set, and names no other.
Ids == [revision : 0..MaxRevision + 1, set : Sets \cup {"none"}]

NoId == [revision |-> 0, set |-> "none"]

\* The id that the contract gives its set of revision i.
IdAt(i) == [revision |-> i, set |-> sets[i]]

\* What getPolicySetSnapshot reads.
Snapshot == IF sets = <<>> THEN NoId ELSE IdAt(Len(sets))

TypeOK ==
  /\ owner \in Wallets /\ delegators \subseteq Wallets
  /\ sets \in Seq(Sets) /\ Len(sets) <= MaxRevision
  /\ nonces \in [Wallets -> 0..MaxNonce]
  /\ mempool \subseteq Calls
  /\ receipt \in [Calls -> {"none", "success", "reverted", "replaced"}]
  /\ minedAt \in [Calls -> 0..MaxRevision]
  /\ asked \in [Calls -> Requests]
  /\ stage \in [Calls -> {"idle", "reading", "prompt", "receipt", "snapshot", "settled"}]
  /\ outcome \in [Calls -> {"pending", "resolved", "failed"}]
  /\ seen \in [Calls -> Nat \cup {Default}]
  /\ answer \in [Calls -> Ids]
  /\ void \subseteq Calls

Init ==
  /\ owner \in Wallets /\ sets = <<>> /\ delegators = {} /\ nonces = [w \in Wallets |-> 0]
  /\ mempool = {} /\ receipt = [k \in Calls |-> "none"] /\ minedAt = [k \in Calls |-> 0]
  /\ asked \in Asked
  /\ stage = [k \in Calls |-> "idle"] /\ outcome = [k \in Calls |-> "pending"]
  /\ seen = [k \in Calls |-> Default] /\ answer = [k \in Calls |-> NoId] /\ void = {}

-----------------------------------------------------------------------------
(* The contract. *)

\* An approval is good for its signer's nonce, once.
Approved(s, w) == outcome[s] = "resolved" /\ asked[s].by = w /\ seen[s] = nonces[w]

Bump(w) == nonces[w] < MaxNonce /\ nonces' = [nonces EXCEPT ![w] = @ + 1]

Replaces(k) ==
  /\ asked[k].kind = "setPolicies" /\ asked[k].by = owner /\ Len(sets) < MaxRevision
  /\ sets' = Append(sets, asked[k].set)
  /\ UNCHANGED <<owner, delegators, nonces, void>>

Approves(k) ==
  LET s == asked[k].approval
      w == asked[s].by
  IN  /\ asked[k].kind = "approveDelegator" /\ asked[k].by = owner
      /\ Approved(s, w)
      /\ delegators' = delegators \cup {w} /\ Bump(w)
      /\ UNCHANGED <<owner, sets, void>>

\* Whether a removal uses up a nonce is the contract's affair.
Removes(k) ==
  /\ asked[k].kind = "removeDelegator" /\ asked[k].by = owner
  /\ delegators' = delegators \ {asked[k].delegator}
  /\ Bump(asked[k].delegator) \/ UNCHANGED nonces
  /\ UNCHANGED <<owner, sets, void>>

\* "Removes the caller and voids its unused approvals" (sdk-reference.mdx).
Resigns(k) ==
  LET w == asked[k].by
  IN  /\ asked[k].kind = "resignDelegator"
      /\ delegators' = delegators \ {w} /\ Bump(w)
      /\ void' = void \cup {s \in Calls : asked[s].kind = "signDelegatorApproval"
                               /\ asked[s].by = w /\ asked[s].nonce = Default /\ seen[s] # Default}
      /\ UNCHANGED <<owner, sets>>

\* A write that touches nothing of this.
Idles(k) == asked[k].kind = "initialize" /\ UNCHANGED <<contract, void>>

Mined(k, how) ==
  /\ k \in mempool
  /\ mempool' = mempool \ {k} /\ receipt' = [receipt EXCEPT ![k] = how]
  /\ minedAt' = [minedAt EXCEPT ![k] = Len(sets')]
  /\ UNCHANGED <<asked, stage, outcome, seen, answer>>

Mines(k) ==
  (Replaces(k) \/ Approves(k) \/ Removes(k) \/ Resigns(k) \/ Idles(k)) /\ Mined(k, "success")

\* It reverts, or its user replaces it by another transaction of the same wallet.
Fails(k) ==
  /\ UNCHANGED <<contract, void>>
  /\ \E how \in {"reverted", "replaced"} : Mined(k, how)

\* The owner hands the contract on.
HandsOn(w) ==
  /\ w # owner /\ owner' = w
  /\ UNCHANGED <<sets, delegators, nonces, mempool, receipt, minedAt, asked, stage, outcome,
                 seen, answer, void>>

-----------------------------------------------------------------------------
(* The calls. *)

Settle(k, how) ==
  /\ stage' = [stage EXCEPT ![k] = "settled"]
  /\ outcome' = [outcome EXCEPT ![k] = how]

Goes(k, to) == stage' = [stage EXCEPT ![k] = to] /\ UNCHANGED outcome

Writes == {"approveDelegator", "removeDelegator", "resignDelegator", "initialize"}

\* No account, no chain, a node that does not answer.
Breaks(k) ==
  /\ stage[k] \in {"idle", "reading", "receipt", "snapshot"}
  /\ Settle(k, "failed")
  /\ UNCHANGED <<chain, asked, seen, answer, void>>

\* setPolicies is tried on the latest block first; a set the contract would not take now
\* throws.
Simulates(k) ==
  /\ stage[k] = "idle" /\ asked[k].kind = "setPolicies"
  /\ \/ asked[k].by = owner /\ Goes(k, "prompt")
     \/ Settle(k, "failed")
  /\ UNCHANGED <<chain, asked, seen, answer, void>>

\* The other writes go to the wallet as they are; approveDelegator with an approval that has
\* been signed.
Write(k) ==
  /\ stage[k] = "idle" /\ asked[k].kind \in Writes
  /\ asked[k].kind = "approveDelegator" => outcome[asked[k].approval] = "resolved"
  /\ Goes(k, "prompt")
  /\ UNCHANGED <<chain, asked, seen, answer, void>>

\* writeContract: setPolicies waits for its receipt, the others answer with the hash.
AfterSending_Reads(k) == IF asked[k].kind = "setPolicies" THEN "snapshot" ELSE "settled"

AfterSending(k) == IF asked[k].kind = "setPolicies" THEN "receipt" ELSE "settled"

Sends(k) ==
  /\ stage[k] = "prompt" /\ asked[k].kind # "signDelegatorApproval"
  /\ mempool' = mempool \cup {k}
  /\ stage' = [stage EXCEPT ![k] = AfterSending(k)]
  /\ outcome' = [outcome EXCEPT ![k] = IF AfterSending(k) = "settled" THEN "resolved" ELSE @]
  /\ UNCHANGED <<contract, receipt, minedAt, asked, seen, answer, void>>

\* Its user refuses, or the wallet sends it and cannot say so.
SendFails(k) ==
  /\ stage[k] = "prompt"
  /\ Settle(k, "failed")
  /\ \/ UNCHANGED mempool
     \/ asked[k].kind # "signDelegatorApproval" /\ mempool' = mempool \cup {k}
  /\ UNCHANGED <<contract, receipt, minedAt, asked, seen, answer, void>>

\* waitForTransactionReceipt, whose status nobody looks at: of the transaction, or of the one
\* that has replaced it.
Receives(k) ==
  /\ stage[k] = "receipt" /\ receipt[k] # "none"
  /\ Goes(k, "snapshot")
  /\ UNCHANGED <<chain, asked, seen, answer, void>>

Answers(k, id) == answer' = [answer EXCEPT ![k] = id] /\ Settle(k, "resolved")

\* getPolicySetSnapshot, of setPolicies and by itself.
Reads(k) ==
  /\ stage[k] = "snapshot" \/ (stage[k] = "idle" /\ asked[k].kind = "getPolicySetSnapshot")
  /\ Answers(k, Snapshot)
  /\ UNCHANGED <<chain, asked, seen, void>>

\* Any other read.
ReadContract(k) ==
  /\ stage[k] = "idle" /\ asked[k].kind = "read"
  /\ Settle(k, "resolved")
  /\ UNCHANGED <<chain, asked, seen, answer, void>>

\* "the client's current policyRevision() plus one when predicting a pending setPolicies"
Predicted(revision, set) == [revision |-> revision + 1, set |-> set]

\* policyRevision, and precomputePolicyId of what it has answered.
Predicts(k) ==
  /\ stage[k] = "idle" /\ asked[k].kind = "precomputePolicyId"
  /\ seen' = [seen EXCEPT ![k] = Len(sets)]
  /\ Answers(k, Predicted(Len(sets), asked[k].set))
  /\ UNCHANGED <<chain, asked, void>>

\* signDelegatorApproval, with the nonce it is given or one that it has to read.
SignDelegatorApproval(k) ==
  /\ stage[k] = "idle" /\ asked[k].kind = "signDelegatorApproval"
  /\ seen' = [seen EXCEPT ![k] = asked[k].nonce]
  /\ Goes(k, IF asked[k].nonce = Default THEN "reading" ELSE "prompt")
  /\ UNCHANGED <<chain, asked, answer, void>>

\* The nonce after the present one.
DefaultNonce_Next(w) == nonces[w] + 1

\* delegatorNonces(signer)
DefaultNonce(w) == nonces[w]

ReadsNonce(k) ==
  /\ stage[k] = "reading"
  /\ seen' = [seen EXCEPT ![k] = DefaultNonce(asked[k].by)]
  /\ Goes(k, "prompt")
  /\ UNCHANGED <<chain, asked, answer, void>>

\* The wallet signs, whenever its user gets to it.
Signs(k) ==
  /\ stage[k] = "prompt" /\ asked[k].kind = "signDelegatorApproval"
  /\ Settle(k, "resolved")
  /\ UNCHANGED <<chain, asked, seen, answer, void>>

-----------------------------------------------------------------------------
Next ==
  \/ \E k \in Calls :
       \/ Mines(k) \/ Fails(k)
       \/ Breaks(k) \/ Simulates(k) \/ Write(k) \/ Sends(k) \/ SendFails(k) \/ Receives(k)
       \/ Reads(k) \/ ReadContract(k) \/ Predicts(k)
       \/ SignDelegatorApproval(k) \/ ReadsNonce(k) \/ Signs(k)
  \/ \E w \in Wallets : HandsOn(w)

Spec == Init /\ [][Next]_vars

-----------------------------------------------------------------------------
(* Properties. *)

\* A setPolicies that resolves never answers with the id of a set from before its own, and
\* with its own revision only for its own set (policy/index.ts:690-693).  A prediction comes
\* true if the next replacement is of the predicted set, and names no other set, however many
\* replacements there are (policy/index.ts:427-428).
IdsAreTrue ==
  \A k \in Calls :
    /\ asked[k].kind = "setPolicies" /\ outcome[k] = "resolved" =>
         /\ answer[k].revision >= minedAt[k]
         /\ receipt[k] = "success" =>
              /\ minedAt[k] \in 1..Len(sets)
              /\ answer[k].revision = minedAt[k] => answer[k].set = asked[k].set
    /\ asked[k].kind = "precomputePolicyId" /\ outcome[k] = "resolved" =>
         \A i \in 1..Len(sets) : answer[k] = IdAt(i) <=> i = seen[k] + 1 /\ sets[i] = asked[k].set

\* "resignDelegator also invalidates any approvals the delegator signed but nobody submitted"
\* (delegated-intents.mdx): an approval with the default nonce, also one that is in front of
\* its user when the resignation is mined, never brings its signer back.
ResignationHolds ==
  [][\A k \in Calls : asked[k].kind = "approveDelegator" /\ asked[k].approval \in void =>
       ~(receipt[k] = "none" /\ receipt'[k] = "success")]_vars

-----------------------------------------------------------------------------
(* The inductive invariant. *)

\* Who has not been asked has done nothing, and who waits for a snapshot has a receipt.
InOrder ==
  \A k \in Calls :
    /\ stage[k] # "settled" => outcome[k] = "pending"
    /\ stage[k] \in {"idle", "reading"} => seen[k] = Default
    /\ stage[k] \in {"idle", "reading", "prompt"} => k \notin mempool /\ receipt[k] = "none"
    /\ stage[k] = "receipt" => k \in mempool \/ receipt[k] # "none"
    /\ k \in mempool => receipt[k] = "none"
    /\ stage[k] \in {"receipt", "snapshot"} => asked[k].kind = "setPolicies"
    /\ stage[k] = "reading" => asked[k].kind = "signDelegatorApproval"
    /\ stage[k] = "prompt" => asked[k].kind # "precomputePolicyId"
    /\ asked[k].kind = "setPolicies" =>
         (stage[k] = "snapshot" \/ outcome[k] = "resolved" => receipt[k] # "none")

\* What a receipt tells of the contract.
ReceiptsAreTrue ==
  \A k \in Calls :
    /\ minedAt[k] <= Len(sets)
    /\ asked[k].kind = "setPolicies" /\ receipt[k] = "success" =>
         minedAt[k] \in 1..Len(sets) /\ sets[minedAt[k]] = asked[k].set

\* A voided approval's nonce has been used up.
VoidIsVoid == \A s \in void : seen[s] # Default /\ seen[s] < nonces[asked[s].by]

\* A default nonce is never ahead.
NotAhead ==
  \A s \in Calls :
    asked[s].kind = "signDelegatorApproval" /\ asked[s].nonce = Default =>
      seen[s] <= nonces[asked[s].by]

\* A prediction is of the revision that its caller has read.
PredictionsStand ==
  \A k \in Calls : asked[k].kind = "precomputePolicyId" /\ outcome[k] = "resolved" =>
    answer[k] = Predicted(seen[k], asked[k].set)

IInv ==
  /\ TypeOK /\ InOrder /\ ReceiptsAreTrue /\ NotAhead /\ VoidIsVoid
  /\ IdsAreTrue /\ PredictionsStand
=============================================================================
