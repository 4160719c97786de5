------------------------- MODULE PolicyClientProofs -------------------------
(***************************************************************************)
(* PolicyClient for any calls, wallets and policy sets: the inductive      *)
(* invariant IInv, the truth of the ids that calls answer, and the         *)
(* finality of a resignation.                                              *)
(***************************************************************************)
EXTENDS PolicyClient, TLAPS

\* The steps of a call that leave the chain to itself, but for what Sends and SendFails put on
\* its way.
CallStep(k) ==
  \/ Breaks(k) \/ Simulates(k) \/ Write(k) \/ Sends(k) \/ SendFails(k) \/ Receives(k)
  \/ Reads(k) \/ ReadContract(k) \/ Predicts(k)
  \/ SignDelegatorApproval(k) \/ ReadsNonce(k) \/ Signs(k)

\* Every step is of the chain, of a call, or of the owner.
LEMMA NextSteps ==
  ASSUME [Next]_vars
  PROVE  \/ \E k \in Calls : Mines(k) \/ Fails(k) \/ CallStep(k)
         \/ \E w \in Wallets : HandsOn(w)
         \/ UNCHANGED vars
BY DEF Next, CallStep

\* What is asked stays as it is, and the contract is the chain's.
LEMMA CallsTouchNoContract ==
  ASSUME NEW k \in Calls, CallStep(k)
  PROVE  UNCHANGED <<owner, sets, delegators, nonces, receipt, minedAt, asked, void>>
BY DEF CallStep, Breaks, Simulates, Write, Sends, SendFails, Receives, Reads, ReadContract,
   Predicts, SignDelegatorApproval, ReadsNonce, Signs, chain, contract

\* A transaction touches no call but by its receipt.
LEMMA MiningTouchesNoCall ==
  ASSUME NEW k \in Calls, Mines(k) \/ Fails(k)
  PROVE  /\ UNCHANGED <<asked, stage, outcome, seen, answer>>
         /\ k \in mempool /\ mempool' = mempool \ {k}
         /\ \E how \in {"success", "reverted", "replaced"} : receipt' = [receipt EXCEPT ![k] = how]
         /\ minedAt' = [minedAt EXCEPT ![k] = Len(sets')]
BY DEF Mines, Fails, Mined

\* The requests are well formed.
LEMMA AskedIsTyped ==
  ASSUME TypeOK, NEW k \in Calls
  PROVE  /\ asked[k].kind \in Kinds /\ asked[k].by \in Wallets /\ asked[k].set \in Sets
         /\ asked[k].nonce \in 0..MaxNonce \cup {Default}
         /\ asked[k].approval \in Calls /\ asked[k].delegator \in Wallets
<1>1. asked[k] \in Requests
  BY DEF TypeOK
<1>2. QED
  BY <1>1 DEF Requests

\* Sets are only added, and nonces only go up.
LEMMA ContractGrows ==
  ASSUME TypeOK, [Next]_vars
  PROVE  /\ sets' \in Seq(Sets) /\ Len(sets) <= Len(sets') /\ Len(sets') <= MaxRevision
         /\ \A i \in 1..Len(sets) : sets'[i] = sets[i]
         /\ nonces' \in [Wallets -> 0..MaxNonce]
         /\ \A w \in Wallets : nonces[w] <= nonces'[w]
<1>0. /\ sets \in Seq(Sets) /\ Len(sets) <= MaxRevision /\ Len(sets) \in Nat
      /\ nonces \in [Wallets -> 0..MaxNonce] /\ MaxNonce \in Nat /\ MaxRevision \in Nat
  BY PolicyClientAssumption DEF TypeOK
<1>1. ASSUME UNCHANGED <<sets, nonces>>
      PROVE  /\ sets' \in Seq(Sets) /\ Len(sets) <= Len(sets') /\ Len(sets') <= MaxRevision
             /\ \A i \in 1..Len(sets) : sets'[i] = sets[i]
             /\ nonces' \in [Wallets -> 0..MaxNonce]
             /\ \A w \in Wallets : nonces[w] <= nonces'[w]
  BY <1>0, <1>1
<1>2. ASSUME NEW w \in Wallets, Bump(w)
      PROVE  /\ nonces' \in [Wallets -> 0..MaxNonce]
             /\ \A v \in Wallets : nonces[v] <= nonces'[v]
  <2>1. nonces[w] \in 0..MaxNonce /\ nonces[w] + 1 \in 0..MaxNonce
    BY <1>0, <1>2 DEF Bump
  <2>2. QED
    BY <1>0, <1>2, <2>1 DEF Bump
<1>3. ASSUME NEW k \in Calls, Mines(k) PROVE UNCHANGED sets \/ Replaces(k)
  BY <1>3 DEF Mines, Approves, Removes, Resigns, Idles, contract
<1>4. ASSUME NEW k \in Calls, Replaces(k)
      PROVE  /\ sets' \in Seq(Sets) /\ Len(sets) <= Len(sets') /\ Len(sets') <= MaxRevision
             /\ \A i \in 1..Len(sets) : sets'[i] = sets[i]
             /\ UNCHANGED nonces
  <2>1. asked[k].set \in Sets
    BY AskedIsTyped
  <2>2. sets' = Append(sets, asked[k].set) /\ Len(sets) < MaxRevision /\ UNCHANGED nonces
    BY <1>4 DEF Replaces
  <2>3. QED
    BY <1>0, <2>1, <2>2
<1>5. ASSUME NEW k \in Calls, Mines(k)
      PROVE  UNCHANGED nonces \/ \E w \in Wallets : Bump(w)
  <2>1. /\ asked[k].by \in Wallets /\ asked[k].delegator \in Wallets
        /\ asked[asked[k].approval].by \in Wallets
    BY AskedIsTyped
  <2>2. QED
    BY <1>5, <2>1 DEF Mines, Replaces, Approves, Removes, Resigns, Idles, contract
<1>6. ASSUME NEW k \in Calls, Mines(k)
      PROVE  /\ sets' \in Seq(Sets) /\ Len(sets) <= Len(sets') /\ Len(sets') <= MaxRevision
             /\ \A i \in 1..Len(sets) : sets'[i] = sets[i]
  BY <1>0, <1>3, <1>4, <1>6
<1>7. ASSUME NEW k \in Calls, Mines(k)
      PROVE  /\ nonces' \in [Wallets -> 0..MaxNonce]
             /\ \A w \in Wallets : nonces[w] <= nonces'[w]
  BY <1>0, <1>2, <1>5, <1>7
<1>8. ASSUME NEW k \in Calls, Fails(k) \/ CallStep(k) PROVE UNCHANGED <<sets, nonces>>
  BY <1>8, CallsTouchNoContract DEF Fails, contract
<1>9. ASSUME NEW w \in Wallets, HandsOn(w) PROVE UNCHANGED <<sets, nonces>>
  BY <1>9 DEF HandsOn
<1>10. UNCHANGED vars => UNCHANGED <<sets, nonces>>
  BY DEF vars, chain, contract
<1>11. QED
  BY <1>1, <1>6, <1>7, <1>8, <1>9, <1>10, NextSteps

-----------------------------------------------------------------------------
(* The steps keep the invariant. *)

LEMMA InitIInv == Init => IInv
<1> SUFFICES ASSUME Init PROVE IInv
  OBVIOUS
<1>0. asked \in [Calls -> Requests] /\ MaxRevision \in Nat /\ MaxNonce \in Nat
  BY PolicyClientAssumption DEF Init
<1>1. NoId \in Ids
  BY <1>0 DEF NoId, Ids
<1>2. TypeOK
  <2>1. sets \in Seq(Sets) /\ Len(sets) <= MaxRevision
    BY <1>0 DEF Init
  <2>2. /\ nonces \in [Wallets -> 0..MaxNonce] /\ minedAt \in [Calls -> 0..MaxRevision]
        /\ seen \in [Calls -> Nat \cup {Default}] /\ answer \in [Calls -> Ids]
    BY <1>0, <1>1 DEF Init
  <2>3. /\ receipt \in [Calls -> {"none", "success", "reverted", "replaced"}]
        /\ stage \in [Calls -> {"idle", "reading", "prompt", "receipt", "snapshot", "settled"}]
        /\ outcome \in [Calls -> {"pending", "resolved", "failed"}]
    BY DEF Init
  <2>4. owner \in Wallets /\ delegators = {} /\ mempool = {} /\ void = {}
    BY DEF Init
  <2>5. QED
    BY <1>0, <2>1, <2>2, <2>3, <2>4 DEF TypeOK
<1>3. InOrder
  BY DEF Init, InOrder
<1>4. ReceiptsAreTrue
  <2>1. Len(sets) = 0
    BY DEF Init
  <2>2. ASSUME NEW k \in Calls PROVE minedAt[k] <= Len(sets)
    <3>1. minedAt[k] = 0
      BY DEF Init
    <3>2. QED
      BY <2>1, <3>1
  <2>3. \A k \in Calls : minedAt[k] <= Len(sets) /\ receipt[k] # "success"
    BY <2>2 DEF Init
  <2>4. QED
    BY <2>3 DEF ReceiptsAreTrue
<1>5. NotAhead /\ VoidIsVoid
  <2>1. \A k \in Calls : asked[k].by \in Wallets
    BY <1>2, AskedIsTyped
  <2>2. QED
    BY <2>1 DEF Init, NotAhead, VoidIsVoid, Default
<1>6. IdsAreTrue /\ PredictionsStand
  BY DEF Init, IdsAreTrue, PredictionsStand
<1>7. QED
  BY <1>2, <1>3, <1>4, <1>5, <1>6 DEF IInv

\* The id of a read is one.
LEMMA SnapshotIsAnId == TypeOK => Snapshot \in Ids
<1> SUFFICES ASSUME TypeOK PROVE Snapshot \in Ids
  OBVIOUS
<1>1. sets \in Seq(Sets) /\ Len(sets) \in Nat /\ Len(sets) <= MaxRevision /\ MaxRevision \in Nat
  BY PolicyClientAssumption DEF TypeOK
<1>2. CASE sets = <<>>
  BY <1>1, <1>2 DEF Snapshot, NoId, Ids
<1>3. CASE sets # <<>>
  <2>1. Len(sets) \in 1..Len(sets) /\ sets[Len(sets)] \in Sets
    BY <1>1, <1>3
  <2>2. QED
    BY <1>1, <1>3, <2>1 DEF Snapshot, IdAt, Ids
<1>4. QED
  BY <1>2, <1>3

LEMMA StepTypeOK == IInv /\ [Next]_vars => TypeOK'
<1> SUFFICES ASSUME IInv, [Next]_vars PROVE TypeOK'
  OBVIOUS
<1>0. TypeOK
  BY DEF IInv
<1>a. MaxRevision \in Nat /\ MaxNonce \in Nat
  BY PolicyClientAssumption
<1>1. /\ sets' \in Seq(Sets) /\ Len(sets') <= MaxRevision /\ Len(sets') \in Nat
      /\ nonces' \in [Wallets -> 0..MaxNonce]
  BY <1>0, ContractGrows
<1>2. ASSUME NEW k \in Calls, Mines(k) \/ Fails(k) PROVE TypeOK'
  <2>1. owner' = owner /\ delegators' \subseteq Wallets /\ void' \subseteq Calls
    <3>1. /\ asked[k].by \in Wallets /\ asked[k].delegator \in Wallets
          /\ asked[asked[k].approval].by \in Wallets
      BY <1>0, AskedIsTyped
    <3>2. QED
      BY <1>0, <1>2, <3>1
      DEF TypeOK, Mines, Fails, Replaces, Approves, Removes, Resigns, Idles, contract
  <2>2. QED
    <3>1. /\ UNCHANGED <<asked, stage, outcome, seen, answer>>
          /\ mempool' = mempool \ {k} /\ minedAt' = [minedAt EXCEPT ![k] = Len(sets')]
      BY <1>2, MiningTouchesNoCall
    <3>2. receipt' \in [Calls -> {"none", "success", "reverted", "replaced"}]
      BY <1>0, <1>2, MiningTouchesNoCall DEF TypeOK
    <3>3. minedAt' \in [Calls -> 0..MaxRevision]
      <4>1. Len(sets') \in 0..MaxRevision
        BY <1>1, <1>a
      <4>2. QED
        BY <1>0, <3>1, <4>1 DEF TypeOK
    <3>4. QED
      BY <1>0, <1>1, <2>1, <3>1, <3>2, <3>3 DEF TypeOK
<1>3. ASSUME NEW k \in Calls, CallStep(k) PROVE TypeOK'
  <2>0. UNCHANGED <<owner, sets, delegators, nonces, receipt, minedAt, asked, void>>
    BY <1>3, CallsTouchNoContract
  <2>1. mempool' \subseteq Calls
    BY <1>0, <1>3 DEF TypeOK, CallStep, Breaks, Simulates, Write, Sends, SendFails, Receives,
       Reads, ReadContract, Predicts, SignDelegatorApproval, ReadsNonce, Signs, chain
  <2>2. stage' \in [Calls -> {"idle", "reading", "prompt", "receipt", "snapshot", "settled"}]
    <3>1. stage \in [Calls -> {"idle", "reading", "prompt", "receipt", "snapshot", "settled"}]
      BY <1>0 DEF TypeOK
    <3>2. PICK to \in {"reading", "prompt", "receipt", "snapshot", "settled"} :
            stage' = [stage EXCEPT ![k] = to]
      BY <1>3 DEF CallStep, Breaks, Simulates, Write, Sends, SendFails, Receives, Reads,
         ReadContract, Predicts, SignDelegatorApproval, ReadsNonce, Signs, Settle, Goes,
         Answers, AfterSending
    <3>3. QED
      BY <3>1, <3>2
  <2>3. outcome' \in [Calls -> {"pending", "resolved", "failed"}]
    <3>1. outcome \in [Calls -> {"pending", "resolved", "failed"}]
      BY <1>0 DEF TypeOK
    <3>2. \/ outcome' = outcome
          \/ \E how \in {"resolved", "failed", outcome[k]} : outcome' = [outcome EXCEPT ![k] = how]
      BY <1>3 DEF CallStep, Breaks, Simulates, Write, Sends, SendFails, Receives, Reads,
         ReadContract, Predicts, SignDelegatorApproval, ReadsNonce, Signs, Settle, Goes,
         Answers
    <3>3. QED
      BY <3>1, <3>2
  <2>4. seen' \in [Calls -> Nat \cup {Default}]
    <3>1. /\ Len(sets) \in Nat /\ nonces[asked[k].by] \in Nat
          /\ asked[k].nonce \in Nat \cup {Default}
      BY <1>0, AskedIsTyped DEF TypeOK
    <3>2. QED
      BY <1>0, <1>3, <3>1 DEF TypeOK, CallStep, Breaks, Simulates, Write, Sends, SendFails,
         Receives, Reads, ReadContract, Predicts, SignDelegatorApproval, ReadsNonce, Signs,
         DefaultNonce
  <2>5. answer' \in [Calls -> Ids]
    <3>1. Snapshot \in Ids /\ Predicted(Len(sets), asked[k].set) \in Ids
      <4>1. Snapshot \in Ids
        BY <1>0, SnapshotIsAnId
      <4>2. Len(sets) + 1 \in 0..MaxRevision + 1 /\ asked[k].set \in Sets
        <5>1. Len(sets) \in 0..MaxRevision /\ MaxRevision \in Nat
          BY <1>0, <1>a DEF TypeOK
        <5>2. asked[k].set \in Sets
          BY <1>0, AskedIsTyped
        <5>3. QED
          BY <5>1, <5>2
      <4>3. QED
        BY <4>1, <4>2 DEF Predicted, Ids
    <3>2. QED
      BY <1>0, <1>3, <3>1 DEF TypeOK, CallStep, Breaks, Simulates, Write, Sends, SendFails,
         Receives, Reads, ReadContract, Predicts, SignDelegatorApproval, ReadsNonce, Signs,
         Answers
  <2>6. QED
    BY <1>0, <2>0, <2>1, <2>2, <2>3, <2>4, <2>5 DEF TypeOK
<1>4. ASSUME NEW w \in Wallets, HandsOn(w) PROVE TypeOK'
  BY <1>0, <1>4 DEF TypeOK, HandsOn
<1>5. CASE UNCHANGED vars
  BY <1>0, <1>5 DEF TypeOK, vars, chain, contract
<1>6. QED
  BY <1>2, <1>3, <1>4, <1>5, NextSteps

\* What InOrder says of one call.
CallInOrder(k) ==
  /\ stage[k] # "settled" => outcome[k] = "pending"
  /\ stage[k] \in {"idle", "reading"} => seen[k] = Default
  /\ stage[k] \in {"idle", "reading", "prompt"} => k \notin mempool /\ receipt[k] = "none"
  /\ stage[k] = "receipt" => k \in mempool \/ receipt[k] # "none"
  /\ k \in mempool => receipt[k] = "none"
  /\ stage[k] \in {"receipt", "snapshot"} => asked[k].kind = "setPolicies"
  /\ stage[k] = "reading" => asked[k].kind = "signDelegatorApproval"
  /\ stage[k] = "prompt" => asked[k].kind # "precomputePolicyId"
  /\ asked[k].kind = "setPolicies" =>
       (stage[k] = "snapshot" \/ outcome[k] = "resolved" => receipt[k] # "none")

\* A call's own steps touch no other.
LEMMA OthersStand ==
  ASSUME TypeOK, NEW k \in Calls, CallStep(k), NEW c \in Calls, c # k
  PROVE  /\ stage'[c] = stage[c] /\ outcome'[c] = outcome[c] /\ seen'[c] = seen[c]
         /\ answer'[c] = answer[c] /\ (c \in mempool' <=> c \in mempool)
<1>1. /\ stage'[c] = stage[c] /\ outcome'[c] = outcome[c]
  BY DEF TypeOK, CallStep, Breaks, Simulates, Write, Sends, SendFails, Receives, Reads,
     ReadContract, Predicts, SignDelegatorApproval, ReadsNonce, Signs, Settle, Goes, Answers
<1>2. seen'[c] = seen[c]
  BY DEF TypeOK, CallStep, Breaks, Simulates, Write, Sends, SendFails, Receives, Reads,
     ReadContract, Predicts, SignDelegatorApproval, ReadsNonce, Signs
<1>3. answer'[c] = answer[c]
  BY DEF TypeOK, CallStep, Breaks, Simulates, Write, Sends, SendFails, Receives, Reads,
     ReadContract, Predicts, SignDelegatorApproval, ReadsNonce, Signs, Answers
<1>4. c \in mempool' <=> c \in mempool
  BY DEF CallStep, Breaks, Simulates, Write, Sends, SendFails, Receives, Reads, ReadContract,
     Predicts, SignDelegatorApproval, ReadsNonce, Signs, chain
<1>5. QED
  BY <1>1, <1>2, <1>3, <1>4

\* A call and its transaction are in step.
LEMMA StepInOrder == IInv /\ [Next]_vars => InOrder'
<1> SUFFICES ASSUME IInv, [Next]_vars, NEW c \in Calls PROVE CallInOrder(c)'
  BY DEF InOrder, CallInOrder
<1>0. TypeOK /\ CallInOrder(c)
  BY DEF IInv, InOrder, CallInOrder
<1>1. ASSUME NEW k \in Calls, Mines(k) \/ Fails(k) PROVE CallInOrder(c)'
  BY <1>0, <1>1, MiningTouchesNoCall DEF TypeOK, CallInOrder
<1>2. ASSUME NEW k \in Calls, CallStep(k) PROVE CallInOrder(c)'
  <2>0. UNCHANGED <<receipt, asked>>
    BY <1>2, CallsTouchNoContract
  <2>1. CASE c # k
    BY <1>0, <1>2, <2>0, <2>1, OthersStand DEF CallInOrder
  <2>2. CASE c = k
    <3>1. CASE Breaks(c) \/ Simulates(c) \/ Write(c) \/ Receives(c)
      BY <1>0, <2>0, <3>1
      DEF TypeOK, CallInOrder, Breaks, Simulates, Write, Receives, Settle, Goes, Writes, chain
    <3>2. CASE Sends(c) \/ SendFails(c)
      BY <1>0, <2>0, <3>2 DEF TypeOK, CallInOrder, Sends, SendFails, AfterSending, Settle
    <3>3. CASE Reads(c) \/ ReadContract(c) \/ Predicts(c)
      BY <1>0, <2>0, <3>3 DEF TypeOK, CallInOrder, Reads, ReadContract, Predicts, Answers,
         Settle, chain
    <3>4. CASE SignDelegatorApproval(c) \/ ReadsNonce(c) \/ Signs(c)
      BY <1>0, <2>0, <3>4
      DEF TypeOK, CallInOrder, SignDelegatorApproval, ReadsNonce, Signs, Settle, Goes, chain
    <3>5. QED
      BY <1>2, <2>2, <3>1, <3>2, <3>3, <3>4 DEF CallStep
  <2>3. QED
    BY <2>1, <2>2
<1>3. ASSUME NEW w \in Wallets, HandsOn(w) PROVE CallInOrder(c)'
  BY <1>0, <1>3 DEF CallInOrder, HandsOn
<1>4. CASE UNCHANGED vars
  BY <1>0, <1>4 DEF CallInOrder, vars, chain
<1>5. QED
  BY <1>1, <1>2, <1>3, <1>4, NextSteps

\* A replacement's receipt is of the revision that holds its set.
LEMMA StepReceipts == IInv /\ [Next]_vars => ReceiptsAreTrue'
<1> SUFFICES ASSUME IInv, [Next]_vars, NEW c \in Calls
             PROVE  /\ minedAt'[c] <= Len(sets')
                    /\ asked'[c].kind = "setPolicies" /\ receipt'[c] = "success" =>
                         minedAt'[c] \in 1..Len(sets') /\ sets'[minedAt'[c]] = asked'[c].set
  BY DEF ReceiptsAreTrue
<1>0. TypeOK /\ ReceiptsAreTrue
  BY DEF IInv
<1>1. /\ Len(sets) \in Nat /\ Len(sets') \in Nat /\ Len(sets) <= Len(sets')
      /\ \A i \in 1..Len(sets) : sets'[i] = sets[i]
  BY <1>0, ContractGrows DEF TypeOK
<1>2. ASSUME minedAt'[c] = minedAt[c], receipt'[c] = receipt[c], asked'[c] = asked[c]
      PROVE  /\ minedAt'[c] <= Len(sets')
             /\ asked'[c].kind = "setPolicies" /\ receipt'[c] = "success" =>
                  minedAt'[c] \in 1..Len(sets') /\ sets'[minedAt'[c]] = asked'[c].set
  BY <1>0, <1>1, <1>2 DEF TypeOK, ReceiptsAreTrue
<1>3. ASSUME NEW k \in Calls, Mines(k) \/ Fails(k), k # c
      PROVE  minedAt'[c] = minedAt[c] /\ receipt'[c] = receipt[c] /\ asked'[c] = asked[c]
  BY <1>0, <1>3, MiningTouchesNoCall DEF TypeOK
<1>4. CASE Mines(c)
  <2>1. minedAt'[c] = Len(sets') /\ asked' = asked
    BY <1>0, <1>4, MiningTouchesNoCall DEF TypeOK
  <2>2. ASSUME asked[c].kind = "setPolicies"
        PROVE  Len(sets') \in 1..Len(sets') /\ sets'[Len(sets')] = asked[c].set
    <3>1. sets' = Append(sets, asked[c].set)
      BY <1>4, <2>2 DEF Mines, Replaces, Approves, Removes, Resigns, Idles
    <3>2. sets \in Seq(Sets) /\ asked[c].set \in Sets
      BY <1>0, AskedIsTyped DEF TypeOK
    <3>3. QED
      BY <3>1, <3>2
  <2>3. QED
    BY <1>1, <2>1, <2>2
<1>5. CASE Fails(c)
  <2>1. receipt'[c] # "success" /\ minedAt'[c] = Len(sets')
    BY <1>0, <1>5 DEF Fails, Mined, TypeOK
  <2>2. QED
    BY <1>1, <2>1
<1>6. ASSUME \/ \E k \in Calls : CallStep(k)
             \/ \E w \in Wallets : HandsOn(w)
             \/ UNCHANGED vars
      PROVE  UNCHANGED <<minedAt, receipt, asked>>
  BY <1>6, CallsTouchNoContract DEF HandsOn, vars, chain
<1>7. QED
  BY <1>2, <1>3, <1>4, <1>5, <1>6, NextSteps

\* What a call has read changes only before it goes to the wallet.
LEMMA SeenStands ==
  ASSUME IInv, [Next]_vars, NEW c \in Calls
  PROVE  /\ asked' = asked
         /\ \/ seen'[c] = seen[c]
            \/ seen[c] = Default /\ outcome[c] = "pending"
               /\ (SignDelegatorApproval(c) \/ ReadsNonce(c) \/ Predicts(c))
<1>0. TypeOK /\ InOrder
  BY DEF IInv
<1>1. ASSUME NEW k \in Calls, CallStep(k), k # c PROVE seen'[c] = seen[c] /\ asked' = asked
  BY <1>0, <1>1, OthersStand, CallsTouchNoContract
<1>2. CASE CallStep(c)
  <2>1. asked' = asked
    BY <1>2, CallsTouchNoContract
  <2>2. \/ seen' = seen
        \/ (SignDelegatorApproval(c) \/ ReadsNonce(c) \/ Predicts(c))
           /\ stage[c] \in {"idle", "reading"}
    BY <1>2 DEF CallStep, Breaks, Simulates, Write, Sends, SendFails, Receives, Reads,
       ReadContract, SignDelegatorApproval, ReadsNonce, Predicts, Signs
  <2>3. QED
    BY <1>0, <2>1, <2>2 DEF InOrder
<1>3. ASSUME \/ \E k \in Calls : Mines(k) \/ Fails(k)
             \/ \E w \in Wallets : HandsOn(w)
             \/ UNCHANGED vars
      PROVE  seen' = seen /\ asked' = asked
  BY <1>3, MiningTouchesNoCall DEF HandsOn, vars
<1>4. QED
  BY <1>1, <1>2, <1>3, NextSteps

\* A default nonce never runs ahead of its signer's.
LEMMA StepNotAhead == IInv /\ [Next]_vars => NotAhead'
<1> SUFFICES ASSUME IInv, [Next]_vars, NEW s \in Calls,
                    asked'[s].kind = "signDelegatorApproval", asked'[s].nonce = Default
             PROVE  seen'[s] <= nonces'[asked'[s].by]
  BY DEF NotAhead
<1>0. TypeOK /\ NotAhead
  BY DEF IInv
<1>1. asked' = asked /\ asked[s].by \in Wallets
  BY <1>0, SeenStands, AskedIsTyped
<1>2. /\ nonces[asked[s].by] \in Nat /\ nonces'[asked[s].by] \in Nat
      /\ nonces[asked[s].by] <= nonces'[asked[s].by]
      /\ seen[s] \in Int /\ seen[s] <= nonces[asked[s].by]
  <2>1. /\ nonces[asked[s].by] \in Nat /\ nonces'[asked[s].by] \in Nat
        /\ nonces[asked[s].by] <= nonces'[asked[s].by]
    BY <1>0, <1>1, ContractGrows, PolicyClientAssumption DEF TypeOK
  <2>2. seen[s] \in Int
    BY <1>0 DEF TypeOK, Default
  <2>3. seen[s] <= nonces[asked[s].by]
    BY <1>0, <1>1 DEF NotAhead
  <2>4. QED
    BY <2>1, <2>2, <2>3
<1>3. CASE seen'[s] = seen[s]
  BY <1>1, <1>2, <1>3
<1>4. CASE SignDelegatorApproval(s)
  BY <1>0, <1>1, <1>2, <1>4 DEF SignDelegatorApproval, TypeOK, Default
<1>5. CASE ReadsNonce(s)
  BY <1>0, <1>1, <1>2, <1>5 DEF ReadsNonce, DefaultNonce, TypeOK
<1>6. ~Predicts(s)
  BY <1>1 DEF Predicts
<1>7. QED
  BY <1>3, <1>4, <1>5, <1>6, SeenStands

\* What a resignation has voided stays void: its nonce has been used up.
LEMMA StepVoid == IInv /\ [Next]_vars => VoidIsVoid'
<1> SUFFICES ASSUME IInv, [Next]_vars, NEW s \in void'
             PROVE  seen'[s] # Default /\ seen'[s] < nonces'[asked'[s].by]
  BY DEF VoidIsVoid
<1>0. TypeOK /\ VoidIsVoid /\ NotAhead
  BY DEF IInv
<1>1. s \in Calls
  <2>1. TypeOK'
    BY StepTypeOK
  <2>2. QED
    BY <2>1 DEF TypeOK
<1>2. asked' = asked /\ asked[s].by \in Wallets
  BY <1>0, <1>1, SeenStands, AskedIsTyped
<1>3. /\ nonces[asked[s].by] \in Nat /\ nonces'[asked[s].by] \in Nat
      /\ nonces[asked[s].by] <= nonces'[asked[s].by]
      /\ seen[s] \in Int
  BY <1>0, <1>1, <1>2, ContractGrows DEF TypeOK, Default
<1>4. CASE s \in void
  <2>1. seen[s] # Default /\ seen[s] < nonces[asked[s].by]
    BY <1>0, <1>4 DEF VoidIsVoid
  <2>2. seen'[s] = seen[s]
    BY <1>1, <2>1, SeenStands
  <2>3. QED
    BY <1>2, <1>3, <2>1, <2>2
<1>5. CASE s \notin void
  <2>1. PICK k \in Calls : Mines(k) /\ Resigns(k)
    <3>1. void' # void
      BY <1>5
    <3>2. ~\E k \in Calls : Fails(k) \/ CallStep(k)
      BY <3>1, CallsTouchNoContract DEF Fails
    <3>3. ~UNCHANGED vars /\ ~\E w \in Wallets : HandsOn(w)
      BY <3>1 DEF vars, HandsOn
    <3>4. PICK k \in Calls : Mines(k)
      BY <3>2, <3>3, NextSteps
    <3>5. Resigns(k)
      BY <3>1, <3>4 DEF Mines, Replaces, Approves, Removes, Idles
    <3>6. QED
      BY <3>4, <3>5
  <2>2. /\ asked[s].kind = "signDelegatorApproval" /\ asked[s].by = asked[k].by
        /\ asked[s].nonce = Default /\ seen[s] # Default
    BY <1>1, <1>5, <2>1 DEF Resigns
  <2>3. nonces'[asked[s].by] = nonces[asked[s].by] + 1
    BY <1>0, <1>2, <2>1, <2>2 DEF Resigns, Bump, TypeOK
  <2>4. seen[s] <= nonces[asked[s].by] /\ seen' = seen
    BY <1>0, <1>1, <2>1, <2>2, MiningTouchesNoCall DEF NotAhead
  <2>5. QED
    BY <1>2, <1>3, <2>2, <2>3, <2>4
<1>6. QED
  BY <1>4, <1>5

\* A resolved call keeps its answer, and its transaction its receipt.
LEMMA ResolvedStands ==
  ASSUME IInv, [Next]_vars, NEW c \in Calls, outcome[c] = "resolved"
  PROVE  /\ outcome'[c] = outcome[c] /\ answer'[c] = answer[c] /\ seen'[c] = seen[c]
         /\ receipt[c] # "none" => receipt'[c] = receipt[c] /\ minedAt'[c] = minedAt[c]
<1>0. TypeOK /\ InOrder
  BY DEF IInv
<1>1. stage[c] = "settled" /\ seen'[c] = seen[c]
  BY <1>0, SeenStands DEF InOrder
<1>2. ~CallStep(c)
  BY <1>1 DEF CallStep, Breaks, Simulates, Write, Sends, SendFails, Receives, Reads, ReadContract,
     SignDelegatorApproval, ReadsNonce, Predicts, Signs, Writes
<1>3. ASSUME NEW k \in Calls, CallStep(k)
      PROVE  /\ outcome'[c] = outcome[c] /\ answer'[c] = answer[c]
             /\ UNCHANGED <<receipt, minedAt>>
  BY <1>0, <1>2, <1>3, OthersStand, CallsTouchNoContract
<1>4. ASSUME NEW k \in Calls, Mines(k) \/ Fails(k)
      PROVE  /\ UNCHANGED <<outcome, answer>>
             /\ receipt[c] # "none" => receipt'[c] = receipt[c] /\ minedAt'[c] = minedAt[c]
  BY <1>0, <1>4, MiningTouchesNoCall DEF TypeOK, InOrder
<1>5. ASSUME UNCHANGED vars \/ \E w \in Wallets : HandsOn(w)
      PROVE  UNCHANGED <<outcome, answer, receipt, minedAt>>
  BY <1>5 DEF HandsOn, vars, chain
<1>6. QED
  BY <1>1, <1>3, <1>4, <1>5, NextSteps

\* A call resolves by its own step.
LEMMA ResolvesItself ==
  ASSUME IInv, [Next]_vars, NEW c \in Calls, outcome[c] # "resolved", outcome'[c] = "resolved"
  PROVE  CallStep(c) /\ (Sends(c) \/ Reads(c) \/ ReadContract(c) \/ Predicts(c) \/ Signs(c))
<1>0. TypeOK
  BY DEF IInv
<1>1. CallStep(c)
  <2>1. ~\E k \in Calls : Mines(k) \/ Fails(k)
    BY MiningTouchesNoCall
  <2>2. ~UNCHANGED vars /\ ~\E w \in Wallets : HandsOn(w)
    BY DEF HandsOn, vars
  <2>3. PICK k \in Calls : CallStep(k)
    BY <2>1, <2>2, NextSteps
  <2>4. QED
    BY <1>0, <2>3, OthersStand
<1>2. QED
  BY <1>0, <1>1 DEF CallStep, TypeOK, Breaks, Simulates, Write, SendFails, Receives,
     SignDelegatorApproval, ReadsNonce, Settle, Goes

\* A prediction is settled with what its caller has read.
LEMMA StepPredictions == IInv /\ [Next]_vars => PredictionsStand'
<1> SUFFICES ASSUME IInv, [Next]_vars, NEW c \in Calls,
                    asked'[c].kind = "precomputePolicyId", outcome'[c] = "resolved"
             PROVE  answer'[c] = Predicted(seen'[c], asked'[c].set)
  BY DEF PredictionsStand, Predicted
<1>0. TypeOK /\ InOrder /\ PredictionsStand
  BY DEF IInv
<1>1. asked' = asked
  BY SeenStands
<1>2. CASE outcome[c] = "resolved"
  BY <1>0, <1>1, <1>2, ResolvedStands DEF PredictionsStand
<1>3. CASE outcome[c] # "resolved"
  <2>1. ~(Sends(c) \/ Reads(c) \/ ReadContract(c) \/ Signs(c))
    BY <1>0, <1>1 DEF InOrder, Sends, Reads, ReadContract, Signs
  <2>2. Predicts(c)
    BY <1>3, <2>1, ResolvesItself
  <2>3. QED
    BY <1>0, <1>1, <2>2 DEF Predicts, Answers, TypeOK
<1>4. QED
  BY <1>2, <1>3

\* A replacement's answer is of its own revision or of a later one.
LEMMA StepAnswers ==
  ASSUME IInv, [Next]_vars, NEW c \in Calls,
         asked'[c].kind = "setPolicies", outcome'[c] = "resolved"
  PROVE  /\ answer'[c].revision >= minedAt'[c]
         /\ receipt'[c] = "success" =>
              /\ minedAt'[c] \in 1..Len(sets')
              /\ answer'[c].revision = minedAt'[c] => answer'[c].set = asked'[c].set
<1>0. TypeOK /\ InOrder /\ IdsAreTrue /\ ReceiptsAreTrue /\ ReceiptsAreTrue'
  BY StepReceipts DEF IInv
<1>1. asked' = asked
  BY SeenStands
<1>2. CASE outcome[c] = "resolved"
  <2>1. receipt[c] # "none"
    BY <1>0, <1>1, <1>2 DEF InOrder
  <2>2. answer'[c] = answer[c] /\ receipt'[c] = receipt[c] /\ minedAt'[c] = minedAt[c]
    BY <1>2, <2>1, ResolvedStands
  <2>3. /\ answer[c].revision >= minedAt[c]
        /\ receipt[c] = "success" /\ answer[c].revision = minedAt[c] =>
             answer[c].set = asked[c].set
    BY <1>0, <1>1, <1>2 DEF IdsAreTrue
  <2>4. receipt'[c] = "success" => minedAt'[c] \in 1..Len(sets')
    BY <1>0 DEF ReceiptsAreTrue
  <2>5. QED
    BY <1>1, <2>2, <2>3, <2>4
<1>3. CASE outcome[c] # "resolved"
  <2>1. ~(Sends(c) \/ ReadContract(c) \/ Predicts(c) \/ Signs(c))
    BY <1>0, <1>1, <1>3 DEF InOrder, Sends, ReadContract, Predicts, Signs, AfterSending, TypeOK
  <2>2. Reads(c)
    BY <1>3, <2>1, ResolvesItself
  <2>3. answer'[c] = Snapshot /\ UNCHANGED <<sets, receipt, minedAt>>
    BY <1>0, <2>2 DEF Reads, Answers, TypeOK, chain, contract
  <2>4. /\ minedAt[c] \in Nat /\ minedAt[c] <= Len(sets)
        /\ receipt[c] = "success" => minedAt[c] \in 1..Len(sets) /\ sets[minedAt[c]] = asked[c].set
    BY <1>0, <1>1 DEF TypeOK, ReceiptsAreTrue
  <2>5. CASE sets = <<>>
    <3>1. Len(sets) = 0 /\ Snapshot.revision = 0
      BY <2>5 DEF Snapshot, NoId
    <3>2. QED
      BY <1>1, <2>3, <2>4, <3>1
  <2>6. CASE sets # <<>>
    <3>1. Snapshot.revision = Len(sets) /\ Snapshot.set = sets[Len(sets)]
      BY <2>6 DEF Snapshot, IdAt
    <3>2. QED
      BY <1>1, <2>3, <2>4, <3>1
  <2>7. QED
    BY <2>5, <2>6
<1>4. QED
  BY <1>2, <1>3

\* Answers stay true as sets are added.
LEMMA StepIds == IInv /\ [Next]_vars => IdsAreTrue'
<1> SUFFICES ASSUME IInv, [Next]_vars, NEW c \in Calls,
                    asked'[c].kind = "precomputePolicyId", outcome'[c] = "resolved",
                    NEW i \in 1..Len(sets')
             PROVE  answer'[c] = IdAt(i)' <=> i = seen'[c] + 1 /\ sets'[i] = asked'[c].set
  BY StepAnswers DEF IdsAreTrue
<1>1. answer'[c] = [revision |-> seen'[c] + 1, set |-> asked'[c].set]
  BY StepPredictions DEF PredictionsStand, Predicted
<1>2. IdAt(i)' = [revision |-> i, set |-> sets'[i]]
  BY DEF IdAt
<1>3. QED
  BY <1>1, <1>2

-----------------------------------------------------------------------------
(* The theorems. *)

\* The inductive invariant holds however calls, transactions and other hands interleave.
THEOREM Invariance == Spec => []IInv
<1>1. IInv /\ [Next]_vars => IInv'
  BY StepTypeOK, StepInOrder, StepReceipts, StepNotAhead, StepVoid, StepIds, StepPredictions
  DEF IInv
<1>2. QED
  BY InitIInv, <1>1, PTL DEF Spec

\* Every variable keeps to its type: no answer is of a revision past the next one.
THEOREM TypeInvariant == Spec => []TypeOK
<1>1. IInv => TypeOK
  BY DEF IInv
<1>2. QED
  BY <1>1, Invariance, PTL

\* A replacement never answers with an id from before its own, and a prediction is of the next
\* set or of none (policy/index.ts:424-467, 690-693).
THEOREM AnsweredIdsAreTrue == Spec => []IdsAreTrue
<1>1. IInv => IdsAreTrue
  BY DEF IInv
<1>2. QED
  BY <1>1, Invariance, PTL

\* An approval with the default nonce never undoes the resignation of its signer
\* (delegator/index.ts:115-146).
THEOREM ResignationIsFinal == Spec => ResignationHolds
<1> DEFINE Holds == \A k \in Calls :
                      asked[k].kind = "approveDelegator" /\ asked[k].approval \in void =>
                        ~(receipt[k] = "none" /\ receipt'[k] = "success")
<1>1. IInv /\ [Next]_vars => [Holds]_vars
  <2> SUFFICES ASSUME IInv, [Next]_vars, NEW c \in Calls,
                      asked[c].kind = "approveDelegator", asked[c].approval \in void,
                      receipt[c] = "none", receipt'[c] = "success"
               PROVE  FALSE
    OBVIOUS
  <2>0. TypeOK /\ VoidIsVoid
    BY DEF IInv
  <2>1. PICK k \in Calls : Mines(k) \/ Fails(k)
    <3>1. ~\E k \in Calls : CallStep(k)
      BY CallsTouchNoContract
    <3>2. ~UNCHANGED vars /\ ~\E w \in Wallets : HandsOn(w)
      BY DEF HandsOn, vars, chain
    <3>3. QED
      BY <3>1, <3>2, NextSteps
  <2>2. k = c
    BY <2>0, <2>1, MiningTouchesNoCall DEF TypeOK
  <2>3. ~Fails(c)
    BY <2>0 DEF Fails, Mined, TypeOK
  <2>4. Approves(c)
    BY <2>1, <2>2, <2>3 DEF Mines, Replaces, Removes, Resigns, Idles
  <2>5. seen[asked[c].approval] = nonces[asked[asked[c].approval].by]
    BY <2>4 DEF Approves, Approved
  <2>6. seen[asked[c].approval] < nonces[asked[asked[c].approval].by]
    BY <2>0 DEF VoidIsVoid
  <2>7. nonces[asked[asked[c].approval].by] \in Nat
    BY <2>0, AskedIsTyped DEF TypeOK
  <2>8. QED
    BY <2>5, <2>6, <2>7
<1>2. QED
  BY <1>1, Invariance, PTL DEF Spec, ResignationHolds
=============================================================================
