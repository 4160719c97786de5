--------------------------- MODULE PolicyContracts ---------------------------
(***************************************************************************)
(* The writes and reads of a policy contract and of a policy client, from  *)
(* the parameters a caller names to the arguments of a transaction and     *)
(* back (src/modules/policy/index.ts, the delegation surface of            *)
(* src/modules/delegator/index.ts, bound to a client by src/index.ts).     *)
(* PolicyClient models the steps of setPolicies and signDelegatorApproval. *)
(*                                                                         *)
(* The contracts are external: a policy contract is initialized once, by   *)
(* whoever comes first; its owner sets the schema of its secrets and hands *)
(* it on.  A policy client takes on a delegator with an approval under its *)
(* own domain, for the delegator's nonce, before its deadline.             *)
(***************************************************************************)
EXTENDS ClientActions, PolicyInterface, Intents, FiniteSets

CONSTANTS
  Calls,    \* the calls made
  Nets,     \* the chains the wallet may be connected to
  MaxTime,  \* bound: the clock
  Ttl       \* how long an approval lasts

VARIABLES
  focus,      \* bound: the contract that the calls of a behaviour are of
  client,     \* the client
  on,         \* the chain its wallet is connected to
  now,        \* the clock
  policy,     \* the policy contract
  delegation, \* the policy client: owner, delegators, nonces, whether it wants one
  sets,       \* its policy sets so far
  landed,     \* the intents a delegator has landed, by what they mean
  approvals,  \* the approvals signed
  asked,      \* call -> what it is
  stage,      \* call -> where it is
  answer      \* call -> what it answers: <<>>, or the type of a value and the value

contracts == <<policy, delegation, sets, landed>>
vars == <<focus, client, on, now, contracts, approvals, asked, stage, answer>>

Accounts == {"owner", "other"}

\* An artifact that is there or is not.
Optional(cid) == {"", cid}

\* The artifacts of a pure-Rego policy, of one with an oracle, with secrets, and with secrets of
\* no oracle.
Artifacts ==
  {[entrypoint |-> "allow", policyCid |-> "rego", schemaCid |-> "schema", wasmCid |-> wasm,
    secretsSchemaCid |-> secrets, metadataCid |-> "metadata"] :
     wasm \in Optional("wasm"), secrets \in Optional("secrets")}

Texts == {"", "allow", "rego", "schema", "wasm", "secrets", "secrets2", "metadata"}

Blank ==
  [initialized |-> FALSE, factory |-> None, owner |-> None, policyCodeHash |-> None, config |-> None,
   artifacts |-> [a \in PolicyArtifacts |-> ""]]

PolicyBytes == {None, "bytesB"}
Keccak256(bytes) == [bytesA |-> "hashA", bytesB |-> "hashB"][bytes]

\* Two ways to name one intent, and another intent.
IntentsGiven ==
  {[from |-> "user", to |-> "policyClient", value |-> value, chainId |-> Number("number", 1)] :
     value \in {Number("bigint", 1), Number("hex", 1), Number("hex", 2)}}

Approvals(deadlines) ==
  [by : Accounts, domain : {policyClientDomain("policyClient", c) : c \in Nets},
   nonce : 0..Cardinality(Calls), deadline : deadlines]

NoApproval == [by |-> "owner", domain |-> policyClientDomain(None, None), nonce |-> 0, deadline |-> 0]

\* The parameters of a call, by the names its caller gives them; what a method does not take is
\* as here.
Given0 ==
  [method |-> "owner", account |-> "owner", factory |-> "factory", artifacts |-> Blank.artifacts,
   owner |-> "owner", policyCodeHash |-> None, policyBytes |-> None, secretsSchemaCid |-> "",
   newOwner |-> "owner", delegator |-> "owner", deadline |-> 0, signature |-> NoApproval,
   required |-> FALSE, intent |-> CHOOSE i \in IntentsGiven : TRUE]

ContractWrites == IF focus = "policy" THEN PolicyWrites ELSE DelegatorWrites
ContractReads == IF focus = "policy" THEN PolicyReads ELSE PolicyClientReads

\* A policy contract is initialized with the hash of its code, with the bytes or with both.
Initialization(artifacts, owner, hash, bytes) ==
  [Given0 EXCEPT !.method = "initialize", !.artifacts = artifacts, !.owner = owner,
                 !.policyCodeHash = hash, !.policyBytes = bytes]

Initializations ==
  {Initialization(a, o, "hashA", b) : a \in Artifacts, o \in Accounts, b \in PolicyBytes}
    \cup {Initialization(Blank.artifacts, "other", None, "bytesB")}

\* What a caller may ask for: everything by its names, the approvals that have been signed.
Requests(method) ==
  CASE method = "initialize" -> Initializations
    [] method = "setSecretsSchemaCid" ->
         {[Given0 EXCEPT !.method = method, !.secretsSchemaCid = cid] : cid \in Optional("secrets2")}
    [] method = "transferOwnership" -> {[Given0 EXCEPT !.method = method, !.newOwner = o] : o \in Accounts}
    [] method = "approveDelegator" ->
         {[Given0 EXCEPT !.method = method, !.delegator = s.by, !.deadline = s.deadline,
                         !.signature = s] : s \in approvals}
    [] method \in {"removeDelegator", "isDelegator", "delegatorNonces"} ->
         {[Given0 EXCEPT !.method = method, !.delegator = a] : a \in Accounts}
    [] method = "setDelegatorRequired" ->
         {[Given0 EXCEPT !.method = method, !.required = b] : b \in BOOLEAN}
    [] method = "isIntentSpent" ->
         {[Given0 EXCEPT !.method = method, !.intent = i] : i \in IntentsGiven}
    [] OTHER -> {[Given0 EXCEPT !.method = method]}

\* The same as types.
Parameters ==
  [method : DOMAIN Views \cup DOMAIN Inputs, account : Accounts, factory : {"factory"},
   artifacts : [PolicyArtifacts -> Texts], owner : Accounts, policyCodeHash : {None, "hashA"},
   policyBytes : PolicyBytes, secretsSchemaCid : Texts, newOwner : Accounts,
   delegator : Accounts, deadline : 0..MaxTime + Ttl,
   signature : Approvals(0..MaxTime + Ttl) \cup {NoApproval}, required : BOOLEAN, intent : IntentsGiven]

TypeOK ==
  /\ policy \in [initialized : BOOLEAN, factory : {None, "factory"}, owner : Accounts \cup {None},
                 policyCodeHash : {None, "hashA", "hashB"}, config : {None, "json", "text", "null"},
                 artifacts : [PolicyArtifacts -> Texts]]
  /\ delegation \in [owner : Accounts, delegators : SUBSET Accounts,
                     nonces : [Accounts -> 0..Cardinality(Calls)], required : BOOLEAN]
  /\ landed \subseteq {[from |-> "user", to |-> "policyClient", value |-> 1, chainId |-> 1]}
  /\ approvals \subseteq Approvals(0..MaxTime + Ttl)
  /\ asked \in [Calls -> Parameters]
  /\ stage \in [Calls -> {"idle", "prompt", "sent", "done", "reverted", "threw", "answered"}]
  /\ DOMAIN answer = Calls
  /\ \A k \in Calls : stage[k] = "answered" <=> answer[k] # <<>>

Init ==
  /\ policy = Blank /\ sets = <<>> /\ landed = {} /\ approvals = {}
  /\ delegation = [owner |-> "owner", delegators |-> {}, nonces |-> [a \in Accounts |-> 0],
                   required |-> FALSE]
  /\ asked = [k \in Calls |-> Given0] /\ stage = [k \in Calls |-> "idle"]
  /\ answer = [k \in Calls |-> <<>>]

-----------------------------------------------------------------------------
(* The arguments of each write. *)

\* The hash that is given, or that of the bytes.
policyCodeHash(p) ==
  IF p.policyCodeHash # None THEN p.policyCodeHash ELSE Keccak256(p.policyBytes)

initialize(p) == <<p.factory, p.artifacts, p.owner, policyCodeHash(p)>>

setSecretsSchemaCid(p) == <<p.secretsSchemaCid>>

renounceOwnership(p) == <<>>

transferOwnership(p) == <<p.newOwner>>

approveDelegator(p) == <<p.delegator, p.deadline, p.signature>>

removeDelegator(p) == <<p.delegator>>

setDelegatorRequired(p) == <<p.required>>

resignDelegator(p) == <<>>

WriteArgs(p) ==
  CASE p.method = "initialize" -> initialize(p)
    [] p.method = "setSecretsSchemaCid" -> setSecretsSchemaCid(p)
    [] p.method = "renounceOwnership" -> renounceOwnership(p)
    [] p.method = "transferOwnership" -> transferOwnership(p)
    [] p.method = "approveDelegator" -> approveDelegator(p)
    [] p.method = "removeDelegator" -> removeDelegator(p)
    [] p.method = "setDelegatorRequired" -> setDelegatorRequired(p)
    [] p.method = "resignDelegator" -> resignDelegator(p)

\* The digest it is given, which its caller has from the same function, or that of the intent.
isIntentSpent(p) == <<getDelegatedIntentDigest(p.intent)>>

ReadArgs(p) ==
  CASE p.method \in {"getPolicyId", "clientToPolicyId"} -> <<"policyClient">>
    [] p.method = "getPolicyConfig" -> <<<<"id", policy.config>>>>
    [] p.method = "supportsInterface" -> <<"policy">>
    [] p.method = "isPolicy" -> <<"policy">>
    [] p.method \in {"isDelegator", "delegatorNonces"} -> <<p.delegator>>
    [] p.method = "isIntentSpent" -> isIntentSpent(p)
    [] OTHER -> <<>>

-----------------------------------------------------------------------------
(* The contracts. *)

\* Whether a policy contract takes a call, and what it is after it.
PolicyAccepts(p, c) ==
  CASE p.method = "initialize" ->
         /\ ~policy.initialized
         /\ ~SecretsSchemaWithoutWasm(c["artifacts"].secretsSchemaCid, c["artifacts"].wasmCid)
    [] p.method = "setSecretsSchemaCid" ->
         /\ p.account = policy.owner
         /\ ~SecretsSchemaWithoutWasm(c["_secretsSchemaCid"], policy.artifacts.wasmCid)
    [] OTHER -> p.account = policy.owner

PolicyAfter(p, c) ==
  CASE p.method = "initialize" ->
         [policy EXCEPT !.initialized = TRUE, !.factory = c["_factory"], !.owner = c["_owner"],
                        !.artifacts = c["artifacts"], !.policyCodeHash = c["_policyCodeHash"]]
    [] p.method = "setSecretsSchemaCid" ->
         [policy EXCEPT !.artifacts.secretsSchemaCid = c["_secretsSchemaCid"]]
    [] p.method = "transferOwnership" -> [policy EXCEPT !.owner = c["newOwner"]]
    [] p.method = "renounceOwnership" -> [policy EXCEPT !.owner = None]

\* The same of a policy client: an approval is under its own domain, of this delegator, for its
\* nonce and this deadline.
DelegationAccepts(p, c) ==
  /\ p.method # "resignDelegator" => p.account = delegation.owner
  /\ p.method = "approveDelegator" =>
       LET s == c["signature"]
       IN  /\ s.by = c["delegator"] /\ s.deadline = c["deadline"] /\ now <= s.deadline
           /\ s.nonce = delegation.nonces[s.by]
           /\ s.domain = policyClientDomain("policyClient", client.chain)

DelegationAfter(p, c) ==
  CASE p.method = "approveDelegator" ->
         [delegation EXCEPT !.delegators = @ \cup {c["delegator"]}, !.nonces[c["delegator"]] = @ + 1]
    [] p.method = "removeDelegator" -> [delegation EXCEPT !.delegators = @ \ {c["delegator"]}]
    [] p.method = "setDelegatorRequired" -> [delegation EXCEPT !.required = c["required"]]
    [] p.method = "resignDelegator" ->
         [delegation EXCEPT !.delegators = @ \ {p.account}, !.nonces[p.account] = @ + 1]

\* The value of an id: what it is the hash of.
PolicyIdOf(config) == <<"id", config>>
SetId(i) == <<"set", i, IF i = 0 THEN <<>> ELSE sets[i]>>

\* What a view answers, in the order of its outputs.
Viewed(fn, args) ==
  CASE fn \in {"getPolicyId", "clientToPolicyId"} -> <<PolicyIdOf(policy.config)>>
    [] fn = "getPolicyConfig" -> <<policy.config, 100>>
    [] fn \in {"entrypoint", "getEntrypoint"} -> <<policy.artifacts.entrypoint>>
    [] fn \in {"metadataCid", "getMetadataCid"} -> <<policy.artifacts.metadataCid>>
    [] fn \in {"policyCid", "getPolicyCid"} -> <<policy.artifacts.policyCid>>
    [] fn \in {"schemaCid", "getSchemaCid"} -> <<policy.artifacts.schemaCid>>
    [] fn = "getWasmCid" -> <<policy.artifacts.wasmCid>>
    [] fn = "getSecretsSchemaCid" -> <<policy.artifacts.secretsSchemaCid>>
    [] fn = "owner" -> <<policy.owner>>
    [] fn = "factory" -> <<policy.factory>>
    [] fn \in {"isPolicyVerified", "supportsInterface", "isPolicy"} -> <<TRUE>>
    [] fn = "getPolicies" -> <<IF sets = <<>> THEN <<>> ELSE sets[Len(sets)]>>
    [] fn = "policyRevision" -> <<Len(sets)>>
    [] fn = "getPolicySetSnapshot" ->
         <<SetId(Len(sets)), Len(sets), IF sets = <<>> THEN <<>> ELSE sets[Len(sets)]>>
    [] fn = "isDelegator" -> <<args[1] \in delegation.delegators>>
    [] fn = "delegatorRequired" -> <<delegation.required>>
    [] fn = "delegatorNonces" -> <<delegation.nonces[args[1]]>>
    [] fn = "isIntentSpent" -> <<args[1].message \in landed>>

-----------------------------------------------------------------------------
(* The calls. *)

\* The parameters' bytes as text, which is JSON or not; null is no object.
policyParams(params) == IF params = "json" THEN "object" ELSE "text"

getPolicyConfig(values) ==
  LET result == Named(getPolicyConfigView.outputs, values)
  IN  [policyParams |-> policyParams(result["policyParams"]),
       policyParamsHex |-> result["policyParams"], expireAfter |-> result["expireAfter"]]

\* The contract's three values, in their order, by their names.
getPolicySetSnapshot(values) ==
  [policyId |-> values[1], revision |-> values[2], policies |-> values[3]]

Answered(method, values) ==
  CASE method = "getPolicyConfig" -> getPolicyConfig(values)
    [] method = "getPolicySetSnapshot" -> getPolicySetSnapshot(values)
    [] OTHER -> values[1]

\* One read of the latest block.
Read(k) ==
  /\ stage[k] = "idle"
  /\ \E m \in ContractReads : \E p \in Requests(m) :
       /\ asked' = [asked EXCEPT ![k] = p]
       /\ IF PublicEffect(client, m) = Throws \/ ~Encodes(Views[m].inputs, ReadArgs(p))
          THEN stage' = [stage EXCEPT ![k] = "threw"] /\ UNCHANGED answer
          ELSE /\ stage' = [stage EXCEPT ![k] = "answered"]
               /\ answer' = [answer EXCEPT ![k] = <<Views[m].outputs[1], Answered(m, Viewed(m, ReadArgs(p)))>>]
  /\ UNCHANGED <<focus, client, on, now, contracts, approvals>>

\* No policy contract or no chain throws before the wallet is asked for anything; the account is
\* the wallet's at this moment.
Start(k) ==
  /\ stage[k] = "idle"
  /\ \E m \in ContractWrites : \E p \in Requests(m) :
     \E a \in IF m = "initialize" THEN {"other"} ELSE Accounts :
       /\ asked' = [asked EXCEPT ![k] = [p EXCEPT !.account = a]]
       /\ stage' = [stage EXCEPT ![k] =
            IF m \in PolicyWrites /\ (client.policy = NoAddress \/ client.chain = None)
            THEN "threw" ELSE "prompt"]
  /\ UNCHANGED <<focus, client, on, now, contracts, approvals, answer>>

Sends(k) ==
  /\ stage[k] = "prompt"
  /\ stage' = [stage EXCEPT ![k] =
       IF \/ WalletEffect(client, asked[k].method, on) = Throws
          \/ ~Encodes(Inputs[asked[k].method], WriteArgs(asked[k]))
       THEN "threw" ELSE "sent"]
  /\ UNCHANGED <<focus, client, on, now, contracts, approvals, asked, answer>>

\* Its user refuses, or the node does not answer.
Fails(k) ==
  /\ stage[k] \in {"idle", "prompt"} /\ stage' = [stage EXCEPT ![k] = "threw"]
  /\ UNCHANGED <<focus, client, on, now, contracts, approvals, asked, answer>>

\* The transaction is mined, after any others.  Its caller has had the hash, and no more.
Mined(k) ==
  LET p == asked[k]
      c == Named(Inputs[p.method], WriteArgs(p))
      ofPolicy == p.method \in PolicyWrites
  IN  /\ stage[k] = "sent"
      /\ \/ /\ IF ofPolicy THEN PolicyAccepts(p, c) ELSE DelegationAccepts(p, c)
            /\ policy' = IF ofPolicy THEN PolicyAfter(p, c) ELSE policy
            /\ delegation' = IF ofPolicy THEN delegation ELSE DelegationAfter(p, c)
            /\ stage' = [stage EXCEPT ![k] = "done"]
         \/ /\ IF ofPolicy THEN ~PolicyAccepts(p, c) ELSE ~DelegationAccepts(p, c)
            /\ stage' = [stage EXCEPT ![k] = "reverted"] /\ UNCHANGED <<policy, delegation>>
      /\ UNCHANGED <<focus, client, on, now, sets, landed, approvals, asked, answer>>

\* A delegator consents to a policy client, on the chain of its own client.
SignsApproval(a) ==
  /\ focus # "policy" /\ client.chain # None /\ approvals = {}
  /\ approvals' = {[by |-> a, domain |-> policyClientDomain("policyClient", client.chain),
                    nonce |-> delegation.nonces[a], deadline |-> now + Ttl]}
  /\ UNCHANGED <<focus, client, on, now, contracts, asked, stage, answer>>

\* What others do to the contracts: a policy client configures the policy or replaces its set,
\* and a delegator lands an intent.
Others ==
  /\ \/ /\ focus = "policy" /\ policy.config = None /\ UNCHANGED <<sets, landed>>
        /\ \E params \in {"json", "text", "null"} : policy' = [policy EXCEPT !.config = params]
     \/ focus # "policy" /\ sets = <<>> /\ landed = {} /\ sets' = <<<<"spec1">>>> /\ UNCHANGED <<policy, landed>>
     \/ /\ focus # "policy" /\ sets = <<>> /\ landed = {} /\ UNCHANGED <<policy, sets>>
        /\ landed' = {[from |-> "user", to |-> "policyClient", value |-> 1, chainId |-> 1]}
  /\ UNCHANGED <<focus, client, on, now, delegation, approvals, asked, stage, answer>>

Next ==
  \/ \E k \in Calls : Read(k) \/ Start(k) \/ Sends(k) \/ Fails(k) \/ Mined(k)
  \/ \E a \in Accounts : SignsApproval(a)
  \/ Others

-----------------------------------------------------------------------------
(* Correctness. *)

\* What can have come between a call and its transaction, by the names its caller gave, and what
\* the documentation says of the parameters themselves (sdk-reference.mdx).
Overtaken(p) ==
  CASE p.method = "initialize" ->
         policy.initialized \/ (p.artifacts.secretsSchemaCid # "" /\ p.artifacts.wasmCid = "")
    [] p.method = "setSecretsSchemaCid" ->
         policy.owner # p.account \/ (p.secretsSchemaCid # "" /\ policy.artifacts.wasmCid = "")
    [] p.method \in {"transferOwnership", "renounceOwnership"} -> policy.owner # p.account
    [] p.method = "approveDelegator" ->
         \/ delegation.owner # p.account \/ now > p.signature.deadline
         \/ delegation.nonces[p.signature.by] # p.signature.nonce
    [] OTHER -> delegation.owner # p.account

\* What it asks the contracts to become.
Wanted(p) ==
  CASE p.method = "initialize" ->
         /\ policy'.artifacts = p.artifacts /\ policy'.owner = p.owner /\ policy'.factory = p.factory
         /\ p.policyCodeHash # None => policy'.policyCodeHash = p.policyCodeHash
         /\ p.policyCodeHash = None => policy'.policyCodeHash = Keccak256(p.policyBytes)
    [] p.method = "setSecretsSchemaCid" -> policy'.artifacts.secretsSchemaCid = p.secretsSchemaCid
    [] p.method = "transferOwnership" -> policy'.owner = p.newOwner
    [] p.method = "renounceOwnership" -> policy'.owner \notin Accounts
    [] p.method = "approveDelegator" ->
         p.delegator \in delegation'.delegators
           /\ delegation'.nonces[p.delegator] > delegation.nonces[p.delegator]
    [] p.method = "removeDelegator" -> p.delegator \notin delegation'.delegators
    [] p.method = "resignDelegator" -> p.account \notin delegation'.delegators
    [] p.method = "setDelegatorRequired" -> delegation'.required = p.required

\* What a read is read for: an intent in any form it can be written in, a delegator by name, a
\* snapshot and a configuration by theirs.  The others hand on what the contract says.
Told(p, value) ==
  CASE p.method = "isIntentSpent" -> value = \E i \in landed : i.value = p.intent.value.n
    [] p.method = "getPolicySetSnapshot" ->
         /\ value.revision = Len(sets) /\ value.policyId = SetId(value.revision)
         /\ value.policies = IF sets = <<>> THEN <<>> ELSE sets[value.revision]
    [] p.method = "getPolicyConfig" ->
         /\ value.policyParamsHex = policy.config /\ value.expireAfter = 100
         /\ value.policyParams = IF policy.config = "json" THEN "object" ELSE "text"
    [] p.method = "isDelegator" -> value = (p.delegator \in delegation.delegators)
    [] p.method = "delegatorNonces" -> value = delegation.nonces[p.delegator]
    [] OTHER -> TRUE

\* A transaction does what its caller asked for by name, or reverts because something came between
\* or the documentation says it does; a read answers for what was asked.
DoesAsAsked ==
  [][\A k \in Calls :
       /\ stage[k] = "sent" /\ stage'[k] = "reverted" => Overtaken(asked[k])
       /\ stage[k] = "sent" /\ stage'[k] = "done" => Wanted(asked[k])
       /\ stage[k] = "idle" /\ stage'[k] = "answered" => Told(asked'[k], answer'[k][2])]_vars

-----------------------------------------------------------------------------
(* The inductive invariant: what the contracts' answers come from. *)

\* A write asks for what its caller could: bytes or their hash, an approval that was signed.
WritesAreMeant ==
  \A k \in Calls : stage[k] \in {"prompt", "sent"} =>
    /\ asked[k].method \in PolicyWrites \cup DelegatorWrites
    /\ asked[k].method = "initialize" => asked[k].policyCodeHash # None \/ asked[k].policyBytes # None
    /\ asked[k].method = "approveDelegator" =>
         /\ asked[k].signature \in approvals /\ asked[k].delegator = asked[k].signature.by
         /\ asked[k].deadline = asked[k].signature.deadline

\* Approvals are for the policy client on the client's chain, and a nonce counts transactions.
ApprovalsAreTrue ==
  /\ \A s \in approvals : s.domain = policyClientDomain("policyClient", client.chain)
  /\ \A a \in Accounts : delegation.nonces[a] <= Cardinality({k \in Calls : stage[k] = "done"})

PoliciesHold == WritesAreMeant /\ ApprovalsAreTrue
=============================================================================
