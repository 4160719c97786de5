----------------------- MODULE ClientContractsProofs ------------------------
EXTENDS ClientContracts, FiniteSetTheorems, TLAPS

\* Every chain has a registry, that of its deployment.
LEMMA EveryChainHasARegistry ==
  ASSUME NEW chain \in Chains
  PROVE  /\ chain \in DOMAIN IDENTITY_REGISTRY
         /\ IDENTITY_REGISTRY[chain] = Address("identityRegistry", chain)
         /\ IDENTITY_REGISTRY[chain] # NoAddress
<1>1. DEPLOYMENT_KEYS[chain] \in {"newton-prover", "newton-cross-chain"}
  BY DEF Chains, DEPLOYMENT_KEYS
<1>2. getDeployment(chain)["identityRegistry"] = Address("identityRegistry", chain)
  BY <1>1 DEF getDeployment, DEPLOYMENTS, AddressKeys
<1>3. Address("identityRegistry", chain) \notin {NoAddress, Malformed}
  BY DEF Address, NoAddress, Malformed, None
<1>4. QED
  BY <1>2, <1>3 DEF IDENTITY_REGISTRY, AddressMap, asDeploymentAddress

\* Of the addresses the SDK looks up itself, every one it finds is on the chain it looked at.
LEMMA FoundOnTheChain ==
  ASSUME NEW key \in AddressKeys, NEW chain,
         At(AddressMap(key), chain).contract \in AddressKeys
  PROVE  At(AddressMap(key), chain).on = chain
<1>1. chain \in DOMAIN AddressMap(key)
  BY DEF At, NoAddress, Address, None, AddressKeys
<1>2. chain \in Chains /\ At(AddressMap(key), chain) = asDeploymentAddress(getDeployment(chain)[key])
  BY <1>1 DEF AddressMap, At
<1>3. getDeployment(chain)[key] = Address(key, chain)
  <2>1. DEPLOYMENT_KEYS[chain] \in {"newton-prover", "newton-cross-chain"}
    BY <1>2 DEF Chains, DEPLOYMENT_KEYS
  <2>2. QED
    BY <1>2, <2>1 DEF getDeployment, DEPLOYMENTS
<1>4. QED
  BY <1>2, <1>3 DEF asDeploymentAddress, Address, Threw, NoAddress, Malformed, None

-----------------------------------------------------------------------------
(* The arguments of a write, by position and by name. *)

Differ(names) == \A i, j \in DOMAIN names : names[i] = names[j] => i = j

\* A record that has the positional arguments by their names.
NamesOf(decoded, names, args) ==
  /\ \A x : x \in DOMAIN decoded <=> \E i \in DOMAIN names : x = names[i]
  /\ \A i \in DOMAIN names : decoded[names[i]] = args[i]

\* An argument is known by the name that its position has.
LEMMA DecodeNames ==
  ASSUME NEW fn, NEW args, Differ(Inputs[fn])
  PROVE  NamesOf(Decode(fn, args), Inputs[fn], args)
<1>1. ASSUME NEW i \in DOMAIN Inputs[fn]
      PROVE  (CHOOSE j \in DOMAIN Inputs[fn] : Inputs[fn][j] = Inputs[fn][i]) = i
  BY DEF Differ
<1>2. QED
  BY <1>1 DEF Decode, NamesOf

\* The names of each write.
LEMMA LinkIdentityNames ==
  ASSUME NEW args
  PROVE  LET c == Decode("linkIdentity", args)
         IN  /\ DOMAIN c =
                  {"_identityOwner", "_clientUser", "_policyClient", "_identityDomains",
                   "_identityOwnerSignature", "_identityOwnerNonce", "_identityOwnerDeadline",
                   "_clientUserSignature", "_clientUserNonce", "_clientUserDeadline"}
             /\ c["_identityOwner"] = args[1] /\ c["_clientUser"] = args[2]
             /\ c["_identityOwnerSignature"] = args[5] /\ c["_identityOwnerNonce"] = args[6]
             /\ c["_identityOwnerDeadline"] = args[7] /\ c["_clientUserSignature"] = args[8]
             /\ c["_clientUserNonce"] = args[9] /\ c["_clientUserDeadline"] = args[10]
<1>1. Inputs["linkIdentity"] = linkIdentityInputs
  BY DEF Inputs
<1>2. Differ(Inputs["linkIdentity"])
  BY <1>1 DEF linkIdentityInputs, Differ
<1>3. NamesOf(Decode("linkIdentity", args), Inputs["linkIdentity"], args)
  BY <1>2, DecodeNames
<1>4. QED
  BY <1>1, <1>3 DEF NamesOf, linkIdentityInputs

LEMMA AsSignerNames ==
  ASSUME NEW args
  PROVE  LET c == Decode("linkIdentityAsSigner", args)
         IN  /\ DOMAIN c = {"_policyClient", "_identityDomains", "_clientUser", "_signature", "_nonce", "_deadline"}
             /\ c["_clientUser"] = args[3]
             /\ c["_signature"] = args[4]
             /\ c["_nonce"] = args[5]
             /\ c["_deadline"] = args[6]
<1>1. Inputs["linkIdentityAsSigner"] = linkIdentityAsSignerInputs
  BY DEF Inputs
<1>2. Differ(Inputs["linkIdentityAsSigner"])
  BY <1>1 DEF linkIdentityAsSignerInputs, Differ
<1>3. NamesOf(Decode("linkIdentityAsSigner", args), Inputs["linkIdentityAsSigner"], args)
  BY <1>2, DecodeNames
<1>4. QED
  BY <1>1, <1>3 DEF NamesOf, linkIdentityAsSignerInputs

LEMMA AsSignerAndUserNames ==
  ASSUME NEW args
  PROVE  LET c == Decode("linkIdentityAsSignerAndUser", args)
         IN  /\ DOMAIN c = {"_policyClient", "_identityDomains"}
<1>1. Inputs["linkIdentityAsSignerAndUser"] = linkIdentityAsSignerAndUserInputs
  BY DEF Inputs
<1>2. Differ(Inputs["linkIdentityAsSignerAndUser"])
  BY <1>1 DEF linkIdentityAsSignerAndUserInputs, Differ
<1>3. NamesOf(Decode("linkIdentityAsSignerAndUser", args), Inputs["linkIdentityAsSignerAndUser"], args)
  BY <1>2, DecodeNames
<1>4. QED
  BY <1>1, <1>3 DEF NamesOf, linkIdentityAsSignerAndUserInputs

LEMMA AsUserNames ==
  ASSUME NEW args
  PROVE  LET c == Decode("linkIdentityAsUser", args)
         IN  /\ DOMAIN c = {"_identityOwner", "_policyClient", "_identityDomains", "_signature", "_nonce", "_deadline"}
             /\ c["_identityOwner"] = args[1]
             /\ c["_signature"] = args[4]
             /\ c["_nonce"] = args[5]
             /\ c["_deadline"] = args[6]
<1>1. Inputs["linkIdentityAsUser"] = linkIdentityAsUserInputs
  BY DEF Inputs
<1>2. Differ(Inputs["linkIdentityAsUser"])
  BY <1>1 DEF linkIdentityAsUserInputs, Differ
<1>3. NamesOf(Decode("linkIdentityAsUser", args), Inputs["linkIdentityAsUser"], args)
  BY <1>2, DecodeNames
<1>4. QED
  BY <1>1, <1>3 DEF NamesOf, linkIdentityAsUserInputs

LEMMA RegisterNames ==
  ASSUME NEW args
  PROVE  LET c == Decode("registerIdentityData", args)
         IN  /\ DOMAIN c = {"_identityDomain", "_dataRefId", "_gatewaySignature", "_deadline"}
             /\ c["_identityDomain"] = args[1]
             /\ c["_dataRefId"] = args[2]
             /\ c["_gatewaySignature"] = args[3]
             /\ c["_deadline"] = args[4]
<1>1. Inputs["registerIdentityData"] = registerIdentityDataInputs
  BY DEF Inputs
<1>2. Differ(Inputs["registerIdentityData"])
  BY <1>1 DEF registerIdentityDataInputs, Differ
<1>3. NamesOf(Decode("registerIdentityData", args), Inputs["registerIdentityData"], args)
  BY <1>2, DecodeNames
<1>4. QED
  BY <1>1, <1>3 DEF NamesOf, registerIdentityDataInputs

LEMMA UnlinkAsSignerNames ==
  ASSUME NEW args
  PROVE  LET c == Decode("unlinkIdentityAsSigner", args)
         IN  /\ DOMAIN c = {"_clientUser", "_policyClient", "_identityDomains"}
             /\ c["_clientUser"] = args[1]
<1>1. Inputs["unlinkIdentityAsSigner"] = unlinkIdentityAsSignerInputs
  BY DEF Inputs
<1>2. Differ(Inputs["unlinkIdentityAsSigner"])
  BY <1>1 DEF unlinkIdentityAsSignerInputs, Differ
<1>3. NamesOf(Decode("unlinkIdentityAsSigner", args), Inputs["unlinkIdentityAsSigner"], args)
  BY <1>2, DecodeNames
<1>4. QED
  BY <1>1, <1>3 DEF NamesOf, unlinkIdentityAsSignerInputs

LEMMA UnlinkAsUserNames ==
  ASSUME NEW args
  PROVE  LET c == Decode("unlinkIdentityAsUser", args)
         IN  /\ DOMAIN c = {"_policyClient", "_identityDomains"}
<1>1. Inputs["unlinkIdentityAsUser"] = unlinkIdentityAsUserInputs
  BY DEF Inputs
<1>2. Differ(Inputs["unlinkIdentityAsUser"])
  BY <1>1 DEF unlinkIdentityAsUserInputs, Differ
<1>3. NamesOf(Decode("unlinkIdentityAsUser", args), Inputs["unlinkIdentityAsUser"], args)
  BY <1>2, DecodeNames
<1>4. QED
  BY <1>1, <1>3 DEF NamesOf, unlinkIdentityAsUserInputs

\* A registration, by the names its caller gives it.
Registration(p) ==
  [domain |-> p.gateway.domain, ref |-> p.gateway.ref, signature |-> p.gateway,
   deadline |-> p.gateway.deadline]

\* What the registry makes of the arguments is what the parameters said by name.
LEMMA UnderstoodIs ==
  ASSUME NEW p \in Requests, p.owner.by = Owner, p.user.by = User, Asks(p)
  PROVE  LET t == Understood(p.fn, p.account, Args(p))
         IN  /\ t.owner = IF p.fn = "unlinkIdentityAsUser" THEN None ELSE Owner
             /\ t.user = IF p.fn \in {"linkIdentityAsSignerAndUser", "registerIdentityData"}
                         THEN Owner ELSE User
             /\ t.ownerSigned = IF p.fn \in {"linkIdentity", "linkIdentityAsUser"}
                                THEN <<p.owner, p.owner.nonce, p.owner.deadline>> ELSE <<>>
             /\ t.userSigned = IF p.fn \in {"linkIdentity", "linkIdentityAsSigner"}
                               THEN <<p.user, p.user.nonce, p.user.deadline>> ELSE <<>>
             /\ p.fn = "registerIdentityData" => t.registers = Registration(p)
<1>0. p.fn \in RegistryWrites /\ p.account = Sender(p.fn)
  BY DEF Requests, Asks
<1>1. CASE p.fn = "linkIdentity"
  BY <1>1, LinkIdentityNames DEF Understood, Args, linkIdentity
<1>2. CASE p.fn = "linkIdentityAsSigner"
  <2>1. Args(p) = linkIdentityAsSigner(p)
    BY <1>2 DEF Args
  <2>2. LET args == linkIdentityAsSigner(p)
        IN  args[3] = User /\ args[4] = p.user /\ args[5] = p.user.nonce /\ args[6] = p.user.deadline
    BY DEF linkIdentityAsSigner
  <2>3. p.account = Owner
    BY <1>0, <1>2 DEF Sender
  <2>4. QED
    BY <1>2, <2>1, <2>2, <2>3, AsSignerNames DEF Understood
<1>3. CASE p.fn = "linkIdentityAsSignerAndUser"
  BY <1>0, <1>3, AsSignerAndUserNames DEF Understood, Args, linkIdentityAsSignerAndUser, Sender
<1>4. CASE p.fn = "linkIdentityAsUser"
  BY <1>0, <1>4, AsUserNames DEF Understood, Args, linkIdentityAsUser, Sender
<1>5. CASE p.fn = "registerIdentityData"
  BY <1>0, <1>5, RegisterNames DEF Understood, Args, registerIdentityData, Sender, Registration
<1>6. CASE p.fn = "unlinkIdentityAsSigner"
  BY <1>0, <1>6, UnlinkAsSignerNames DEF Understood, Args, unlinkIdentityAsSigner, Sender
<1>7. CASE p.fn = "unlinkIdentityAsUser"
  BY <1>0, <1>7, UnlinkAsUserNames DEF Understood, Args, unlinkIdentityAsUser, Sender
<1>8. QED
  BY <1>0, <1>1, <1>2, <1>3, <1>4, <1>5, <1>6, <1>7 DEF RegistryWrites

-----------------------------------------------------------------------------
(* The steps. *)

\* What the contracts of a policy do leaves the rest of the client alone.
LEMMA PolicyStepsLeaveTheClient ==
  ASSUME Policies!Next
  PROVE  UNCHANGED <<focus, client, on, now>>
<1>1. ASSUME NEW k \in Calls
      PROVE  /\ Policies!Read(k) => UNCHANGED <<focus, client, on, now>>
             /\ Policies!Start(k) => UNCHANGED <<focus, client, on, now>>
             /\ Policies!Sends(k) => UNCHANGED <<focus, client, on, now>>
             /\ Policies!Fails(k) => UNCHANGED <<focus, client, on, now>>
             /\ Policies!Mined(k) => UNCHANGED <<focus, client, on, now>>
  BY DEF Policies!Read, Policies!Start, Policies!Sends, Policies!Fails, Policies!Mined
<1>2. /\ \A a : Policies!SignsApproval(a) => UNCHANGED <<focus, client, on, now>>
      /\ Policies!Others => UNCHANGED <<focus, client, on, now>>
  BY DEF Policies!SignsApproval, Policies!Others
<1>3. QED
  BY <1>1, <1>2 DEF Policies!Next

\* A step is one of the registries', or leaves them alone.
LEMMA LinkSteps ==
  ASSUME [AllNext]_allVars
  PROVE  \/ \E k \in Calls : Start(k) \/ Checks(k) \/ Approves(k) \/ Rejects(k) \/ Mined(k)
         \/ LinkApp \/ RegisterUserData \/ PopupUnlinks \/ UserSigns \/ UploadIdentityEncrypted
         \/ Switches \/ Tick \/ UNCHANGED vars
BY PolicyStepsLeaveTheClient DEF AllNext, allVars, linkVars, vars, Acts, Around

\* A step is one of the policy's contracts, or leaves them alone.
LEMMA PolicySteps ==
  ASSUME [AllNext]_allVars
  PROVE  \/ \E k \in Calls : \/ Policies!Read(k) \/ Policies!Start(k) \/ Policies!Sends(k)
                             \/ Policies!Fails(k) \/ Policies!Mined(k)
         \/ \E a \in Policies!Accounts : Policies!SignsApproval(a)
         \/ Policies!Others \/ UNCHANGED policyVars
BY DEF AllNext, allVars, Policies!Next

\* A client stays what it is.
LEMMA ClientStays ==
  ASSUME [AllNext]_allVars
  PROVE  UNCHANGED <<focus, client>>
<1>1. Acts \/ Around => UNCHANGED client
  BY DEF Acts, Start, Checks, Approves, Rejects, Mined, LinkApp, RegisterUserData, PopupUnlinks,
     UserSigns, UploadIdentityEncrypted, Around, Switches, Tick
<1>2. QED
  BY <1>1, PolicyStepsLeaveTheClient DEF AllNext, allVars

-----------------------------------------------------------------------------
(* Where a client's methods lead. *)

\* An effect that leads to no contract of the SDK's, or to one on the effect's chain.
Leads(e) == e.to.contract \in AddressKeys => e.to.on = ChainOf(e)

LEMMA OthersLead ==
  ASSUME NEW way, NEW chain, NEW to1, to1.contract \notin AddressKeys
  PROVE  Leads([way |-> way, chain |-> chain, to |-> to1])
BY DEF Leads

LEMMA NothingLeads ==
  /\ NoAddress.contract \notin AddressKeys
  /\ Leads(Throws) /\ Leads(Local)
BY DEF Leads, Throws, Local, NoAddress, Address, None, AddressKeys

\* What the method of a wallet client reaches, and one of a public client.
LEMMA WalletEffectsLead ==
  ASSUME client \in Clients, WalletActionsOf(client), NEW m \in WalletMethods, NEW chain
  PROVE  Leads(WalletEffect(client, m, chain))
<1>1. /\ client.policy.contract \notin AddressKeys
      /\ client.overrides.gatewayApiUrl \notin AddressKeys
  BY GivenAssumption
<1>2. client.overrides.identityRegistry.contract \notin AddressKeys
  BY IdentityLinksAssumption, NothingLeads DEF Address, AddressKeys
<1>3. Leads(Gateway(client, NetworkOf(client)))
  <2>1. \A url \in {"gateway", "gateway.testnet", client.overrides.gatewayApiUrl} :
          Address(url, None).contract \notin AddressKeys
    BY <1>1 DEF Address, AddressKeys
  <2>2. NetworkOf(client) \in Chains
    BY DEF WalletActionsOf, supportedChains, Chains, DEPLOYMENT_KEYS
  <2>3. GATEWAY_API_URLS[NetworkOf(client)] \in {"gateway", "gateway.testnet"}
    BY <2>2 DEF GATEWAY_API_URLS
  <2>4. QED
    BY <2>1, <2>3, OthersLead DEF Gateway
<1>4. \A to1 : to1.contract \notin AddressKeys => Leads(Writes(client.chain, chain, to1))
  BY NothingLeads DEF Writes, Leads
<1>5. Leads(PolicyContractOf(client, Writes(client.chain, chain, client.policy)))
  BY <1>1, <1>4, NothingLeads DEF PolicyContractOf
<1>6. Leads(Writes(client.chain, chain, PolicyClientAddress))
  BY <1>4 DEF PolicyClientAddress, Address, AddressKeys
<1>7. Leads(RegistryWrite(client, chain))
  <2>1. resolveIdentityRegistry(client).contract \in AddressKeys
          => resolveIdentityRegistry(client).on = client.chain
    BY FoundOnTheChain DEF resolveIdentityRegistry, IDENTITY_REGISTRY, AddressKeys
  <2>2. client.chain # None => Leads([way |-> "write", chain |-> client.chain,
                                      to |-> resolveIdentityRegistry(client)])
    BY <2>1 DEF Leads, ChainOf
  <2>3. QED
    BY <2>2, NothingLeads DEF RegistryWrite, Writes
<1>8. Leads(PopupParams(client, m))
  BY <1>2, NothingLeads, OthersLead DEF PopupParams, Popup
<1> HIDE DEF Leads
<1>9. QED
  BY <1>3, <1>5, <1>6, <1>7, <1>8, NothingLeads DEF WalletEffect, WalletMethods

LEMMA PublicEffectsLead ==
  ASSUME client \in Clients, NEW m \in PublicMethods
  PROVE  Leads(PublicEffect(client, m))
<1>1. /\ client.policy.contract \notin AddressKeys
      /\ client.overrides.taskManagerAddress.contract \notin AddressKeys
  BY GivenAssumption
<1>2. Leads(Reads(client, TaskManagerOf(client)))
  <2>1. TaskManagerOf(client).contract \in AddressKeys => TaskManagerOf(client).on = NetworkOf(client)
    BY <1>1, FoundOnTheChain DEF TaskManagerOf, Given, NEWTON_PROVER_TASK_MANAGER, AddressKeys
  <2>2. ChainOf(Reads(client, TaskManagerOf(client))) = NetworkOf(client)
    BY DEF ChainOf, Reads, NetworkOf
  <2>3. QED
    BY <2>1, <2>2 DEF Leads, Reads
<1>3. Leads(PolicyContractOf(client, Reads(client, client.policy)))
  BY <1>1, NothingLeads, OthersLead DEF PolicyContractOf, Reads
<1>4. Leads(Reads(client, PolicyClientAddress))
  BY OthersLead DEF Reads, PolicyClientAddress, Address, AddressKeys
<1> HIDE DEF Leads
<1>5. QED
  BY <1>2, <1>3, <1>4, NothingLeads DEF PublicEffect, PublicMethods

-----------------------------------------------------------------------------
(* The registries: the inductive invariant. *)

\* The registries a signature may be for.
LEMMA RegistriesOfAClient ==
  ASSUME client \in Clients, WalletActionsOf(client), client.chain # None
  PROVE  /\ client.chain \in Nets /\ client.chain \in Chains
         /\ resolveIdentityRegistry(client) = Address("identityRegistry", client.chain)
         /\ resolveIdentityRegistry(client) = IDENTITY_REGISTRY[client.chain]
         /\ resolveIdentityRegistry(client) \in Registries
         /\ Given(client.overrides.identityRegistry, resolveIdentityRegistry(client))
              \in Registries \cap {resolveIdentityRegistry(client), client.overrides.identityRegistry}
<1>1. /\ client.chain \in Nets /\ client.chain \in Chains
      /\ client.overrides.identityRegistry \in {NoAddress} \cup {Address("custom", n) : n \in Nets}
  BY IdentityLinksAssumption
<1>2. /\ resolveIdentityRegistry(client) = IDENTITY_REGISTRY[client.chain]
      /\ resolveIdentityRegistry(client) = Address("identityRegistry", client.chain)
  BY <1>1, EveryChainHasARegistry DEF resolveIdentityRegistry, At
<1>3. QED
  BY <1>1, <1>2 DEF Registries, Given

LEMMA CardinalityOfCalls == IsFiniteSet(Calls) /\ Cardinality(Calls) \in Nat
BY IdentityLinksAssumption, FS_CardinalityType

\* At first.
LEMMA NothingIsARequest ==
  /\ Nothing \in Requests
  /\ Nothing.owner.by = Owner /\ Nothing.owner.as = "signer"
  /\ Nothing.user.by = User /\ Nothing.user.as = "user"
<1>1. 0 \in 0..Cardinality(Calls) /\ 0 \in 0..MaxTime + Ttl
  BY CardinalityOfCalls, IdentityLinksAssumption
<1>2. Nothing.owner \in Signatures /\ Nothing.user \in Signatures
  BY <1>1 DEF Nothing, Signatures, Owner, User
<1>3. Nothing.gateway \in Cosignatures
  BY <1>1 DEF Nothing, Cosignatures, Accounts, Domains, Refs
<1>4. QED
  BY <1>2, <1>3 DEF Nothing, Requests, RegistryWrites, Accounts

LEMMA LinksInitially ==
  ASSUME AllInit
  PROVE  LinksTypeOK /\ LinksHold
<1> USE CardinalityOfCalls, IdentityLinksAssumption DEF AllInit, Init
<1>1. client \in Clients /\ on \in Nets /\ now \in 0..MaxTime /\ payloadId \in 0..MaxSigned
  OBVIOUS
<1>2. nonces \in [Registries -> [Accounts -> 0..Cardinality(Calls)]]
  OBVIOUS
<1>3. Nothing \in Requests
  BY NothingIsARequest
<1>4. SignaturesAreOwn /\ signed \subseteq Signatures /\ cosigned \subseteq Cosignatures
  BY FS_EmptySet DEF SignaturesAreOwn
<1>5. CallsAreMeant
  BY NothingIsARequest DEF CallsAreMeant
<1>6. RegistriesAreTrue
  <2>1. {k \in Calls : stage[k] = "done"} = {}
    OBVIOUS
  <2>2. Cardinality({k \in Calls : stage[k] = "done"}) = 0
    BY <2>1, FS_EmptySet
  <2>3. \A r \in Registries : links[r] = {} /\ \A a \in Accounts : nonces[r][a] = 0
    OBVIOUS
  <2>4. \A r \in Registries : \A a \in Accounts :
          nonces[r][a] <= Cardinality({k \in Calls : stage[k] = "done"})
    BY <2>2, <2>3
  <2>5. QED
    BY <2>3, <2>4 DEF RegistriesAreTrue
<1>7. stage \in [Calls -> Stages] /\ asked \in [Calls -> Requests]
  BY <1>3 DEF Stages
<1>8. /\ to \in [Calls -> Registries \cup {NoAddress}] /\ net \in [Calls -> Nets \cup {None}]
      /\ links \in [Registries -> SUBSET LinksThere] /\ data \in [Registries -> SUBSET DataThere]
  OBVIOUS
<1>9. WalletActionsOf(client)
  OBVIOUS
<1>10. QED
  BY <1>1, <1>2, <1>4, <1>5, <1>6, <1>7, <1>8, <1>9 DEF LinksTypeOK, LinksHold

\* A signature that is new is one of the party's, in its own role, for a registry of the client;
\* one of the gateway's is the owner's.
LEMMA SigningKeepsIt ==
  ASSUME LinksTypeOK, LinksHold,
         NEW s \in SUBSET Signatures, NEW g \in SUBSET Cosignatures, IsFiniteSet(s), IsFiniteSet(g),
         \A x \in s : /\ x.as = IF x.by = Owner THEN "signer" ELSE "user"
                      /\ x.registry \in {resolveIdentityRegistry(client), client.overrides.identityRegistry},
         \A x \in g : x.owner = Owner /\ x.registry = resolveIdentityRegistry(client),
         signed' = signed \cup s, cosigned' = cosigned \cup g,
         UNCHANGED <<client, on, now, registry, asked, stage, to, net>>, payloadId' \in 0..MaxSigned
  PROVE  LinksTypeOK' /\ LinksHold'
<1>1. IsFiniteSet(signed') /\ IsFiniteSet(cosigned')
  BY FS_Union DEF LinksHold, SignaturesAreOwn
<1>2. SignaturesAreOwn'
  BY <1>1 DEF LinksHold, SignaturesAreOwn
<1>3. CallsAreMeant'
  BY DEF LinksHold, CallsAreMeant, Asks
<1>4. RegistriesAreTrue'
  BY DEF LinksHold, RegistriesAreTrue, registry
<1>5. LinksTypeOK'
  BY DEF LinksTypeOK, registry
<1>6. QED
  BY <1>2, <1>3, <1>4, <1>5 DEF LinksHold

LEMMA NextPayloadIdIs ==
  ASSUME NEW id \in 0..MaxSigned
  PROVE  NextPayloadId(id, MaxSigned) \in 0..MaxSigned
BY IdentityLinksAssumption DEF NextPayloadId

LEMMA LinkAppKeepsIt ==
  ASSUME LinksTypeOK, LinksHold, LinkApp
  PROVE  LinksTypeOK' /\ LinksHold'
<1> DEFINE r == PopupRegistry("linkApp")
           s == [by |-> Owner, as |-> "signer", registry |-> r,
                 nonce |-> nonces[r][Owner], deadline |-> now + Ttl]
<1>1. r \in Registries \cap {resolveIdentityRegistry(client), client.overrides.identityRegistry}
  BY RegistriesOfAClient
     DEF LinkApp, MaySign, LinksTypeOK, LinksHold, PopupRegistry, PopupParams, Popup
<1> HIDE DEF r
<1>2. s \in Signatures
  BY <1>1, IdentityLinksAssumption DEF LinksTypeOK, Signatures, Accounts
<1>3. payloadId' \in 0..MaxSigned
  BY NextPayloadIdIs DEF LinkApp, LinksTypeOK
<1>4. signed' = signed \cup {s} /\ UNCHANGED <<client, on, now, registry, cosigned, asked, stage, to, net>>
  BY DEF LinkApp, r
<1>5. s.as = (IF s.by = Owner THEN "signer" ELSE "user") /\ s.registry = r
  OBVIOUS
<1> HIDE DEF s
<1>6. IsFiniteSet({s}) /\ IsFiniteSet({})
  BY FS_EmptySet, FS_Singleton
<1>7. cosigned' = cosigned \cup {}
  BY <1>4
<1>8. QED
  BY <1>1, <1>2, <1>3, <1>4, <1>5, <1>6, <1>7, SigningKeepsIt

LEMMA UserSignsKeepsIt ==
  ASSUME LinksTypeOK, LinksHold, UserSigns
  PROVE  LinksTypeOK' /\ LinksHold'
<1>1. PICK r \in {resolveIdentityRegistry(client),
                  Given(client.overrides.identityRegistry, resolveIdentityRegistry(client))} :
        signed' = signed \cup {[by |-> User, as |-> "user", registry |-> r,
                                nonce |-> nonces[r][User], deadline |-> now + Ttl]}
  BY DEF UserSigns
<1> DEFINE s == [by |-> User, as |-> "user", registry |-> r,
                 nonce |-> nonces[r][User], deadline |-> now + Ttl]
<1>2. r \in Registries \cap {resolveIdentityRegistry(client), client.overrides.identityRegistry}
  BY RegistriesOfAClient DEF MaySign, UserSigns, LinksTypeOK, LinksHold
<1>3. s \in Signatures
  BY <1>2, IdentityLinksAssumption DEF LinksTypeOK, Signatures, Accounts
<1>4. payloadId' \in 0..MaxSigned /\ UNCHANGED <<client, on, now, registry, cosigned, asked, stage, to, net>>
  BY DEF UserSigns, LinksTypeOK
<1>5. s.as = (IF s.by = Owner THEN "signer" ELSE "user") /\ s.registry = r
  BY DEF Owner, User
<1>6. signed' = signed \cup {s} /\ cosigned' = cosigned \cup {}
  BY <1>1, <1>4
<1> HIDE DEF s
<1>7. IsFiniteSet({s}) /\ IsFiniteSet({})
  BY FS_EmptySet, FS_Singleton
<1>8. QED
  BY <1>2, <1>3, <1>4, <1>5, <1>6, <1>7, SigningKeepsIt

LEMMA UploadKeepsIt ==
  ASSUME LinksTypeOK, LinksHold, UploadIdentityEncrypted
  PROVE  LinksTypeOK' /\ LinksHold'
<1>1. PICK u \in Uploads :
        cosigned' = cosigned \cup {[owner |-> Owner, registry |-> IDENTITY_REGISTRY[client.chain],
                                   domain |-> u.domain, ref |-> u.ref, deadline |-> now + Ttl]}
  BY DEF UploadIdentityEncrypted
<1> DEFINE g == [owner |-> Owner, registry |-> IDENTITY_REGISTRY[client.chain],
                 domain |-> u.domain, ref |-> u.ref, deadline |-> now + Ttl]
<1>2. /\ IDENTITY_REGISTRY[client.chain] \in Registries
      /\ IDENTITY_REGISTRY[client.chain] = resolveIdentityRegistry(client)
  BY RegistriesOfAClient DEF MaySign, UploadIdentityEncrypted, LinksTypeOK, LinksHold
<1>3. u.domain \in Domains /\ u.ref \in Refs
  BY DEF Uploads, Domains, Refs
<1>4. g \in Cosignatures
  BY <1>2, <1>3, IdentityLinksAssumption DEF LinksTypeOK, Cosignatures, Accounts
<1>5. payloadId' \in 0..MaxSigned /\ UNCHANGED <<client, on, now, registry, signed, asked, stage, to, net>>
  BY DEF UploadIdentityEncrypted, LinksTypeOK
<1>6. g.owner = Owner /\ g.registry = resolveIdentityRegistry(client)
  BY <1>2
<1>7. signed' = signed \cup {} /\ cosigned' = cosigned \cup {g}
  BY <1>1, <1>5
<1> HIDE DEF g
<1>8. IsFiniteSet({g}) /\ IsFiniteSet({})
  BY FS_EmptySet, FS_Singleton
<1>9. QED
  BY <1>4, <1>5, <1>6, <1>7, <1>8, SigningKeepsIt

\* A registration of data that there may be leaves only such data.
LEMMA RegisteredIs ==
  ASSUME NEW bound \in SUBSET DataThere, NEW owner \in Accounts, NEW domain \in Domains, NEW ref \in Refs
  PROVE  Registered(bound, owner, domain, ref) \in SUBSET DataThere
<1>1. Bound(owner, domain, ref) \in DataThere
  BY DEF DataThere
<1>2. QED
  BY <1>1 DEF Registered

LEMMA RegisterUserDataKeepsIt ==
  ASSUME LinksTypeOK, LinksHold, RegisterUserData
  PROVE  LinksTypeOK' /\ LinksHold'
<1> DEFINE r == PopupRegistry("registerUserData")
<1>1. Registered(data[r], Owner, "kyc", "r1") \in SUBSET DataThere
  <2>1. r \in Registries
    BY RegistriesOfAClient DEF RegisterUserData, LinksTypeOK, LinksHold, PopupRegistry, PopupParams, Popup
  <2>2. data[r] \in SUBSET DataThere
    BY <2>1 DEF LinksTypeOK
  <2>3. Owner \in Accounts /\ "kyc" \in Domains /\ "r1" \in Refs
    BY DEF Accounts, Domains, Refs
  <2>4. QED
    BY <2>2, <2>3, RegisteredIs
<1> HIDE DEF r
<1>2. /\ data' = [data EXCEPT ![r] = Registered(data[r], Owner, "kyc", "r1")]
      /\ payloadId' = NextPayloadId(payloadId, MaxSigned)
      /\ UNCHANGED <<client, on, now, nonces, links, given, asked, stage, to, net>>
  BY DEF RegisterUserData, r
<1>3. data' \in [Registries -> SUBSET DataThere]
  BY <1>1, <1>2 DEF LinksTypeOK
<1>4. payloadId' \in 0..MaxSigned
  BY <1>2, NextPayloadIdIs DEF LinksTypeOK
<1>5. LinksTypeOK'
  BY <1>2, <1>3, <1>4 DEF LinksTypeOK, given
<1>6. QED
  BY <1>2, <1>5 DEF LinksHold, SignaturesAreOwn, CallsAreMeant, Asks, RegistriesAreTrue, given

\* What a call may ask for.
LEMMA RequestedIs ==
  ASSUME LinksTypeOK, LinksHold, NEW fn \in RegistryWrites, NEW p \in Requested(fn)
  PROVE  /\ p \in Requests /\ Asks(p)
         /\ p.owner.by = Owner /\ p.owner.as = "signer" /\ p.user.by = User /\ p.user.as = "user"
<1> DEFINE Owners == IF fn \in OwnerSigns THEN {s \in signed : s.by = Owner} ELSE {Nothing.owner}
           Users == IF fn \in UserSignsFor THEN {s \in signed : s.by = User} ELSE {Nothing.user}
           Gateways == IF fn = "registerIdentityData" THEN cosigned ELSE {Nothing.gateway}
<1> HIDE DEF Owners, Users, Gateways
<1>1. p \in {[fn |-> fn, account |-> Sender(fn), owner |-> o, user |-> u, gateway |-> g] :
               o \in Owners, u \in Users, g \in Gateways}
  BY DEF Requested, Owners, Users, Gateways
<1>2. /\ p = [fn |-> p.fn, account |-> p.account, owner |-> p.owner, user |-> p.user, gateway |-> p.gateway]
      /\ p.fn = fn /\ p.account = Sender(fn)
      /\ p.owner \in Owners /\ p.user \in Users /\ p.gateway \in Gateways
  BY <1>1, SMT
<1>3. Nothing.owner \in Signatures /\ Nothing.user \in Signatures /\ Nothing.gateway \in Cosignatures
  BY NothingIsARequest DEF Requests
<1>4. p.owner \in Signatures /\ p.user \in Signatures /\ p.gateway \in Cosignatures
  BY <1>2, <1>3 DEF Owners, Users, Gateways, LinksTypeOK
<1>5. Sender(fn) \in Accounts
  BY DEF Sender, Accounts, Owner, User
<1>6. p \in Requests
  BY <1>2, <1>4, <1>5 DEF Requests
<1>7. Asks(p)
  BY <1>2 DEF Asks, Owners, Users, Gateways
<1>8. p.owner.by = Owner /\ p.user.by = User
  BY <1>2, NothingIsARequest DEF Owners, Users
<1>9. p.owner.as = "signer" /\ p.user.as = "user"
  BY <1>2, NothingIsARequest DEF Owners, Users, LinksHold, SignaturesAreOwn, Owner, User
<1>10. QED
  BY <1>6, <1>7, <1>8, <1>9

LEMMA StartKeepsIt ==
  ASSUME LinksTypeOK, LinksHold, NEW k \in Calls, Start(k)
  PROVE  LinksTypeOK' /\ LinksHold'
<1>0. PICK fn \in RegistryWrites : \E p \in Requested(fn) : asked' = [asked EXCEPT ![k] = p]
  BY DEF Start
<1>1. PICK p \in Requested(fn) : asked' = [asked EXCEPT ![k] = p]
  BY <1>0
<1>2. /\ p \in Requests /\ Asks(p)
      /\ p.owner.by = Owner /\ p.owner.as = "signer" /\ p.user.by = User /\ p.user.as = "user"
  BY RequestedIs
<1>3. PICK after \in {"threw", "checking"} : stage' = [stage EXCEPT ![k] = after]
  BY DEF Start
<1>4. stage[k] = "idle" /\ UNCHANGED <<client, on, now, registry, given, to, net, payloadId>>
  BY DEF Start
<1>5. LinksTypeOK'
  BY <1>1, <1>2, <1>3, <1>4 DEF LinksTypeOK, registry, given, Stages
<1>6. CallsAreMeant'
  BY <1>1, <1>2, <1>3, <1>4 DEF LinksTypeOK, LinksHold, CallsAreMeant, Asks, given
<1>7. {j \in Calls : stage'[j] = "done"} = {j \in Calls : stage[j] = "done"}
  BY <1>3, <1>4 DEF LinksTypeOK
<1>8. RegistriesAreTrue'
  BY <1>4, <1>7 DEF LinksHold, RegistriesAreTrue, registry
<1>9. QED
  BY <1>4, <1>5, <1>6, <1>8 DEF LinksHold, SignaturesAreOwn, given

\* A step of a call that is not the end of its transaction, and changes no parameter.
LEMMA CallKeepsIt ==
  ASSUME LinksTypeOK, LinksHold, NEW k \in Calls, stage[k] \in {"checking", "prompt"},
         NEW after \in {"threw", "prompt", "sent"},
         NEW r \in Registries \cup {NoAddress}, NEW n \in Nets \cup {None},
         after # "threw" =>
           client.chain # None /\ n = client.chain /\ r = resolveIdentityRegistry(client),
         stage' = [stage EXCEPT ![k] = after], to' = [to EXCEPT ![k] = r], net' = [net EXCEPT ![k] = n],
         UNCHANGED <<client, on, now, registry, given, asked, payloadId>>
  PROVE  LinksTypeOK' /\ LinksHold'
<1>1. LinksTypeOK'
  BY DEF LinksTypeOK, registry, given, Stages
<1>2. CallsAreMeant'
  BY DEF LinksTypeOK, LinksHold, CallsAreMeant, Asks, given
<1>3. {j \in Calls : stage'[j] = "done"} = {j \in Calls : stage[j] = "done"}
  BY DEF LinksTypeOK
<1>4. RegistriesAreTrue'
  BY <1>3 DEF LinksHold, RegistriesAreTrue, registry
<1>5. QED
  BY <1>1, <1>2, <1>4 DEF LinksHold, SignaturesAreOwn, given

LEMMA ChecksKeepsIt ==
  ASSUME LinksTypeOK, LinksHold, NEW k \in Calls, Checks(k)
  PROVE  LinksTypeOK' /\ LinksHold'
<1> DEFINE e == RegistryWrite(client, on)
           after == IF e = Throws THEN "threw" ELSE "prompt"
<1>1. /\ e.to \in Registries \cup {NoAddress} /\ e.chain \in Nets \cup {None}
      /\ after # "threw" =>
           client.chain # None /\ e.chain = client.chain /\ e.to = resolveIdentityRegistry(client)
  <2>1. CASE e = Throws
    BY <2>1 DEF Throws
  <2>2. CASE e # Throws
    <3>1. client.chain # None /\ e.to = resolveIdentityRegistry(client) /\ e.chain = client.chain
      BY <2>2 DEF RegistryWrite, Writes
    <3>2. QED
      BY <3>1, RegistriesOfAClient DEF LinksTypeOK, LinksHold
  <2>3. QED
    BY <2>1, <2>2
<1>2. stage[k] = "checking" /\ stage' = [stage EXCEPT ![k] = after]
  BY DEF Checks
<1>3. /\ to' = [to EXCEPT ![k] = e.to] /\ net' = [net EXCEPT ![k] = e.chain]
      /\ UNCHANGED <<client, on, now, registry, given, asked, payloadId>>
  BY DEF Checks
<1>4. after \in {"threw", "prompt", "sent"}
  OBVIOUS
<1> HIDE DEF e, after
<1>5. QED
  BY <1>1, <1>2, <1>3, <1>4, CallKeepsIt

\* Of a call that is at the prompt, or after it.
LEMMA PromptedIs ==
  ASSUME LinksTypeOK, LinksHold, NEW k \in Calls, stage[k] \in {"prompt", "sent"}
  PROVE  /\ client.chain # None /\ net[k] = client.chain /\ net[k] # None
         /\ to[k] = resolveIdentityRegistry(client)
         /\ to[k] = Address("identityRegistry", client.chain) /\ to[k] \in Registries
<1>1. client.chain # None /\ net[k] = client.chain /\ to[k] = resolveIdentityRegistry(client)
  BY DEF LinksHold, CallsAreMeant
<1>2. QED
  BY <1>1, RegistriesOfAClient DEF LinksTypeOK, LinksHold

LEMMA ApprovesKeepsIt ==
  ASSUME LinksTypeOK, LinksHold, NEW k \in Calls, Approves(k)
  PROVE  LinksTypeOK' /\ LinksHold'
<1>1. stage[k] = "prompt" /\ stage' = [stage EXCEPT ![k] = "sent"]
  BY DEF Approves
<1>2. /\ client.chain # None /\ net[k] = client.chain /\ net[k] # None
      /\ to[k] = resolveIdentityRegistry(client) /\ to[k] \in Registries
  BY <1>1, PromptedIs
<1>3. net[k] \in Nets \cup {None} /\ to' = [to EXCEPT ![k] = to[k]]
  BY DEF LinksTypeOK, Approves
<1>4. net' = [net EXCEPT ![k] = net[k]]
  BY <1>2 DEF Approves
<1>5. UNCHANGED <<client, on, now, registry, given, asked, payloadId>>
  BY DEF Approves
<1>6. QED
  BY <1>1, <1>2, <1>3, <1>4, <1>5, CallKeepsIt

LEMMA RejectsKeepsIt ==
  ASSUME LinksTypeOK, LinksHold, NEW k \in Calls, Rejects(k)
  PROVE  LinksTypeOK' /\ LinksHold'
<1>1. /\ to' = [to EXCEPT ![k] = to[k]] /\ to[k] \in Registries \cup {NoAddress}
      /\ net' = [net EXCEPT ![k] = net[k]] /\ net[k] \in Nets \cup {None}
  BY DEF Rejects, LinksTypeOK
<1>2. /\ stage[k] = "prompt" /\ stage' = [stage EXCEPT ![k] = "threw"]
      /\ UNCHANGED <<client, on, now, registry, given, asked, payloadId>>
  BY DEF Rejects
<1>3. QED
  BY <1>1, <1>2, CallKeepsIt

LEMMA PopupUnlinksKeepsIt ==
  ASSUME LinksTypeOK, LinksHold, PopupUnlinks
  PROVE  LinksTypeOK' /\ LinksHold'
<1>1. PICK r \in Registries : links' = [links EXCEPT ![r] = {}]
  BY DEF PopupUnlinks
<1>2. UNCHANGED <<client, on, now, nonces, data, given, asked, stage, to, net, payloadId>>
  BY DEF PopupUnlinks
<1>3. LinksTypeOK'
  BY <1>1, <1>2 DEF LinksTypeOK, given
<1>4. RegistriesAreTrue'
  BY <1>1, <1>2 DEF LinksTypeOK, LinksHold, RegistriesAreTrue
<1>5. QED
  BY <1>2, <1>3, <1>4 DEF LinksHold, SignaturesAreOwn, CallsAreMeant, Asks, given

LEMMA AroundKeepsIt ==
  ASSUME LinksTypeOK, LinksHold, Switches \/ Tick \/ UNCHANGED vars
  PROVE  LinksTypeOK' /\ LinksHold'
<1>1. UNCHANGED <<client, registry, given, asked, stage, to, net, payloadId>>
  BY DEF Switches, Tick, vars
<1>2. on' \in Nets /\ now' \in 0..MaxTime
  BY IdentityLinksAssumption DEF Switches, Tick, vars, LinksTypeOK
<1>3. LinksTypeOK'
  BY <1>1, <1>2 DEF LinksTypeOK, registry, given
<1>4. QED
  BY <1>1, <1>3 DEF LinksHold, SignaturesAreOwn, CallsAreMeant, Asks, RegistriesAreTrue, registry, given

\* Of a call whose transaction is sent.
LEMMA SentIs ==
  ASSUME LinksTypeOK, LinksHold, NEW k \in Calls, stage[k] = "sent"
  PROVE  /\ asked[k] \in Requests /\ Asks(asked[k]) /\ to[k] \in Registries
         /\ asked[k].owner.by = Owner /\ asked[k].user.by = User
         /\ asked[k].owner.as = "signer" /\ asked[k].user.as = "user"
         /\ to[k] = resolveIdentityRegistry(client)
<1>1. to[k] \in Registries /\ to[k] = resolveIdentityRegistry(client)
  BY PromptedIs
<1>2. asked[k] \in Requests
  BY DEF LinksTypeOK
<1>3. QED
  BY <1>1, <1>2 DEF LinksHold, CallsAreMeant

\* What the registry becomes with a transaction it takes.
LEMMA AppliesIs ==
  ASSUME LinksTypeOK, LinksHold, NEW r \in Registries, NEW fn, NEW t,
         Links(fn) \/ fn = "registerIdentityData" => t.owner = Owner, t.user \in {Owner, User},
         fn = "registerIdentityData" => t.registers.domain \in Domains /\ t.registers.ref \in Refs,
         Applies(r, fn, t)
  PROVE  /\ links' \in [Registries -> SUBSET LinksThere]
         /\ \A q \in Registries : links'[q] \subseteq {Link(Owner, App, a, "kyc") : a \in {Owner, User}}
         /\ data' \in [Registries -> SUBSET DataThere]
         /\ nonces' \in [Registries -> [Accounts -> Nat]]
         /\ \A q \in Registries : \A a \in Accounts : nonces'[q][a] <= nonces[q][a] + 1
<1> DEFINE Own == {Link(Owner, App, a, "kyc") : a \in {Owner, User}}
<1>1. Own \subseteq LinksThere
  BY DEF LinksThere, Accounts, LinkDomains
<1>2. Links(fn) => LinkOf(t) \in Own
  BY DEF LinkOf
<1>3. fn = "registerIdentityData" =>
        Registered(data[r], t.owner, t.registers.domain, t.registers.ref) \in SUBSET DataThere
  BY RegisteredIs DEF LinksTypeOK, Accounts
<1>4. \A q \in Registries : links[q] \subseteq Own
  BY DEF LinksHold, RegistriesAreTrue
<1>5. links \in [Registries -> SUBSET LinksThere] /\ data \in [Registries -> SUBSET DataThere]
  BY DEF LinksTypeOK
<1>6. nonces \in [Registries -> [Accounts -> Nat]]
  BY CardinalityOfCalls DEF LinksTypeOK
<1> HIDE DEF Own
<1>7. \A q \in Registries : links'[q] \subseteq Own
  BY <1>2, <1>4, <1>5 DEF Applies
<1>8. links' \in [Registries -> SUBSET LinksThere]
  BY <1>1, <1>5, <1>7 DEF Applies
<1>9. data' \in [Registries -> SUBSET DataThere]
  <2>1. CASE fn = "registerIdentityData"
    <3>1. data' = [data EXCEPT ![r] = Registered(data[r], t.owner, t.registers.domain, t.registers.ref)]
      BY <2>1 DEF Applies
    <3>2. QED
      BY <1>3, <1>5, <2>1, <3>1
  <2>2. CASE fn # "registerIdentityData"
    BY <1>5, <2>2 DEF Applies
  <2>3. QED
    BY <2>1, <2>2
<1>10. /\ nonces' \in [Registries -> [Accounts -> Nat]]
       /\ \A q \in Registries : \A a \in Accounts : nonces'[q][a] <= nonces[q][a] + 1
  BY <1>6 DEF Applies
<1>11. QED
  BY <1>7, <1>8, <1>9, <1>10 DEF Own

\* One more transaction is done.
LEMMA OneMoreIsDone ==
  ASSUME NEW S, NEW before \in [Calls -> S], NEW k \in Calls, before[k] = "sent"
  PROVE  LET Done(s) == {j \in Calls : s[j] = "done"}
             after == [before EXCEPT ![k] = "done"]
         IN  /\ Cardinality(Done(before)) \in Nat
             /\ Cardinality(Done(after)) = Cardinality(Done(before)) + 1
             /\ Cardinality(Done(after)) <= Cardinality(Calls)
<1> DEFINE Done(s) == {j \in Calls : s[j] = "done"}
           after == [before EXCEPT ![k] = "done"]
<1>1. IsFiniteSet(Done(before)) /\ IsFiniteSet(Done(after))
  BY CardinalityOfCalls, FS_Subset
<1>2. Done(after) = Done(before) \cup {k} /\ k \notin Done(before) /\ Done(after) \subseteq Calls
  OBVIOUS
<1>3. Cardinality(Done(after)) <= Cardinality(Calls)
  BY <1>2, CardinalityOfCalls, FS_Subset
<1>4. Cardinality(Done(before)) \in Nat
  BY <1>1, FS_CardinalityType
<1>5. Cardinality(Done(before) \cup {k}) = Cardinality(Done(before)) + 1
  BY <1>1, <1>2, FS_AddElement
<1> HIDE DEF Done, after
<1>6. Cardinality(Done(after)) = Cardinality(Done(before)) + 1
  BY <1>2, <1>5
<1>7. QED
  BY <1>3, <1>4, <1>6 DEF Done, after

LEMMA MinedKeepsIt ==
  ASSUME LinksTypeOK, LinksHold, NEW k \in Calls, Mined(k)
  PROVE  LinksTypeOK' /\ LinksHold'
<1> DEFINE p == asked[k]
           t == Understood(p.fn, p.account, Args(p))
           done == {j \in Calls : stage[j] = "done"}
<1>0. /\ stage[k] = "sent" /\ UNCHANGED <<client, on, now, given, asked, to, net, payloadId>>
      /\ SignaturesAreOwn'
  BY DEF Mined, LinksHold, SignaturesAreOwn, given
<1>1. CallsAreMeant'
  <2>1. \A j \in Calls : /\ stage'[j] # "idle" => stage[j] # "idle"
                         /\ stage'[j] \in {"prompt", "sent", "done", "reverted"}
                              => stage[j] \in {"prompt", "sent", "done", "reverted"}
    BY <1>0 DEF Mined, LinksTypeOK
  <2>2. QED
    BY <1>0, <2>1 DEF LinksHold, CallsAreMeant, Asks, given
<1>2. CASE Accepts(to[k], p.fn, t)
  <2>1. stage' = [stage EXCEPT ![k] = "done"] /\ Applies(to[k], p.fn, t)
    BY <1>2 DEF Mined
  <2>2. /\ t.owner \in Accounts \cup {None} /\ t.user \in {Owner, User}
        /\ p.fn # "unlinkIdentityAsUser" => t.owner = Owner
    BY <1>0, SentIs, UnderstoodIs DEF Requests, Accounts
  <2>0. p.fn = "registerIdentityData" => t.registers.domain \in Domains /\ t.registers.ref \in Refs
    <3>1. p.gateway \in Cosignatures
      BY <1>0, SentIs DEF Requests
    <3>2. p.fn = "registerIdentityData" => t.registers = Registration(p)
      BY <1>0, SentIs, UnderstoodIs
    <3>3. QED
      BY <3>1, <3>2 DEF Registration, Cosignatures
  <2>3. Links(p.fn) \/ p.fn = "registerIdentityData" => t.owner = Owner
    BY <2>2 DEF Links
  <2> HIDE DEF t
  <2>4. /\ links' \in [Registries -> SUBSET LinksThere]
        /\ \A q \in Registries : links'[q] \subseteq {Link(Owner, App, a, "kyc") : a \in {Owner, User}}
        /\ data' \in [Registries -> SUBSET DataThere]
        /\ nonces' \in [Registries -> [Accounts -> Nat]]
        /\ \A q \in Registries : \A a \in Accounts : nonces'[q][a] <= nonces[q][a] + 1
    BY <1>0, <2>0, <2>1, <2>2, <2>3, SentIs, AppliesIs
  <2>5. /\ Cardinality(done) \in Nat
        /\ Cardinality({j \in Calls : stage'[j] = "done"}) = Cardinality(done) + 1
        /\ Cardinality({j \in Calls : stage'[j] = "done"}) <= Cardinality(Calls)
    <3>1. stage \in [Calls -> Stages]
      BY DEF LinksTypeOK
    <3>2. QED
      BY <1>0, <2>1, <3>1, OneMoreIsDone
  <2>6. \A q \in Registries : \A a \in Accounts :
          /\ nonces[q][a] \in Nat /\ nonces'[q][a] \in Nat
          /\ nonces[q][a] <= Cardinality(done) /\ nonces'[q][a] <= nonces[q][a] + 1
    BY <2>4, CardinalityOfCalls DEF LinksTypeOK, LinksHold, RegistriesAreTrue
  <2> DEFINE doneAfter == Cardinality({j \in Calls : stage'[j] = "done"})
  <2> HIDE DEF done, doneAfter
  <2>7. doneAfter = Cardinality(done) + 1 /\ doneAfter <= Cardinality(Calls)
    BY <2>5 DEF doneAfter
  <2>8. \A q \in Registries : \A a \in Accounts :
          /\ nonces'[q][a] <= doneAfter /\ nonces'[q][a] \in 0..Cardinality(Calls)
    BY <2>5, <2>6, <2>7, CardinalityOfCalls
  <2>9. RegistriesAreTrue'
    BY <2>4, <2>8 DEF RegistriesAreTrue, doneAfter
  <2>10. nonces' \in [Registries -> [Accounts -> 0..Cardinality(Calls)]]
    BY <2>4, <2>8
  <2>11. LinksTypeOK'
    BY <1>0, <2>1, <2>4, <2>10 DEF LinksTypeOK, given, Stages
  <2>12. QED
    BY <1>0, <1>1, <2>9, <2>11 DEF LinksHold
<1>3. CASE ~Accepts(to[k], p.fn, t)
  <2>1. stage' = [stage EXCEPT ![k] = "reverted"] /\ UNCHANGED registry
    BY <1>3 DEF Mined
  <2>2. {j \in Calls : stage'[j] = "done"} = done
    BY <1>0, <2>1 DEF LinksTypeOK
  <2>3. RegistriesAreTrue'
    BY <2>1, <2>2 DEF LinksHold, RegistriesAreTrue, registry
  <2>4. LinksTypeOK'
    BY <1>0, <2>1 DEF LinksTypeOK, registry, given, Stages
  <2>5. QED
    BY <1>0, <1>1, <2>3, <2>4 DEF LinksHold
<1>4. QED
  BY <1>2, <1>3

\* The registries' part holds in every state.
LEMMA LinksInvariance == Spec => [](LinksTypeOK /\ LinksHold)
<1>1. AllInit => LinksTypeOK /\ LinksHold
  BY LinksInitially
<1>2. LinksTypeOK /\ LinksHold /\ [AllNext]_allVars => LinksTypeOK' /\ LinksHold'
  BY LinkSteps, StartKeepsIt, ChecksKeepsIt, ApprovesKeepsIt, RejectsKeepsIt, MinedKeepsIt, LinkAppKeepsIt,
     RegisterUserDataKeepsIt, PopupUnlinksKeepsIt, UserSignsKeepsIt, UploadKeepsIt, AroundKeepsIt
<1>3. QED
  BY <1>1, <1>2, PTL DEF Spec

-----------------------------------------------------------------------------
(* A transaction does to the registry what its caller asked for. *)

\* A signature for this registry that is not stale is the consent of who gave it; who sends needs none.
LEMMA FreshConsents ==
  ASSUME NEW r, NEW s, s.registry = r, ~Stale(r, s)
  PROVE  Consents(r, <<s, s.nonce, s.deadline>>, s.by, s.as)
BY DEF Stale, Consents, InvalidAccountNonce, SignatureExpired

LEMMA SenderConsents ==
  ASSUME NEW r, NEW by, NEW as
  PROVE  Consents(r, <<>>, by, as)
BY DEF Consents

\* Of a registry's links, those of the user are the one link with it.
LEMMA LinksOfUser ==
  ASSUME NEW all, all \subseteq {Link(Owner, App, a, "kyc") : a \in {Owner, User}}
  PROVE  /\ LinkAlreadyExists(all, App, User, LinkDomains) <=> Link(Owner, App, User, "kyc") \in all
         /\ {l \in all : l.policyClientUser # User} = all \ {Link(Owner, App, User, "kyc")}
BY DEF LinkAlreadyExists, Link, Owner, User, LinkDomains

\* A registry takes a call that nothing has overtaken, and whose signatures are not under the
\* override of another.
LEMMA AcceptsUnlessOvertaken ==
  ASSUME LinksTypeOK, LinksHold, NEW k \in Calls, stage[k] = "sent", ~Overtaken(to[k], asked[k]),
         ~UnderTheOverride(to[k], asked[k])
  PROVE  Accepts(to[k], asked[k].fn, Understood(asked[k].fn, asked[k].account, Args(asked[k])))
<1> DEFINE p == asked[k]
           r == to[k]
           t == Understood(p.fn, p.account, Args(p))
<1>1. /\ p \in Requests /\ Asks(p) /\ r \in Registries /\ p.owner.by = Owner /\ p.user.by = User
      /\ p.owner.as = "signer" /\ p.user.as = "user"
  BY SentIs
<1>2. /\ t.owner = IF p.fn = "unlinkIdentityAsUser" THEN None ELSE Owner
      /\ t.user = IF p.fn \in {"linkIdentityAsSignerAndUser", "registerIdentityData"} THEN Owner ELSE User
      /\ t.ownerSigned = IF p.fn \in {"linkIdentity", "linkIdentityAsUser"}
                         THEN <<p.owner, p.owner.nonce, p.owner.deadline>> ELSE <<>>
      /\ t.userSigned = IF p.fn \in {"linkIdentity", "linkIdentityAsSigner"}
                        THEN <<p.user, p.user.nonce, p.user.deadline>> ELSE <<>>
  BY <1>1, UnderstoodIs
<1>0. \A s \in Signed(p) : s.registry = r
  <2>1. Signed(p) \subseteq signed
    BY <1>1 DEF Signed, Asks, OwnerSigns, UserSignsFor
  <2>2. \A s \in signed : s.registry \in {resolveIdentityRegistry(client), client.overrides.identityRegistry}
    BY DEF LinksHold, SignaturesAreOwn
  <2>3. r = resolveIdentityRegistry(client) /\ ~UnderTheOverride(r, p)
    BY SentIs
  <2>4. QED
    BY <2>1, <2>2, <2>3 DEF UnderTheOverride
<1>3. /\ links[r] \subseteq {Link(Owner, App, a, "kyc") : a \in {Owner, User}}
      /\ p.fn \in RegistryWrites
  BY <1>1 DEF LinksHold, RegistriesAreTrue, Requests
<1>4. ~Overtaken(r, p)
  OBVIOUS
<1> SUFFICES Accepts(r, p.fn, t)
  OBVIOUS
<1> HIDE DEF p, r, t
<1>5. CASE p.fn = "linkIdentity"
  <2>1. ~Stale(r, p.owner) /\ ~Stale(r, p.user) /\ HasData(r, Owner)
        /\ ~LinkAlreadyExists(links[r], App, User, LinkDomains)
    BY <1>4, <1>5 DEF Overtaken, Links, Signed
  <2>2. Consents(r, t.ownerSigned, Owner, "signer") /\ Consents(r, t.userSigned, User, "user")
    BY <1>0, <1>1, <1>2, <1>5, <2>1, FreshConsents DEF Signed
  <2>3. t.owner = Owner /\ t.user = User
    BY <1>2, <1>5
  <2>4. QED
    BY <1>5, <2>1, <2>2, <2>3 DEF Accepts, Links
<1>6. CASE p.fn = "linkIdentityAsUser"
  <2>1. ~Stale(r, p.owner) /\ HasData(r, Owner) /\ ~LinkAlreadyExists(links[r], App, User, LinkDomains)
    BY <1>4, <1>6 DEF Overtaken, Links, Signed
  <2>2. Consents(r, t.ownerSigned, Owner, "signer") /\ Consents(r, t.userSigned, User, "user")
    BY <1>0, <1>1, <1>2, <1>6, <2>1, FreshConsents, SenderConsents DEF Signed
  <2>3. t.owner = Owner /\ t.user = User
    BY <1>2, <1>6
  <2>4. QED
    BY <1>6, <2>1, <2>2, <2>3 DEF Accepts, Links
<1>7. CASE p.fn = "linkIdentityAsSigner"
  <2>1. ~Stale(r, p.user) /\ HasData(r, Owner) /\ ~LinkAlreadyExists(links[r], App, User, LinkDomains)
    BY <1>4, <1>7 DEF Overtaken, Links, Signed
  <2>2. Consents(r, t.ownerSigned, Owner, "signer") /\ Consents(r, t.userSigned, User, "user")
    BY <1>0, <1>1, <1>2, <1>7, <2>1, FreshConsents, SenderConsents DEF Signed
  <2>3. t.owner = Owner /\ t.user = User
    BY <1>2, <1>7
  <2>4. QED
    BY <1>7, <2>1, <2>2, <2>3 DEF Accepts, Links
<1>8. CASE p.fn = "linkIdentityAsSignerAndUser"
  <2>1. HasData(r, Owner) /\ ~LinkAlreadyExists(links[r], App, Owner, LinkDomains)
    BY <1>4, <1>8 DEF Overtaken, Links
  <2>2. Consents(r, t.ownerSigned, Owner, "signer") /\ Consents(r, t.userSigned, Owner, "user")
    BY <1>2, <1>8, SenderConsents
  <2>3. t.owner = Owner /\ t.user = Owner /\ t.ownerSigned \o t.userSigned = <<>>
    BY <1>2, <1>8
  <2>4. QED
    BY <1>8, <2>1, <2>2, <2>3 DEF Accepts, Links
<1>9. CASE p.fn = "registerIdentityData"
  <2>1. t.registers = Registration(p) /\ t.owner = Owner
    BY <1>1, <1>2, <1>9, UnderstoodIs DEF t
  <2>2. p.gateway.owner = Owner /\ p.gateway.registry = r
    <3>1. p.gateway \in cosigned
      BY <1>1, <1>9 DEF Asks
    <3>2. QED
      BY <3>1, SentIs DEF LinksHold, SignaturesAreOwn, r
  <2>3. ~SignatureExpired(p.gateway.deadline, now)
    BY <1>4, <1>9 DEF Overtaken, Links, SignatureExpired
  <2>4. Cosigned(r, t.owner, t.registers)
    BY <2>1, <2>2, <2>3 DEF Cosigned, Registration
  <2>5. QED
    BY <1>9, <2>4 DEF Accepts, Links
<1>10. CASE p.fn = "unlinkIdentityAsSigner"
  <2>1. Link(Owner, App, User, "kyc") \in links[r]
    BY <1>3, <1>4, <1>10, LinksOfUser DEF Overtaken, Links
  <2>2. QED
    BY <1>2, <1>10, <2>1 DEF Accepts, Links, LinkOf
<1>11. CASE p.fn = "unlinkIdentityAsUser"
  <2>1. LinkAlreadyExists(links[r], App, User, LinkDomains)
    BY <1>4, <1>11 DEF Overtaken, Links
  <2>2. QED
    BY <1>2, <1>11, <2>1 DEF Accepts, Links
<1>12. QED
  BY <1>3, <1>5, <1>6, <1>7, <1>8, <1>9, <1>10, <1>11 DEF RegistryWrites

\* A call that it takes leaves it as the call wanted.
LEMMA AppliesAsWanted ==
  ASSUME LinksTypeOK, LinksHold, NEW k \in Calls, stage[k] = "sent",
         Applies(to[k], asked[k].fn, Understood(asked[k].fn, asked[k].account, Args(asked[k])))
  PROVE  Wanted(to[k], asked[k])
<1> DEFINE p == asked[k]
           r == to[k]
           t == Understood(p.fn, p.account, Args(p))
<1>1. p \in Requests /\ Asks(p) /\ r \in Registries /\ p.owner.by = Owner /\ p.user.by = User
  BY SentIs
<1>2. /\ t.owner = IF p.fn = "unlinkIdentityAsUser" THEN None ELSE Owner
      /\ t.user = IF p.fn \in {"linkIdentityAsSignerAndUser", "registerIdentityData"} THEN Owner ELSE User
      /\ p.fn = "registerIdentityData" => t.registers = Registration(p)
  BY <1>1, UnderstoodIs
<1>3. /\ links[r] \subseteq {Link(Owner, App, a, "kyc") : a \in {Owner, User}}
      /\ p.fn \in RegistryWrites
  BY <1>1 DEF LinksHold, RegistriesAreTrue, Requests
<1>4. Applies(r, p.fn, t)
  OBVIOUS
<1>5. r \in DOMAIN links /\ r \in DOMAIN data
  BY <1>1 DEF LinksTypeOK
<1> SUFFICES Wanted(r, p)
  OBVIOUS
<1> HIDE DEF p, r, t
<1>6. CASE Links(p.fn)
  <2>1. links'[r] = links[r] \cup {LinkOf(t)}
    BY <1>4, <1>5, <1>6 DEF Applies
  <2>2. /\ t.owner = Owner
        /\ t.user = IF p.fn = "linkIdentityAsSignerAndUser" THEN Owner ELSE User
    BY <1>2, <1>6 DEF Links
  <2>3. CASE p.fn = "linkIdentityAsSignerAndUser"
    <3>1. LinkOf(t) = Link(Owner, App, Owner, "kyc")
      BY <2>2, <2>3 DEF LinkOf
    <3>2. links'[r] = links[r] \cup {Link(Owner, App, Owner, "kyc")}
      BY <2>1, <3>1
    <3>3. QED
      BY <2>3, <3>2 DEF Wanted, Links
  <2>4. CASE p.fn # "linkIdentityAsSignerAndUser"
    <3>1. LinkOf(t) = Link(Owner, App, User, "kyc")
      BY <2>2, <2>4 DEF LinkOf
    <3>2. links'[r] = links[r] \cup {Link(Owner, App, User, "kyc")}
      BY <2>1, <3>1
    <3>3. QED
      BY <1>6, <2>4, <3>2 DEF Wanted, Links
  <2>5. QED
    BY <2>3, <2>4
<1>7. CASE p.fn = "registerIdentityData"
  <2>1. data'[r] = Registered(data[r], t.owner, t.registers.domain, t.registers.ref)
    BY <1>4, <1>5, <1>7 DEF Applies
  <2>2. data'[r] = Registered(data[r], Owner, p.gateway.domain, p.gateway.ref)
    BY <1>2, <1>7, <2>1 DEF Registration
  <2>3. QED
    BY <1>7, <2>2 DEF Wanted, Registered, Bound
<1>8. CASE p.fn \in {"unlinkIdentityAsSigner", "unlinkIdentityAsUser"}
  <2>1. links'[r] = {l \in links[r] : l.policyClientUser # t.user}
    BY <1>4, <1>5, <1>8 DEF Applies, Links
  <2>2. links'[r] = links[r] \ {Link(Owner, App, User, "kyc")}
    BY <1>2, <1>3, <1>8, <2>1, LinksOfUser
  <2>3. QED
    BY <1>8, <2>2 DEF Wanted, Links
<1>9. QED
  BY <1>3, <1>6, <1>7, <1>8 DEF RegistryWrites, Links

\* Every step of the registries.
LEMMA LinksStepAsAsked ==
  ASSUME LinksTypeOK, LinksHold, [AllNext]_allVars, NEW k \in Calls, stage[k] = "sent"
  PROVE  /\ stage'[k] = "reverted" => Overtaken(to[k], asked[k]) \/ UnderTheOverride(to[k], asked[k])
         /\ stage'[k] = "done" => Wanted(to[k], asked[k])
<1>1. CASE Mined(k)
  BY <1>1, AcceptsUnlessOvertaken, AppliesAsWanted DEF Mined, LinksTypeOK
<1>2. CASE ~Mined(k)
  <2>1. stage'[k] = "sent"
    <3>1. ASSUME NEW j \in Calls, Start(j) \/ Checks(j) \/ Approves(j) \/ Rejects(j)
          PROVE  stage'[k] = "sent"
      BY <3>1 DEF Start, Checks, Approves, Rejects, LinksTypeOK
    <3>2. ASSUME NEW j \in Calls, Mined(j)
          PROVE  stage'[k] = "sent"
      BY <1>2, <3>2 DEF Mined, LinksTypeOK
    <3>3. ASSUME \/ LinkApp \/ RegisterUserData \/ PopupUnlinks \/ UserSigns \/ UploadIdentityEncrypted
                 \/ Switches \/ Tick \/ UNCHANGED vars
          PROVE  stage'[k] = "sent"
      BY <3>3 DEF LinkApp, RegisterUserData, PopupUnlinks, UserSigns, UploadIdentityEncrypted,
         Switches, Tick, vars
    <3>4. QED
      BY <3>1, <3>2, <3>3, LinkSteps
  <2>2. QED
    BY <2>1
<1>3. QED
  BY <1>1, <1>2

\* The user's yes sends a transaction where its registry is.
LEMMA ApprovedWhereDeployed ==
  ASSUME LinksTypeOK, LinksHold, [AllNext]_allVars, NEW k \in Calls,
         stage[k] = "prompt", stage'[k] = "sent"
  PROVE  net'[k] = to[k].on
<1>1. Approves(k)
  <2>1. ASSUME NEW j \in Calls, Start(j) \/ Checks(j) \/ Rejects(j) \/ Mined(j)
        PROVE  stage'[k] # "sent"
    BY <2>1 DEF Start, Checks, Rejects, Mined, LinksTypeOK
  <2>2. ASSUME NEW j \in Calls, Approves(j), j # k
        PROVE  stage'[k] # "sent"
    BY <2>2 DEF Approves, LinksTypeOK
  <2>3. ASSUME \/ LinkApp \/ RegisterUserData \/ PopupUnlinks \/ UserSigns \/ UploadIdentityEncrypted
               \/ Switches \/ Tick \/ UNCHANGED vars
        PROVE  stage'[k] # "sent"
    BY <2>3 DEF LinkApp, RegisterUserData, PopupUnlinks, UserSigns, UploadIdentityEncrypted,
       Switches, Tick, vars
  <2>4. QED
    BY <2>1, <2>2, <2>3, LinkSteps
<1>2. /\ net[k] = client.chain /\ net[k] # None
      /\ to[k] = Address("identityRegistry", client.chain)
  BY PromptedIs
<1>3. net'[k] = net[k]
  BY <1>1, <1>2 DEF Approves, LinksTypeOK
<1>4. QED
  BY <1>2, <1>3 DEF Address

\* Every contract whose address the SDK looks up is asked on the chain it is deployed on, for every
\* client, and a registry's transaction goes out there, whichever chain the wallet has been on at
\* the call, at viem's check and under the prompt (src/index.ts, identity/index.ts
\* resolveIdentityRegistry).
THEOREM SentWhereDeployedForAll == Spec => SentWhereDeployed
<1> DEFINE Deployed == \A chain \in Nets : \A e \in Effects(chain) :
                         e.to.contract \in AddressKeys => e.to.on = ChainOf(e)
           Sent == \A k \in Calls : stage[k] = "prompt" /\ stage'[k] = "sent" => net'[k] = to[k].on
<1>1. LinksTypeOK /\ LinksHold => Deployed
  <2> SUFFICES ASSUME LinksTypeOK, LinksHold, NEW chain \in Nets, NEW e \in Effects(chain)
               PROVE  Leads(e)
    BY DEF Leads
  <2>1. client \in Clients /\ WalletActionsOf(client)
    BY DEF LinksTypeOK, LinksHold
  <2>2. QED
    BY <2>1, WalletEffectsLead, PublicEffectsLead DEF Effects
<1>2. LinksTypeOK /\ LinksHold /\ [AllNext]_allVars => [Sent]_vars
  BY ApprovedWhereDeployed
<1> HIDE DEF Deployed, Sent
<1>3. Spec => Deployed /\ [][Sent]_vars
  BY <1>1, <1>2, LinksInvariance, PTL DEF Spec
<1>4. QED
  BY <1>3 DEF SentWhereDeployed, Deployed, Sent

-----------------------------------------------------------------------------
(* The policy's contracts: what a write asks and what a read tells. *)

\* An argument of a policy's contracts is known by the name that its position has, too.
LEMMA NamedNames ==
  ASSUME NEW names, NEW values, Differ(names)
  PROVE  NamesOf(Policies!Named(names, values), names, values)
<1>1. ASSUME NEW i \in DOMAIN names
      PROVE  (CHOOSE j \in DOMAIN names : names[j] = names[i]) = i
  BY DEF Differ
<1>2. QED
  BY <1>1 DEF Policies!Named, NamesOf

\* The names of each write's arguments.
Meant(p) == Policies!Named(Policies!Inputs[p.method], Policies!WriteArgs(p))

LEMMA MeantIs ==
  ASSUME NEW p
  PROVE  LET c == Meant(p)
         IN  /\ p.method = "initialize" =>
                  /\ c["_factory"] = p.factory /\ c["artifacts"] = p.artifacts /\ c["_owner"] = p.owner
                  /\ c["_policyCodeHash"] = Policies!policyCodeHash(p)
             /\ p.method = "setSecretsSchemaCid" => c["_secretsSchemaCid"] = p.secretsSchemaCid
             /\ p.method = "transferOwnership" => c["newOwner"] = p.newOwner
             /\ p.method = "approveDelegator" =>
                  /\ c["delegator"] = p.delegator /\ c["deadline"] = p.deadline
                  /\ c["signature"] = p.signature
             /\ p.method = "removeDelegator" => c["delegator"] = p.delegator
             /\ p.method = "setDelegatorRequired" => c["required"] = p.required
<1> DEFINE names == Policies!Inputs[p.method]
           values == Policies!WriteArgs(p)
<1>1. Differ(names) => NamesOf(Meant(p), names, values)
  BY NamedNames DEF Meant
<1>2. CASE p.method = "initialize"
  <2>1. names = Policies!initializeInputs /\ values = Policies!initialize(p)
    BY <1>2 DEF Policies!Inputs, Policies!WriteArgs
  <2>2. Differ(names)
    BY <2>1 DEF Policies!initializeInputs, Differ
  <2>3. QED
    BY <1>1, <1>2, <2>1, <2>2 DEF Policies!initializeInputs, Policies!initialize, NamesOf
<1>3. CASE p.method = "setSecretsSchemaCid"
  <2>1. names = Policies!setSecretsSchemaCidInputs /\ values = Policies!setSecretsSchemaCid(p)
    BY <1>3 DEF Policies!Inputs, Policies!WriteArgs
  <2>2. QED
    BY <1>1, <1>3, <2>1 DEF Policies!setSecretsSchemaCidInputs, Policies!setSecretsSchemaCid, NamesOf, Differ
<1>4. CASE p.method = "transferOwnership"
  <2>1. names = Policies!transferOwnershipInputs /\ values = Policies!transferOwnership(p)
    BY <1>4 DEF Policies!Inputs, Policies!WriteArgs
  <2>2. QED
    BY <1>1, <1>4, <2>1 DEF Policies!transferOwnershipInputs, Policies!transferOwnership, NamesOf, Differ
<1>5. CASE p.method = "approveDelegator"
  <2>1. names = Policies!approveDelegatorInputs /\ values = Policies!approveDelegator(p)
    BY <1>5 DEF Policies!Inputs, Policies!WriteArgs
  <2>2. Differ(names)
    BY <2>1 DEF Policies!approveDelegatorInputs, Differ
  <2>3. QED
    BY <1>1, <1>5, <2>1, <2>2 DEF Policies!approveDelegatorInputs, Policies!approveDelegator, NamesOf
<1>6. CASE p.method = "removeDelegator"
  <2>1. names = Policies!removeDelegatorInputs /\ values = Policies!removeDelegator(p)
    BY <1>6 DEF Policies!Inputs, Policies!WriteArgs
  <2>2. QED
    BY <1>1, <1>6, <2>1 DEF Policies!removeDelegatorInputs, Policies!removeDelegator, NamesOf, Differ
<1>7. CASE p.method = "setDelegatorRequired"
  <2>1. names = Policies!setDelegatorRequiredInputs /\ values = Policies!setDelegatorRequired(p)
    BY <1>7 DEF Policies!Inputs, Policies!WriteArgs
  <2>2. QED
    BY <1>1, <1>7, <2>1 DEF Policies!setDelegatorRequiredInputs, Policies!setDelegatorRequired, NamesOf, Differ
<1>8. QED
  BY <1>2, <1>3, <1>4, <1>5, <1>6, <1>7

\* The methods are functions of the contracts.
LEMMA MethodsAreFunctions ==
  /\ Policies!ContractReads \subseteq DOMAIN Policies!Views
  /\ Policies!ContractWrites \subseteq DOMAIN Policies!Inputs
  /\ Policies!ContractWrites \subseteq PolicyWrites \cup DelegatorWrites
<1>1. PolicyReads \cup PolicyClientReads \subseteq DOMAIN Policies!Views
  BY DEF PolicyReads, PolicyClientReads, Policies!Views
<1>2. PolicyWrites \cup DelegatorWrites \subseteq DOMAIN Policies!Inputs
  BY DEF PolicyWrites, DelegatorWrites, Policies!Inputs
<1>3. QED
  BY <1>1, <1>2 DEF Policies!ContractReads, Policies!ContractWrites, Policies!PolicyReads,
     Policies!PolicyClientReads, Policies!PolicyWrites, Policies!DelegatorWrites, PolicyReads,
     PolicyClientReads, PolicyWrites, DelegatorWrites

\* What there is to ask for nothing in particular.
LEMMA IntentsThere ==
  /\ \A i \in Policies!IntentsGiven :
       /\ i.from = "user" /\ i.to = "policyClient" /\ i.chainId.n = 1
       /\ i = [from |-> "user", to |-> "policyClient", value |-> i.value, chainId |-> i.chainId]
  /\ Policies!Given0.intent \in Policies!IntentsGiven
<1>1. \E i \in Policies!IntentsGiven : TRUE
  BY DEF Policies!IntentsGiven
<1>2. Policies!Given0.intent = CHOOSE i \in Policies!IntentsGiven : TRUE
  BY DEF Policies!Given0
<1>3. \A i \in Policies!IntentsGiven :
       /\ i.from = "user" /\ i.to = "policyClient" /\ i.chainId.n = 1
       /\ i = [from |-> "user", to |-> "policyClient", value |-> i.value, chainId |-> i.chainId]
  BY DEF Policies!IntentsGiven, Policies!Number
<1>4. QED
  BY <1>1, <1>2, <1>3

LEMMA NothingGiven ==
  /\ Policies!Given0 \in Policies!Parameters
  /\ Policies!Given0.policyCodeHash = None /\ Policies!Given0.policyBytes = None
<1> DEFINE g == Policies!Given0
<1>0. g.artifacts = [a \in Policies!PolicyArtifacts |-> ""]
  BY DEF Policies!Given0, Policies!Blank
<1>1. g.artifacts \in [Policies!PolicyArtifacts -> Policies!Texts] /\ g.intent \in Policies!IntentsGiven
  BY <1>0, IntentsThere DEF Policies!Texts
<1>2. g.signature \in Policies!Approvals(0..MaxTime + Ttl) \cup {Policies!NoApproval}
  BY DEF Policies!Given0
<1>3. g.deadline \in 0..MaxTime + Ttl
  BY IdentityLinksAssumption DEF Policies!Given0
<1>4. g.method \in DOMAIN Policies!Views \cup DOMAIN Policies!Inputs
  BY DEF Policies!Given0, Policies!Views
<1>5. /\ g = [method |-> g.method, account |-> g.account, factory |-> g.factory, artifacts |-> g.artifacts,
              owner |-> g.owner, policyCodeHash |-> g.policyCodeHash, policyBytes |-> g.policyBytes,
              secretsSchemaCid |-> g.secretsSchemaCid, newOwner |-> g.newOwner, delegator |-> g.delegator,
              deadline |-> g.deadline, signature |-> g.signature, required |-> g.required,
              intent |-> g.intent]
      /\ g.account = "owner" /\ g.factory = "factory" /\ g.owner = "owner" /\ g.policyCodeHash = None
      /\ g.policyBytes = None /\ g.secretsSchemaCid = "" /\ g.newOwner = "owner" /\ g.delegator = "owner"
      /\ g.required = FALSE
  BY DEF Policies!Given0, Policies!None, None
<1> HIDE DEF g
<1>6. g.required \in BOOLEAN
  BY <1>5
<1>7. g \in Policies!Parameters
  BY <1>1, <1>2, <1>3, <1>4, <1>5, <1>6
     DEF Policies!Parameters, Policies!Texts, Policies!PolicyBytes, Policies!Accounts, Policies!None, None
<1>8. QED
  BY <1>5, <1>7 DEF g

\* What a caller may ask is of the parameters' types, and what a write asks has been given to it.
LEMMA RequestsAre ==
  ASSUME approvals \subseteq Policies!Approvals(0..MaxTime + Ttl),
         NEW m \in DOMAIN Policies!Views \cup DOMAIN Policies!Inputs, NEW p \in Policies!Requests(m)
  PROVE  /\ p \in Policies!Parameters /\ p.method = m
         /\ m = "initialize" => p.policyCodeHash # None \/ p.policyBytes # None
         /\ m = "approveDelegator" => /\ p.signature \in approvals /\ p.delegator = p.signature.by
                                      /\ p.deadline = p.signature.deadline
<1> DEFINE g == Policies!Given0
           Types == Policies!Parameters
<1>1. /\ g \in Types /\ g.policyCodeHash = None /\ g.policyBytes = None
      /\ [g EXCEPT !.method = m] \in Types
  BY NothingGiven DEF Policies!Parameters
<1> HIDE DEF g, Types
<1>2. CASE m = "initialize"
  <2>1. p \in Policies!Initializations
    BY <1>2, Zenon DEF Policies!Requests
  <2>2. PICK a \in Policies!Artifacts \cup {g.artifacts}, o \in Policies!Accounts,
             hash \in {Policies!None, "hashA"}, b \in Policies!PolicyBytes :
          p = Policies!Initialization(a, o, hash, b) /\ (hash = "hashA" \/ b = "bytesB")
    <3>1. CASE p = Policies!Initialization(Policies!Blank.artifacts, "other", Policies!None, "bytesB")
      BY <3>1 DEF Policies!Accounts, Policies!PolicyBytes, Policies!Given0, g
    <3>2. CASE p # Policies!Initialization(Policies!Blank.artifacts, "other", Policies!None, "bytesB")
      BY <2>1, <3>2 DEF Policies!Initializations
    <3>3. QED
      BY <3>1, <3>2
  <2>3. a \in [Policies!PolicyArtifacts -> Policies!Texts]
    <3>1. CASE a = g.artifacts
      BY <1>1, <3>1 DEF Types, Policies!Parameters
    <3>2. CASE a \in Policies!Artifacts
      <4> DEFINE Of(wasm, secrets) ==
         [entrypoint |-> "allow", policyCid |-> "rego", schemaCid |-> "schema", wasmCid |-> wasm,
          secretsSchemaCid |-> secrets, metadataCid |-> "metadata"]
      <4>1. PICK wasm \in Policies!Optional("wasm"), secrets \in Policies!Optional("secrets") :
              a = Of(wasm, secrets)
        BY <3>2 DEF Policies!Artifacts
      <4>2. /\ a.entrypoint \in Policies!Texts /\ a.policyCid \in Policies!Texts
            /\ a.schemaCid \in Policies!Texts /\ a.wasmCid \in Policies!Texts
            /\ a.secretsSchemaCid \in Policies!Texts /\ a.metadataCid \in Policies!Texts
        BY <4>1 DEF Policies!Texts, Policies!Optional
      <4>3. DOMAIN a = Policies!PolicyArtifacts /\ a = [x \in DOMAIN a |-> a[x]]
        BY <4>1 DEF Policies!PolicyArtifacts
      <4>4. QED
        BY <4>2, <4>3 DEF Policies!PolicyArtifacts
    <3>3. QED
      BY <3>1, <3>2
  <2>4. p.method = m /\ p.policyCodeHash = hash /\ p.policyBytes = b /\ p \in Types
    BY <1>1, <1>2, <2>2, <2>3 DEF Policies!Parameters, Policies!Initialization, Types, g
  <2>5. QED
    BY <1>2, <2>2, <2>4 DEF None, Types
<1>3. CASE m = "setSecretsSchemaCid"
  <2>1. PICK cid \in Policies!Optional("secrets2") : p = [g EXCEPT !.method = m, !.secretsSchemaCid = cid]
    BY <1>3, Zenon DEF Policies!Requests, g
  <2>2. p.method = m /\ p \in Types
    BY <1>1, <2>1 DEF Policies!Parameters, Policies!Texts, Policies!Optional, Types
  <2>3. QED
    BY <1>3, <2>2 DEF Types
<1>4. CASE m = "transferOwnership"
  <2>1. PICK o \in Policies!Accounts : p = [g EXCEPT !.method = m, !.newOwner = o]
    BY <1>4, Zenon DEF Policies!Requests, g
  <2>2. p.method = m /\ p \in Types
    BY <1>1, <2>1 DEF Policies!Parameters, Types
  <2>3. QED
    BY <1>4, <2>2 DEF Types
<1>5. CASE m = "approveDelegator"
  <2>1. PICK s \in approvals :
          p = [g EXCEPT !.method = m, !.delegator = s.by, !.deadline = s.deadline, !.signature = s]
    BY <1>5, Zenon DEF Policies!Requests, g
  <2>2. s \in Policies!Approvals(0..MaxTime + Ttl)
    OBVIOUS
  <2>3. s.by \in Policies!Accounts /\ s.deadline \in 0..MaxTime + Ttl
    BY <2>2 DEF Policies!Approvals
  <2>4. p.method = m /\ p.signature = s /\ p.delegator = s.by /\ p.deadline = s.deadline /\ p \in Types
    BY <1>1, <2>1, <2>2, <2>3 DEF Policies!Parameters, Types
  <2>5. QED
    BY <1>5, <2>4 DEF Types
<1>6. CASE m \in {"removeDelegator", "isDelegator", "delegatorNonces"}
  <2>1. PICK a \in Policies!Accounts : p = [g EXCEPT !.method = m, !.delegator = a]
    BY <1>6, Zenon DEF Policies!Requests, g
  <2>2. p.method = m /\ p \in Types
    BY <1>1, <2>1 DEF Policies!Parameters, Types
  <2>3. QED
    BY <1>6, <2>2 DEF Types
<1>7. CASE m = "setDelegatorRequired"
  <2>1. PICK b \in BOOLEAN : p = [g EXCEPT !.method = m, !.required = b]
    BY <1>7, Zenon DEF Policies!Requests, g
  <2>2. p.method = m /\ p \in Types
    BY <1>1, <2>1 DEF Policies!Parameters, Types
  <2>3. QED
    BY <1>7, <2>2 DEF Types
<1>8. CASE m = "isIntentSpent"
  <2>1. PICK i \in Policies!IntentsGiven : p = [g EXCEPT !.method = m, !.intent = i]
    BY <1>8, Zenon DEF Policies!Requests, g
  <2>2. p.method = m /\ p \in Types
    BY <1>1, <2>1 DEF Policies!Parameters, Types
  <2>3. QED
    BY <1>8, <2>2 DEF Types
<1>9. CASE m \notin {"initialize", "setSecretsSchemaCid", "transferOwnership", "approveDelegator",
                     "removeDelegator", "isDelegator", "delegatorNonces", "setDelegatorRequired",
                     "isIntentSpent"}
  <2>1. p = [g EXCEPT !.method = m]
    BY <1>9, Zenon DEF Policies!Requests, g
  <2>2. p.method = m /\ p \in Types
    BY <1>1, <2>1 DEF Policies!Parameters, Types
  <2>3. QED
    BY <1>9, <2>2 DEF Types
<1>10. QED
  BY <1>2, <1>3, <1>4, <1>5, <1>6, <1>7, <1>8, <1>9

-----------------------------------------------------------------------------
(* The policy's contracts: the inductive invariant. *)

PoliciesCore == Policies!TypeOK /\ Policies!WritesAreMeant /\ Policies!ApprovalsAreTrue

LEMMA CardinalityIsTheSame ==
  ASSUME NEW S
  PROVE  Policies!Cardinality(S) = Cardinality(S)
BY DEF Policies!Cardinality, Cardinality

\* What WritesAreMeant says of one call's parameters.
WriteIsMeant(p) ==
  /\ p.method \in Policies!PolicyWrites \cup Policies!DelegatorWrites
  /\ p.method = "initialize" => p.policyCodeHash # Policies!None \/ p.policyBytes # Policies!None
  /\ p.method = "approveDelegator" =>
       /\ p.signature \in approvals /\ p.delegator = p.signature.by
       /\ p.deadline = p.signature.deadline

LEMMA PoliciesInitially ==
  ASSUME AllInit
  PROVE  PoliciesCore
<1> DEFINE artifacts == [a \in Policies!PolicyArtifacts |-> ""]
<1>1. policy = Policies!Blank /\ landed = {} /\ approvals = {}
  BY DEF AllInit, Policies!Init
<1>2. /\ request = [k \in Calls |-> Policies!Given0] /\ progress = [k \in Calls |-> "idle"]
      /\ answer = [k \in Calls |-> <<>>]
  BY DEF AllInit, Policies!Init
<1>3. delegation = [owner |-> "owner", delegators |-> {}, required |-> FALSE,
                    nonces |-> [a \in Policies!Accounts |-> 0]]
  BY DEF AllInit, Policies!Init
<1>4. policy \in [initialized : BOOLEAN, factory : {Policies!None, "factory"},
                  owner : Policies!Accounts \cup {Policies!None},
                  policyCodeHash : {Policies!None, "hashA", "hashB"},
                  config : {Policies!None, "json", "text", "null"},
                  artifacts : [Policies!PolicyArtifacts -> Policies!Texts]]
  <2>1. policy = [initialized |-> FALSE, factory |-> Policies!None, owner |-> Policies!None,
                  policyCodeHash |-> Policies!None, config |-> Policies!None, artifacts |-> artifacts]
    BY <1>1 DEF Policies!Blank
  <2>2. artifacts \in [Policies!PolicyArtifacts -> Policies!Texts]
    BY DEF Policies!Texts
  <2> HIDE DEF artifacts
  <2>3. QED
    BY <2>1, <2>2
<1>5. delegation \in [owner : Policies!Accounts, delegators : SUBSET Policies!Accounts,
                      nonces : [Policies!Accounts -> 0..Cardinality(Calls)], required : BOOLEAN]
  BY <1>3, CardinalityOfCalls DEF Policies!Accounts
<1>6. /\ request \in [Calls -> Policies!Parameters]
      /\ progress \in [Calls -> {"idle", "prompt", "sent", "done", "reverted", "threw", "answered"}]
      /\ DOMAIN answer = Calls /\ \A k \in Calls : progress[k] = "answered" <=> answer[k] # <<>>
  BY <1>2, NothingGiven
<1>7. Policies!TypeOK
  BY <1>1, <1>4, <1>5, <1>6, CardinalityIsTheSame DEF Policies!TypeOK
<1>8. Policies!WritesAreMeant
  BY <1>2 DEF Policies!WritesAreMeant
<1>9. Policies!ApprovalsAreTrue
  <2>1. {k \in Calls : progress[k] = "done"} = {}
    BY <1>2
  <2>2. Cardinality({k \in Calls : progress[k] = "done"}) = 0
    BY <2>1, FS_EmptySet
  <2>3. \A a \in Policies!Accounts :
          delegation.nonces[a] <= Cardinality({k \in Calls : progress[k] = "done"})
    BY <1>3, <2>2
  <2>4. QED
    BY <1>1, <2>3, CardinalityIsTheSame DEF Policies!ApprovalsAreTrue
<1>10. QED
  BY <1>7, <1>8, <1>9 DEF PoliciesCore

\* A step of a call that changes no contract.
LEMMA PolicyCallKeepsIt ==
  ASSUME PoliciesCore, NEW k \in Calls, progress[k] # "done",
         NEW after \in {"prompt", "sent", "reverted", "threw", "answered"},
         NEW p \in Policies!Parameters, after \in {"prompt", "sent"} => WriteIsMeant(p),
         after = "answered" <=> answer'[k] # <<>>, DOMAIN answer' = Calls,
         \A j \in Calls : j # k => answer'[j] = answer[j],
         request' = [request EXCEPT ![k] = p], progress' = [progress EXCEPT ![k] = after],
         UNCHANGED <<client, policy, delegation, landed, approvals>>
  PROVE  PoliciesCore'
<1>1. Policies!TypeOK'
  BY DEF PoliciesCore, Policies!TypeOK
<1>2. Policies!WritesAreMeant'
  BY DEF PoliciesCore, Policies!TypeOK, WriteIsMeant, Policies!WritesAreMeant
<1>3. {j \in Calls : progress'[j] = "done"} = {j \in Calls : progress[j] = "done"}
  BY DEF PoliciesCore, Policies!TypeOK
<1>4. Policies!ApprovalsAreTrue'
  BY <1>3 DEF PoliciesCore, Policies!ApprovalsAreTrue
<1>5. QED
  BY <1>1, <1>2, <1>4 DEF PoliciesCore

LEMMA ReadKeepsIt ==
  ASSUME PoliciesCore, NEW k \in Calls, Policies!Read(k)
  PROVE  PoliciesCore'
<1>1. PICK m \in Policies!ContractReads : \E p \in Policies!Requests(m) :
        /\ request' = [request EXCEPT ![k] = p]
        /\ \/ progress' = [progress EXCEPT ![k] = "threw"] /\ UNCHANGED answer
           \/ /\ progress' = [progress EXCEPT ![k] = "answered"]
              /\ \E told : answer' = [answer EXCEPT ![k] = <<Policies!Views[m].outputs[1], told>>]
  BY DEF Policies!Read
<1>2. PICK p \in Policies!Requests(m) :
        /\ request' = [request EXCEPT ![k] = p]
        /\ \/ progress' = [progress EXCEPT ![k] = "threw"] /\ UNCHANGED answer
           \/ /\ progress' = [progress EXCEPT ![k] = "answered"]
              /\ \E told : answer' = [answer EXCEPT ![k] = <<Policies!Views[m].outputs[1], told>>]
  BY <1>1
<1>3. p \in Policies!Parameters
  BY RequestsAre, MethodsAreFunctions DEF PoliciesCore, Policies!TypeOK
<1>4. /\ progress[k] = "idle" /\ UNCHANGED <<client, policy, delegation, landed, approvals>>
      /\ DOMAIN answer = Calls /\ answer[k] = <<>>
  BY DEF Policies!Read, Policies!contracts, PoliciesCore, Policies!TypeOK
<1>5. CASE progress' = [progress EXCEPT ![k] = "threw"] /\ UNCHANGED answer
  BY <1>2, <1>3, <1>4, <1>5, PolicyCallKeepsIt
<1>6. CASE /\ progress' = [progress EXCEPT ![k] = "answered"]
           /\ \E told : answer' = [answer EXCEPT ![k] = <<Policies!Views[m].outputs[1], told>>]
  <2>1. PICK told : answer' = [answer EXCEPT ![k] = <<Policies!Views[m].outputs[1], told>>]
    BY <1>6
  <2>2. answer'[k] # <<>> /\ DOMAIN answer' = Calls /\ \A j \in Calls : j # k => answer'[j] = answer[j]
    BY <1>4, <2>1
  <2>3. QED
    BY <1>2, <1>3, <1>4, <1>6, <2>2, PolicyCallKeepsIt
<1>7. QED
  BY <1>2, <1>5, <1>6

LEMMA PolicyStartKeepsIt ==
  ASSUME PoliciesCore, NEW k \in Calls, Policies!Start(k)
  PROVE  PoliciesCore'
<1>1. PICK m \in Policies!ContractWrites : \E p \in Policies!Requests(m) :
        \E a \in IF m = "initialize" THEN {"other"} ELSE Policies!Accounts :
          /\ request' = [request EXCEPT ![k] = [p EXCEPT !.account = a]]
          /\ \E after \in {"threw", "prompt"} : progress' = [progress EXCEPT ![k] = after]
  BY DEF Policies!Start
<1>2. PICK p \in Policies!Requests(m) :
        \E a \in IF m = "initialize" THEN {"other"} ELSE Policies!Accounts :
          /\ request' = [request EXCEPT ![k] = [p EXCEPT !.account = a]]
          /\ \E after \in {"threw", "prompt"} : progress' = [progress EXCEPT ![k] = after]
  BY <1>1
<1>3. PICK a \in Policies!Accounts, after \in {"threw", "prompt"} :
        /\ request' = [request EXCEPT ![k] = [p EXCEPT !.account = a]]
        /\ progress' = [progress EXCEPT ![k] = after]
  BY <1>2 DEF Policies!Accounts
<1>4. /\ p \in Policies!Parameters /\ p.method = m
      /\ m = "initialize" => p.policyCodeHash # None \/ p.policyBytes # None
      /\ m = "approveDelegator" => /\ p.signature \in approvals /\ p.delegator = p.signature.by
                                   /\ p.deadline = p.signature.deadline
  BY RequestsAre, MethodsAreFunctions DEF PoliciesCore, Policies!TypeOK
<1> DEFINE q == [p EXCEPT !.account = a]
<1>5. /\ q \in Policies!Parameters /\ q.method = m /\ q.policyCodeHash = p.policyCodeHash
      /\ q.policyBytes = p.policyBytes /\ q.signature = p.signature /\ q.delegator = p.delegator
      /\ q.deadline = p.deadline
  BY <1>4 DEF Policies!Parameters
<1> HIDE DEF q
<1>6. WriteIsMeant(q)
  BY <1>4, <1>5, MethodsAreFunctions DEF WriteIsMeant, Policies!None, None, Policies!ContractWrites
<1>7. /\ progress[k] = "idle" /\ UNCHANGED <<client, policy, delegation, landed, approvals, answer>>
      /\ DOMAIN answer = Calls /\ answer[k] = <<>>
  BY DEF Policies!Start, Policies!contracts, PoliciesCore, Policies!TypeOK
<1>8. request' = [request EXCEPT ![k] = q]
  BY <1>3 DEF q
<1>9. QED
  BY <1>3, <1>5, <1>6, <1>7, <1>8, PolicyCallKeepsIt

LEMMA PolicySendsOrFailsKeepsIt ==
  ASSUME PoliciesCore, NEW k \in Calls, Policies!Sends(k) \/ Policies!Fails(k)
  PROVE  PoliciesCore'
<1>1. PICK after \in {"threw", "sent"} : progress' = [progress EXCEPT ![k] = after]
  BY DEF Policies!Sends, Policies!Fails
<1>2. after = "sent" => progress[k] = "prompt"
  BY <1>1 DEF Policies!Sends, Policies!Fails, PoliciesCore, Policies!TypeOK
<1>3. /\ progress[k] \in {"idle", "prompt"}
      /\ UNCHANGED <<client, policy, delegation, landed, approvals, request, answer>>
  BY DEF Policies!Sends, Policies!Fails, Policies!contracts
<1>4. /\ request' = [request EXCEPT ![k] = request[k]] /\ request[k] \in Policies!Parameters
      /\ DOMAIN answer = Calls /\ answer[k] = <<>>
  BY <1>3 DEF PoliciesCore, Policies!TypeOK
<1>5. progress[k] = "prompt" => WriteIsMeant(request[k])
  BY DEF PoliciesCore, Policies!WritesAreMeant, WriteIsMeant
<1>6. QED
  BY <1>1, <1>2, <1>3, <1>4, <1>5, PolicyCallKeepsIt

LEMMA SignsApprovalKeepsIt ==
  ASSUME LinksTypeOK, LinksHold, PoliciesCore, NEW a \in Policies!Accounts, Policies!SignsApproval(a)
  PROVE  PoliciesCore'
<1> DEFINE s == [by |-> a, domain |-> Policies!policyClientDomain("policyClient", client.chain),
                 nonce |-> delegation.nonces[a], deadline |-> now + Ttl]
<1>1. client.chain # None /\ approvals = {} /\ approvals' = {s}
  BY DEF Policies!SignsApproval, Policies!None, None
<1>2. client.chain \in Nets
  BY <1>1, RegistriesOfAClient DEF LinksTypeOK, LinksHold
<1>3. s \in Policies!Approvals(0..MaxTime + Ttl)
  BY <1>2, IdentityLinksAssumption DEF Policies!Approvals, LinksTypeOK, PoliciesCore, Policies!TypeOK
<1>4. s.domain = Policies!policyClientDomain("policyClient", client.chain)
  OBVIOUS
<1> HIDE DEF s
<1>5. UNCHANGED <<client, policy, delegation, landed, request, progress, answer>>
  BY DEF Policies!SignsApproval, Policies!contracts
<1>6. Policies!TypeOK'
  BY <1>1, <1>3, <1>5 DEF PoliciesCore, Policies!TypeOK
<1>7. Policies!WritesAreMeant'
  BY <1>1, <1>5 DEF PoliciesCore, Policies!WritesAreMeant
<1>8. Policies!ApprovalsAreTrue'
  BY <1>1, <1>4, <1>5 DEF PoliciesCore, Policies!ApprovalsAreTrue
<1>9. QED
  BY <1>6, <1>7, <1>8 DEF PoliciesCore

LEMMA OthersKeepIt ==
  ASSUME PoliciesCore, Policies!Others
  PROVE  PoliciesCore'
<1>1. /\ UNCHANGED <<client, delegation, approvals, request, progress, answer>>
      /\ \/ UNCHANGED policy
         \/ \E params \in {"json", "text", "null"} : policy' = [policy EXCEPT !.config = params]
      /\ \/ UNCHANGED landed
         \/ landed' = {[from |-> "user", to |-> "policyClient", value |-> 1, chainId |-> 1]}
  BY DEF Policies!Others
<1>2. Policies!TypeOK'
  BY <1>1 DEF PoliciesCore, Policies!TypeOK
<1>3. Policies!WritesAreMeant' /\ Policies!ApprovalsAreTrue'
  BY <1>1 DEF PoliciesCore, Policies!WritesAreMeant, Policies!ApprovalsAreTrue
<1>4. QED
  BY <1>2, <1>3 DEF PoliciesCore

\* What a policy contract and a policy client become with a transaction they take.
LEMMA PolicyAfterIs ==
  ASSUME PoliciesCore, NEW p \in Policies!Parameters, p.method \in Policies!PolicyWrites, WriteIsMeant(p)
  PROVE  Policies!PolicyAfter(p, Meant(p)) \in
           [initialized : BOOLEAN, factory : {Policies!None, "factory"},
            owner : Policies!Accounts \cup {Policies!None},
            policyCodeHash : {Policies!None, "hashA", "hashB"},
            config : {Policies!None, "json", "text", "null"},
            artifacts : [Policies!PolicyArtifacts -> Policies!Texts]]
<1> DEFINE Types == [initialized : BOOLEAN, factory : {Policies!None, "factory"},
                     owner : Policies!Accounts \cup {Policies!None},
                     policyCodeHash : {Policies!None, "hashA", "hashB"},
                     config : {Policies!None, "json", "text", "null"},
                     artifacts : [Policies!PolicyArtifacts -> Policies!Texts]]
<1>1. policy \in Types
  BY DEF PoliciesCore, Policies!TypeOK
<1>2. CASE p.method = "initialize"
  <2>1. Policies!policyCodeHash(p) \in {"hashA", "hashB"}
    BY <1>2 DEF WriteIsMeant, Policies!policyCodeHash, Policies!Parameters, Policies!Keccak256,
       Policies!PolicyBytes
  <2>2. /\ p.factory = "factory" /\ p.owner \in Policies!Accounts
        /\ p.artifacts \in [Policies!PolicyArtifacts -> Policies!Texts]
    BY DEF Policies!Parameters
  <2>3. Policies!PolicyAfter(p, Meant(p)) =
          [policy EXCEPT !.initialized = TRUE, !.factory = p.factory, !.owner = p.owner,
                         !.artifacts = p.artifacts, !.policyCodeHash = Policies!policyCodeHash(p)]
    BY <1>2, MeantIs DEF Policies!PolicyAfter
  <2>4. QED
    BY <1>1, <2>1, <2>2, <2>3
<1>3. CASE p.method = "setSecretsSchemaCid"
  <2>1. p.secretsSchemaCid \in Policies!Texts
    BY DEF Policies!Parameters
  <2>2. Policies!PolicyAfter(p, Meant(p)) = [policy EXCEPT !.artifacts.secretsSchemaCid = p.secretsSchemaCid]
    BY <1>3, MeantIs DEF Policies!PolicyAfter
  <2>3. QED
    BY <1>1, <2>1, <2>2
<1>4. CASE p.method = "transferOwnership"
  <2>1. p.newOwner \in Policies!Accounts
    BY DEF Policies!Parameters
  <2>2. Policies!PolicyAfter(p, Meant(p)) = [policy EXCEPT !.owner = p.newOwner]
    BY <1>4, MeantIs DEF Policies!PolicyAfter
  <2>3. QED
    BY <1>1, <2>1, <2>2
<1>5. CASE p.method = "renounceOwnership"
  <2>1. Policies!PolicyAfter(p, Meant(p)) = [policy EXCEPT !.owner = Policies!None]
    BY <1>5 DEF Policies!PolicyAfter
  <2>2. QED
    BY <1>1, <2>1
<1>6. QED
  BY <1>2, <1>3, <1>4, <1>5 DEF Policies!PolicyWrites

\* What a delegation is, but for how far its nonces go.
Delegations == [owner : Policies!Accounts, delegators : SUBSET Policies!Accounts,
                nonces : [Policies!Accounts -> Nat], required : BOOLEAN]

\* One more nonce is used.
Counted(d, delegators, a) == [d EXCEPT !.delegators = delegators, !.nonces[a] = @ + 1]

LEMMA OneMoreNonce ==
  ASSUME NEW d \in Delegations, NEW a \in Policies!Accounts, NEW delegators \in SUBSET Policies!Accounts
  PROVE  LET after == Counted(d, delegators, a)
         IN  /\ after \in Delegations /\ after.delegators = delegators /\ after.nonces[a] > d.nonces[a]
             /\ \A b \in Policies!Accounts : after.nonces[b] <= d.nonces[b] + 1
<1> DEFINE nonces1 == [d.nonces EXCEPT ![a] = d.nonces[a] + 1]
           after == Counted(d, delegators, a)
<1>1. after = [d EXCEPT !.delegators = delegators, !.nonces = nonces1]
  BY DEF Delegations, Counted
<1>2. d.nonces \in [Policies!Accounts -> Nat]
  BY DEF Delegations
<1>3. /\ nonces1 \in [Policies!Accounts -> Nat] /\ nonces1[a] > d.nonces[a]
      /\ \A b \in Policies!Accounts : nonces1[b] <= d.nonces[b] + 1
  BY <1>2
<1> HIDE DEF nonces1
<1>4. after.nonces = nonces1 /\ after.delegators = delegators /\ after \in Delegations
  BY <1>1, <1>3 DEF Delegations
<1>5. QED
  BY <1>3, <1>4

LEMMA DelegationAfterIs ==
  ASSUME PoliciesCore, NEW p \in Policies!Parameters, p.method \in Policies!DelegatorWrites,
         NEW after, after = Policies!DelegationAfter(p, Meant(p))
  PROVE  /\ after \in Delegations
         /\ \A a \in Policies!Accounts : after.nonces[a] <= delegation.nonces[a] + 1
<1>1. delegation \in Delegations
  BY CardinalityOfCalls, CardinalityIsTheSame DEF PoliciesCore, Policies!TypeOK, Delegations
<1>2. p.delegator \in Policies!Accounts /\ p.account \in Policies!Accounts /\ p.required \in BOOLEAN
  BY DEF Policies!Parameters
<1>3. CASE p.method = "approveDelegator"
  <2>1. after = Counted(delegation, delegation.delegators \cup {p.delegator}, p.delegator)
    BY <1>3, MeantIs DEF Policies!DelegationAfter, Counted
  <2>2. delegation.delegators \cup {p.delegator} \in SUBSET Policies!Accounts
    BY <1>1, <1>2 DEF Delegations
  <2>3. QED
    BY <1>1, <1>2, <2>1, <2>2, OneMoreNonce
<1>4. CASE p.method = "removeDelegator"
  <2>1. after = [delegation EXCEPT !.delegators = @ \ {p.delegator}]
    BY <1>4, MeantIs DEF Policies!DelegationAfter
  <2>2. QED
    BY <1>1, <1>2, <2>1 DEF Delegations
<1>5. CASE p.method = "setDelegatorRequired"
  <2>1. after = [delegation EXCEPT !.required = p.required]
    BY <1>5, MeantIs DEF Policies!DelegationAfter
  <2>2. QED
    BY <1>1, <1>2, <2>1 DEF Delegations
<1>6. CASE p.method = "resignDelegator"
  <2>1. after = Counted(delegation, delegation.delegators \ {p.account}, p.account)
    BY <1>6 DEF Policies!DelegationAfter, Counted
  <2>2. delegation.delegators \ {p.account} \in SUBSET Policies!Accounts
    BY <1>1 DEF Delegations
  <2>3. QED
    BY <1>1, <1>2, <2>1, <2>2, OneMoreNonce
<1>7. QED
  BY <1>3, <1>4, <1>5, <1>6 DEF Policies!DelegatorWrites

LEMMA PolicySentIs ==
  ASSUME PoliciesCore, NEW k \in Calls, progress[k] \in {"prompt", "sent"}
  PROVE  request[k] \in Policies!Parameters /\ WriteIsMeant(request[k])
BY DEF PoliciesCore, Policies!TypeOK, Policies!WritesAreMeant, WriteIsMeant

\* A write is a policy contract's or a policy client's.
LEMMA WritesAreApart ==
  ASSUME NEW p, WriteIsMeant(p)
  PROVE  p.method \in Policies!PolicyWrites <=> p.method \notin Policies!DelegatorWrites
BY DEF WriteIsMeant, Policies!PolicyWrites, Policies!DelegatorWrites

\* A transaction that is mined, in the parameters' terms.
LEMMA PolicyMinedIs ==
  ASSUME NEW k \in Calls, Policies!Mined(k)
  PROVE  LET p == request[k]
             ofPolicy == p.method \in Policies!PolicyWrites
             accepts == IF ofPolicy THEN Policies!PolicyAccepts(p, Meant(p))
                        ELSE Policies!DelegationAccepts(p, Meant(p))
         IN  /\ progress[k] = "sent"
             /\ UNCHANGED <<focus, client, on, now, sets, landed, approvals, request, answer>>
             /\ \/ /\ accepts /\ progress' = [progress EXCEPT ![k] = "done"]
                   /\ policy' = IF ofPolicy THEN Policies!PolicyAfter(p, Meant(p)) ELSE policy
                   /\ delegation' = IF ofPolicy THEN delegation ELSE Policies!DelegationAfter(p, Meant(p))
                \/ /\ ~accepts /\ progress' = [progress EXCEPT ![k] = "reverted"]
                   /\ UNCHANGED <<policy, delegation>>
BY DEF Policies!Mined, Meant

LEMMA PolicyMinedKeepsIt ==
  ASSUME PoliciesCore, NEW k \in Calls, Policies!Mined(k)
  PROVE  PoliciesCore'
<1> DEFINE p == request[k]
           ofPolicy == p.method \in Policies!PolicyWrites
           done == {j \in Calls : progress[j] = "done"}
           doneAfter == {j \in Calls : progress'[j] = "done"}
<1>1. /\ progress[k] = "sent" /\ UNCHANGED <<client, landed, approvals, request, answer>>
  BY PolicyMinedIs
<1>2. p \in Policies!Parameters /\ WriteIsMeant(p)
  BY <1>1, PolicySentIs
<1>3. CASE /\ progress' = [progress EXCEPT ![k] = "done"]
           /\ policy' = IF ofPolicy THEN Policies!PolicyAfter(p, Meant(p)) ELSE policy
           /\ delegation' = IF ofPolicy THEN delegation ELSE Policies!DelegationAfter(p, Meant(p))
  <2>1. policy' \in [initialized : BOOLEAN, factory : {Policies!None, "factory"},
                     owner : Policies!Accounts \cup {Policies!None},
                     policyCodeHash : {Policies!None, "hashA", "hashB"},
                     config : {Policies!None, "json", "text", "null"},
                     artifacts : [Policies!PolicyArtifacts -> Policies!Texts]]
    <3>1. CASE ofPolicy
      BY <1>2, <1>3, <3>1, PolicyAfterIs
    <3>2. CASE ~ofPolicy
      BY <1>3, <3>2 DEF PoliciesCore, Policies!TypeOK
    <3>3. QED
      BY <3>1, <3>2
  <2>2. delegation \in Delegations
    BY CardinalityOfCalls, CardinalityIsTheSame DEF PoliciesCore, Policies!TypeOK, Delegations
  <2>3. /\ delegation' \in Delegations
        /\ \A a \in Policies!Accounts : delegation'.nonces[a] <= delegation.nonces[a] + 1
    <3>1. CASE ofPolicy
      BY <1>3, <2>2, <3>1 DEF Delegations
    <3>2. CASE ~ofPolicy
      BY <1>2, <1>3, <3>2, DelegationAfterIs, WritesAreApart
    <3>3. QED
      BY <3>1, <3>2
  <2>4. /\ Cardinality(done) \in Nat /\ Cardinality(doneAfter) = Cardinality(done) + 1
        /\ Cardinality(doneAfter) <= Cardinality(Calls)
    <3>1. progress \in [Calls -> {"idle", "prompt", "sent", "done", "reverted", "threw", "answered"}]
      BY DEF PoliciesCore, Policies!TypeOK
    <3>2. QED
      BY <1>1, <1>3, <3>1, OneMoreIsDone
  <2>5. \A a \in Policies!Accounts : delegation.nonces[a] <= Cardinality(done)
    BY CardinalityIsTheSame DEF PoliciesCore, Policies!ApprovalsAreTrue
  <2> HIDE DEF done, doneAfter
  <2>6. \A a \in Policies!Accounts : /\ delegation'.nonces[a] <= Cardinality(doneAfter)
                                     /\ delegation'.nonces[a] \in 0..Cardinality(Calls)
    <3>1. \A a \in Policies!Accounts : delegation.nonces[a] \in Nat /\ delegation'.nonces[a] \in Nat
      BY <2>2, <2>3 DEF Delegations
    <3>2. QED
      BY <2>3, <2>4, <2>5, <3>1, CardinalityOfCalls
  <2>7. delegation' \in [owner : Policies!Accounts, delegators : SUBSET Policies!Accounts,
                         nonces : [Policies!Accounts -> 0..Cardinality(Calls)], required : BOOLEAN]
    <3>1. delegation'.nonces \in [Policies!Accounts -> 0..Cardinality(Calls)]
      BY <2>3, <2>6 DEF Delegations
    <3>2. QED
      BY <2>3, <3>1 DEF Delegations
  <2>8. Policies!TypeOK'
    BY <1>1, <1>3, <2>1, <2>7, CardinalityIsTheSame DEF PoliciesCore, Policies!TypeOK
  <2>9. Policies!WritesAreMeant'
    BY <1>1, <1>3 DEF PoliciesCore, Policies!TypeOK, Policies!WritesAreMeant
  <2>10. Policies!ApprovalsAreTrue'
    BY <1>1, <2>6, CardinalityIsTheSame DEF PoliciesCore, Policies!ApprovalsAreTrue, doneAfter
  <2>11. QED
    BY <2>8, <2>9, <2>10 DEF PoliciesCore
<1>4. CASE progress' = [progress EXCEPT ![k] = "reverted"] /\ UNCHANGED <<policy, delegation>>
  <2>1. request' = [request EXCEPT ![k] = p]
    BY <1>1 DEF PoliciesCore, Policies!TypeOK
  <2>2. DOMAIN answer = Calls /\ answer[k] = <<>>
    BY <1>1 DEF PoliciesCore, Policies!TypeOK
  <2>3. QED
    BY <1>1, <1>2, <1>4, <2>1, <2>2, PolicyCallKeepsIt
<1>5. QED
  BY <1>3, <1>4, PolicyMinedIs

\* The policy's contracts' part holds in every state, too.
LEMMA PoliciesInvariance == Spec => [](LinksTypeOK /\ LinksHold /\ PoliciesCore)
<1>1. AllInit => PoliciesCore
  BY PoliciesInitially
<1>2. LinksTypeOK /\ LinksHold /\ PoliciesCore /\ [AllNext]_allVars => PoliciesCore'
  <2> SUFFICES ASSUME LinksTypeOK, LinksHold, PoliciesCore, [AllNext]_allVars
               PROVE  PoliciesCore'
    OBVIOUS
  <2>1. CASE UNCHANGED policyVars
    <3>1. Policies!TypeOK'
      BY <2>1 DEF policyVars, PoliciesCore, Policies!TypeOK
    <3>2. Policies!WritesAreMeant' /\ Policies!ApprovalsAreTrue'
      BY <2>1, ClientStays DEF policyVars, PoliciesCore, Policies!WritesAreMeant, Policies!ApprovalsAreTrue
    <3>3. QED
      BY <3>1, <3>2 DEF PoliciesCore
  <2>2. QED
    BY <2>1, PolicySteps, ReadKeepsIt, PolicyStartKeepsIt, PolicySendsOrFailsKeepsIt, PolicyMinedKeepsIt,
       SignsApprovalKeepsIt, OthersKeepIt
<1>3. QED
  BY <1>1, <1>2, LinksInvariance, PTL DEF Spec

\* Every variable of the client, of the registries and of a policy's contracts has its type: a
\* call has parameters of the types its method takes, and a nonce is at most the number of calls.
THEOREM TypeInvariance == Spec => []TypeOK
<1>1. LinksTypeOK /\ LinksHold /\ PoliciesCore => TypeOK
  BY DEF PoliciesCore, TypeOK
<1>2. QED
  BY <1>1, PoliciesInvariance, PTL

\* The inductive invariant: signatures are of their parties, calls and writes ask for what their
\* callers can, no nonce has run ahead of the transactions, approvals are of the client's own chain.
THEOREM Invariance == Spec => [](TypeOK /\ LinksHold /\ Policies!PoliciesHold)
<1>1. LinksTypeOK /\ LinksHold /\ PoliciesCore => TypeOK /\ LinksHold /\ Policies!PoliciesHold
  BY DEF PoliciesCore, TypeOK, Policies!PoliciesHold
<1>2. QED
  BY <1>1, PoliciesInvariance, PTL

-----------------------------------------------------------------------------
(* A transaction does to a policy's contracts what its caller asked for. *)

\* A contract that nothing has come between takes the call.
LEMMA PolicyRevertsOnlyOvertaken ==
  ASSUME LinksTypeOK, PoliciesCore, NEW k \in Calls, Policies!Mined(k), progress'[k] = "reverted"
  PROVE  Policies!Overtaken(request[k])
<1> DEFINE p == request[k]
<1>1. progress[k] = "sent" /\ p \in Policies!Parameters /\ WriteIsMeant(p)
  BY PolicyMinedIs, PolicySentIs
<1>2. IF p.method \in Policies!PolicyWrites THEN ~Policies!PolicyAccepts(p, Meant(p))
      ELSE ~Policies!DelegationAccepts(p, Meant(p))
  BY PolicyMinedIs DEF PoliciesCore, Policies!TypeOK
<1> SUFFICES Policies!Overtaken(p)
  OBVIOUS
<1> HIDE DEF p
<1>3. CASE p.method = "initialize"
  <2>1. ~Policies!PolicyAccepts(p, Meant(p))
    BY <1>2, <1>3 DEF Policies!PolicyWrites
  <2>2. Meant(p)["artifacts"] = p.artifacts
    BY <1>3, MeantIs
  <2>3. policy.initialized \/ Policies!SecretsSchemaWithoutWasm(p.artifacts.secretsSchemaCid, p.artifacts.wasmCid)
    BY <1>3, <2>1, <2>2 DEF Policies!PolicyAccepts
  <2>4. QED
    BY <1>3, <2>3 DEF Policies!Overtaken, Policies!SecretsSchemaWithoutWasm
<1>4. CASE p.method = "setSecretsSchemaCid"
  <2>1. ~Policies!PolicyAccepts(p, Meant(p))
    BY <1>2, <1>4 DEF Policies!PolicyWrites
  <2>2. Meant(p)["_secretsSchemaCid"] = p.secretsSchemaCid
    BY <1>4, MeantIs
  <2>3. \/ p.account # policy.owner
        \/ Policies!SecretsSchemaWithoutWasm(p.secretsSchemaCid, policy.artifacts.wasmCid)
    BY <1>4, <2>1, <2>2 DEF Policies!PolicyAccepts
  <2>4. QED
    BY <1>4, <2>3 DEF Policies!Overtaken, Policies!SecretsSchemaWithoutWasm
<1>5. CASE p.method \in {"transferOwnership", "renounceOwnership"}
  BY <1>2, <1>5 DEF Policies!PolicyWrites, Policies!PolicyAccepts, Policies!Overtaken
<1>6. CASE p.method = "approveDelegator"
  <2>1. ~Policies!DelegationAccepts(p, Meant(p))
    BY <1>2, <1>6 DEF Policies!PolicyWrites
  <2>2. Meant(p)["signature"] = p.signature /\ Meant(p)["delegator"] = p.delegator
        /\ Meant(p)["deadline"] = p.deadline
    BY <1>6, MeantIs
  <2>3. /\ p.signature \in approvals /\ p.delegator = p.signature.by /\ p.deadline = p.signature.deadline
        /\ p.signature.domain = Policies!policyClientDomain("policyClient", client.chain)
    BY <1>1, <1>6 DEF WriteIsMeant, PoliciesCore, Policies!ApprovalsAreTrue
  <2>4. p.signature.deadline \in Nat /\ now \in Nat
    BY <2>3, IdentityLinksAssumption DEF LinksTypeOK, PoliciesCore, Policies!TypeOK, Policies!Approvals
  <2>5. \/ p.account # delegation.owner \/ ~(now <= p.signature.deadline)
        \/ p.signature.nonce # delegation.nonces[p.signature.by]
    BY <1>6, <2>1, <2>2, <2>3 DEF Policies!DelegationAccepts
  <2>6. QED
    BY <1>6, <2>4, <2>5 DEF Policies!Overtaken
<1>7. CASE p.method \in {"removeDelegator", "setDelegatorRequired", "resignDelegator"}
  BY <1>2, <1>7 DEF Policies!PolicyWrites, Policies!DelegationAccepts, Policies!Overtaken
<1>8. QED
  BY <1>1, <1>3, <1>4, <1>5, <1>6, <1>7 DEF WriteIsMeant, Policies!PolicyWrites, Policies!DelegatorWrites

\* A call that it takes leaves it as the call wanted.
LEMMA PolicyDoesAsWanted ==
  ASSUME PoliciesCore, NEW k \in Calls, Policies!Mined(k), progress'[k] = "done"
  PROVE  Policies!Wanted(request[k])
<1> DEFINE p == request[k]
<1>1. progress[k] = "sent" /\ p \in Policies!Parameters /\ WriteIsMeant(p)
  BY PolicyMinedIs, PolicySentIs
<1>2. /\ p.method \in Policies!PolicyWrites => policy' = Policies!PolicyAfter(p, Meant(p))
      /\ p.method \notin Policies!PolicyWrites => delegation' = Policies!DelegationAfter(p, Meant(p))
  BY PolicyMinedIs DEF PoliciesCore, Policies!TypeOK
<1>3. /\ policy \in [initialized : BOOLEAN, factory : {Policies!None, "factory"},
                  owner : Policies!Accounts \cup {Policies!None},
                  policyCodeHash : {Policies!None, "hashA", "hashB"},
                  config : {Policies!None, "json", "text", "null"},
                  artifacts : [Policies!PolicyArtifacts -> Policies!Texts]]
      /\ delegation \in Delegations
  BY CardinalityOfCalls, CardinalityIsTheSame DEF PoliciesCore, Policies!TypeOK, Delegations
<1>4. p.delegator \in Policies!Accounts /\ p.account \in Policies!Accounts
  BY <1>1 DEF Policies!Parameters
<1> SUFFICES Policies!Wanted(p)
  OBVIOUS
<1> HIDE DEF p
<1>5. CASE p.method = "initialize"
  <2>1. policy' = [policy EXCEPT !.initialized = TRUE, !.factory = p.factory, !.owner = p.owner,
                         !.artifacts = p.artifacts, !.policyCodeHash = Policies!policyCodeHash(p)]
    BY <1>2, <1>5, MeantIs DEF Policies!PolicyWrites, Policies!PolicyAfter
  <2>2. /\ policy'.artifacts = p.artifacts /\ policy'.owner = p.owner /\ policy'.factory = p.factory
        /\ policy'.policyCodeHash = Policies!policyCodeHash(p)
    BY <1>3, <2>1
  <2>3. QED
    BY <1>5, <2>2 DEF Policies!Wanted, Policies!policyCodeHash
<1>6. CASE p.method = "setSecretsSchemaCid"
  <2>1. policy' = [policy EXCEPT !.artifacts.secretsSchemaCid = p.secretsSchemaCid]
    BY <1>2, <1>6, MeantIs DEF Policies!PolicyWrites, Policies!PolicyAfter
  <2>2. policy'.artifacts.secretsSchemaCid = p.secretsSchemaCid
    BY <1>3, <2>1 DEF Policies!PolicyArtifacts
  <2>3. QED
    BY <1>6, <2>2 DEF Policies!Wanted
<1>7. CASE p.method = "transferOwnership"
  <2>1. policy'.owner = p.newOwner
    BY <1>2, <1>3, <1>7, MeantIs DEF Policies!PolicyWrites, Policies!PolicyAfter
  <2>2. QED
    BY <1>7, <2>1 DEF Policies!Wanted
<1>8. CASE p.method = "renounceOwnership"
  <2>1. policy'.owner = Policies!None
    BY <1>2, <1>3, <1>8 DEF Policies!PolicyWrites, Policies!PolicyAfter
  <2>2. QED
    BY <1>8, <2>1 DEF Policies!Wanted, Policies!Accounts, Policies!None
<1>9. CASE p.method = "approveDelegator"
  <2>1. delegation' = Counted(delegation, delegation.delegators \cup {p.delegator}, p.delegator)
    BY <1>2, <1>9, MeantIs DEF Policies!PolicyWrites, Policies!DelegationAfter, Counted
  <2>2. delegation.delegators \cup {p.delegator} \in SUBSET Policies!Accounts
    BY <1>3, <1>4 DEF Delegations
  <2>3. delegation'.delegators = delegation.delegators \cup {p.delegator}
    BY <1>3, <1>4, <2>1, <2>2, OneMoreNonce
  <2>4. delegation'.nonces[p.delegator] > delegation.nonces[p.delegator]
    BY <1>3, <1>4, <2>1, <2>2, OneMoreNonce
  <2>5. QED
    BY <1>9, <2>3, <2>4 DEF Policies!Wanted
<1>10. CASE p.method = "removeDelegator"
  <2>1. delegation'.delegators = delegation.delegators \ {p.delegator}
    BY <1>2, <1>3, <1>10, MeantIs DEF Policies!PolicyWrites, Policies!DelegationAfter, Delegations
  <2>2. QED
    BY <1>10, <2>1 DEF Policies!Wanted
<1>11. CASE p.method = "resignDelegator"
  <2>1. delegation' = Counted(delegation, delegation.delegators \ {p.account}, p.account)
    BY <1>2, <1>11 DEF Policies!PolicyWrites, Policies!DelegationAfter, Counted
  <2>2. delegation.delegators \ {p.account} \in SUBSET Policies!Accounts
    BY <1>3 DEF Delegations
  <2>3. delegation'.delegators = delegation.delegators \ {p.account}
    BY <1>3, <1>4, <2>1, <2>2, OneMoreNonce
  <2>4. QED
    BY <1>11, <2>3 DEF Policies!Wanted
<1>12. CASE p.method = "setDelegatorRequired"
  <2>1. delegation'.required = p.required
    BY <1>2, <1>3, <1>12, MeantIs DEF Policies!PolicyWrites, Policies!DelegationAfter, Delegations
  <2>2. QED
    BY <1>12, <2>1 DEF Policies!Wanted
<1>13. QED
  BY <1>1, <1>5, <1>6, <1>7, <1>8, <1>9, <1>10, <1>11, <1>12
     DEF WriteIsMeant, Policies!PolicyWrites, Policies!DelegatorWrites

\* A read tells what it was asked, in whatever form the question was.
LEMMA ReadTells ==
  ASSUME PoliciesCore, NEW k \in Calls, Policies!Read(k), progress'[k] = "answered"
  PROVE  Policies!Told(request'[k], answer'[k][2])
<1>1. PICK m \in Policies!ContractReads : \E p \in Policies!Requests(m) :
        /\ request' = [request EXCEPT ![k] = p]
        /\ \/ progress' = [progress EXCEPT ![k] = "threw"]
           \/ answer' = [answer EXCEPT ![k] = <<Policies!Views[m].outputs[1],
                           Policies!Answered(m, Policies!Viewed(m, Policies!ReadArgs(p)))>>]
  BY DEF Policies!Read
<1>2. PICK p \in Policies!Requests(m) :
        /\ request' = [request EXCEPT ![k] = p]
        /\ \/ progress' = [progress EXCEPT ![k] = "threw"]
           \/ answer' = [answer EXCEPT ![k] = <<Policies!Views[m].outputs[1],
                           Policies!Answered(m, Policies!Viewed(m, Policies!ReadArgs(p)))>>]
  BY <1>1
<1>3. p \in Policies!Parameters /\ p.method = m
  BY RequestsAre, MethodsAreFunctions DEF PoliciesCore, Policies!TypeOK
<1> DEFINE told == Policies!Answered(m, Policies!Viewed(m, Policies!ReadArgs(p)))
<1> HIDE DEF told
<1>4. request'[k] = p /\ answer'[k][2] = told
  <2>1. /\ progress'[k] # "threw"
        /\ progress \in [Calls -> {"idle", "prompt", "sent", "done", "reverted", "threw", "answered"}]
        /\ DOMAIN answer = Calls /\ request \in [Calls -> Policies!Parameters]
    BY DEF PoliciesCore, Policies!TypeOK
  <2>2. answer' = [answer EXCEPT ![k] = <<Policies!Views[m].outputs[1], told>>]
    BY <1>2, <2>1 DEF told
  <2>3. QED
    BY <1>2, <2>1, <2>2
<1>5. CASE m = "isIntentSpent"
  <2>1. Policies!ReadArgs(p) = <<Policies!getDelegatedIntentDigest(p.intent)>>
    BY <1>3, <1>5 DEF Policies!ReadArgs, Policies!isIntentSpent
  <2>2. told = (Policies!getDelegatedIntentDigest(p.intent).message \in landed)
    BY <1>5, <2>1 DEF told, Policies!Answered, Policies!Viewed
  <2>3. /\ p.intent.from = "user" /\ p.intent.to = "policyClient" /\ p.intent.chainId.n = 1
        /\ p.intent = [from |-> "user", to |-> "policyClient", value |-> p.intent.value,
                       chainId |-> p.intent.chainId]
    BY <1>3, IntentsThere DEF Policies!Parameters
  <2>4. Policies!getDelegatedIntentDigest(p.intent).message
          = [from |-> "user", to |-> "policyClient", value |-> p.intent.value.n, chainId |-> 1]
    BY <2>3 DEF Policies!getDelegatedIntentDigest, Policies!delegatedIntentTypedData,
       Policies!normalizeIntent, Policies!hexToBigInt
  <2>5. landed \subseteq {[from |-> "user", to |-> "policyClient", value |-> 1, chainId |-> 1]}
    BY DEF PoliciesCore, Policies!TypeOK
  <2>6. ASSUME told = TRUE
        PROVE  \E i \in landed : i.value = p.intent.value.n
    <3>1. [from |-> "user", to |-> "policyClient", value |-> p.intent.value.n, chainId |-> 1] \in landed
      BY <2>2, <2>4, <2>6
    <3>2. QED
      BY <3>1
  <2>7. ASSUME NEW i \in landed, i.value = p.intent.value.n
        PROVE  told = TRUE
    <3>1. i = [from |-> "user", to |-> "policyClient", value |-> p.intent.value.n, chainId |-> 1]
      BY <2>5, <2>7
    <3>2. QED
      BY <2>2, <2>4, <3>1
  <2>8. told = \E i \in landed : i.value = p.intent.value.n
    <3>1. told \in BOOLEAN
      BY <2>2
    <3>2. QED
      BY <2>6, <2>7, <3>1
  <2>9. UNCHANGED landed
    BY DEF Policies!Read, Policies!contracts
  <2>10. QED
    BY <1>3, <1>4, <1>5, <2>8 DEF Policies!Told
<1>6. CASE m = "getPolicySetSnapshot"
  <2>1. told = [policyId |-> Policies!SetId(Len(sets)), revision |-> Len(sets),
                policies |-> IF sets = <<>> THEN <<>> ELSE sets[Len(sets)]]
    BY <1>6 DEF told, Policies!Answered, Policies!Viewed, Policies!getPolicySetSnapshot
  <2>2. QED
    BY <1>3, <1>4, <1>6, <2>1 DEF Policies!Told
<1>7. CASE m = "isDelegator"
  <2>1. Policies!ReadArgs(p) = <<p.delegator>>
    BY <1>3, <1>7 DEF Policies!ReadArgs
  <2>2. told = (p.delegator \in delegation.delegators)
    BY <1>7, <2>1 DEF told, Policies!Answered, Policies!Viewed
  <2>3. QED
    BY <1>3, <1>4, <1>7, <2>2 DEF Policies!Told
<1>8. CASE m = "delegatorNonces"
  <2>1. Policies!ReadArgs(p) = <<p.delegator>>
    BY <1>3, <1>8 DEF Policies!ReadArgs
  <2>2. told = delegation.nonces[p.delegator]
    BY <1>8, <2>1 DEF told, Policies!Answered, Policies!Viewed
  <2>3. QED
    BY <1>3, <1>4, <1>8, <2>2 DEF Policies!Told
<1>9. CASE m = "getPolicyConfig"
  <2>1. told = Policies!getPolicyConfig(<<policy.config, 100>>)
    BY <1>9 DEF told, Policies!Answered, Policies!Viewed
  <2>2. Differ(Policies!getPolicyConfigView.outputs)
    BY DEF Policies!getPolicyConfigView, Differ
  <2>3. NamesOf(Policies!Named(Policies!getPolicyConfigView.outputs, <<policy.config, 100>>),
                Policies!getPolicyConfigView.outputs, <<policy.config, 100>>)
    BY <2>2, NamedNames
  <2>4. told = [policyParams |-> Policies!policyParams(policy.config),
                policyParamsHex |-> policy.config, expireAfter |-> 100]
    BY <2>1, <2>3 DEF Policies!getPolicyConfig, Policies!getPolicyConfigView, NamesOf
  <2>5. QED
    BY <1>3, <1>4, <1>9, <2>4 DEF Policies!Told, Policies!policyParams
<1>10. CASE m \notin {"isIntentSpent", "getPolicySetSnapshot", "isDelegator", "delegatorNonces", "getPolicyConfig"}
  BY <1>3, <1>4, <1>10 DEF Policies!Told
<1>11. QED
  BY <1>5, <1>6, <1>7, <1>8, <1>9, <1>10

\* Every step of a policy's contracts.
LEMMA PoliciesStepAsAsked ==
  ASSUME LinksTypeOK, PoliciesCore, [AllNext]_allVars, NEW k \in Calls
  PROVE  /\ progress[k] = "sent" /\ progress'[k] = "reverted" => Policies!Overtaken(request[k])
         /\ progress[k] = "sent" /\ progress'[k] = "done" => Policies!Wanted(request[k])
         /\ progress[k] = "idle" /\ progress'[k] = "answered" => Policies!Told(request'[k], answer'[k][2])
<1>1. CASE Policies!Mined(k)
  <2>1. progress[k] # "idle"
    BY <1>1, PolicyMinedIs
  <2>2. QED
    BY <1>1, <2>1, PolicyRevertsOnlyOvertaken, PolicyDoesAsWanted
<1>2. CASE Policies!Read(k)
  BY <1>2, ReadTells DEF Policies!Read
<1>3. CASE ~Policies!Mined(k) /\ ~Policies!Read(k)
  <2>1. /\ progress[k] = "sent" => progress'[k] = "sent"
        /\ progress[k] = "idle" => progress'[k] # "answered"
    <3>0. progress \in [Calls -> {"idle", "prompt", "sent", "done", "reverted", "threw", "answered"}]
      BY DEF PoliciesCore, Policies!TypeOK
    <3>1. ASSUME NEW j \in Calls, Policies!Read(j)
          PROVE  progress'[k] = progress[k]
      <4>1. PICK after : progress' = [progress EXCEPT ![j] = after]
        BY <3>1 DEF Policies!Read
      <4>2. j # k
        BY <1>3, <3>1
      <4>3. QED
        BY <3>0, <4>1, <4>2
    <3>2. ASSUME NEW j \in Calls, Policies!Start(j) \/ Policies!Sends(j) \/ Policies!Fails(j)
          PROVE  /\ progress[k] = "sent" => progress'[k] = "sent"
                 /\ progress'[k] \in {progress[k], "prompt", "sent", "threw"}
      BY <3>0, <3>2 DEF Policies!Start, Policies!Sends, Policies!Fails
    <3>3. ASSUME NEW j \in Calls, Policies!Mined(j)
          PROVE  progress'[k] = progress[k]
      BY <1>3, <3>0, <3>3, PolicyMinedIs
    <3>4. ASSUME \/ \E a \in Policies!Accounts : Policies!SignsApproval(a)
                 \/ Policies!Others \/ UNCHANGED policyVars
          PROVE  progress'[k] = progress[k]
      BY <3>4 DEF Policies!SignsApproval, Policies!Others, policyVars
    <3>5. QED
      BY <3>1, <3>2, <3>3, <3>4, PolicySteps
  <2>2. QED
    BY <2>1
<1>4. QED
  BY <1>1, <1>2, <1>3

\* Whatever a client asks its contracts for, by the names of the parameters of its methods, the
\* transaction does, or it reverts because something came between: the arguments are never encoded
\* in another order, and a signature, the gateway's or a delegator's never is for another contract
\* or nonce, save one that the owner gave under the override of the registry.  A read tells what
\* was asked, whichever form an intent is in.
THEOREM EachCallDoesWhatItAsks == Spec => DoesWhatItAsks
<1> DEFINE Links1 == \A k \in Calls :
             /\ stage[k] = "sent" /\ stage'[k] = "reverted"
                  => Overtaken(to[k], asked[k]) \/ UnderTheOverride(to[k], asked[k])
             /\ stage[k] = "sent" /\ stage'[k] = "done" => Wanted(to[k], asked[k])
           Policies1 == \A k \in Calls :
             /\ progress[k] = "sent" /\ progress'[k] = "reverted" => Policies!Overtaken(request[k])
             /\ progress[k] = "sent" /\ progress'[k] = "done" => Policies!Wanted(request[k])
             /\ progress[k] = "idle" /\ progress'[k] = "answered" => Policies!Told(request'[k], answer'[k][2])
<1>1. LinksTypeOK /\ LinksHold /\ PoliciesCore /\ [AllNext]_allVars => [Links1]_vars
  BY LinksStepAsAsked
<1>2. LinksTypeOK /\ LinksHold /\ PoliciesCore /\ [AllNext]_allVars => [Policies1]_(Policies!vars)
  BY PoliciesStepAsAsked
<1>3. Spec => [][Links1]_vars /\ [][Policies1]_(Policies!vars)
  <2> HIDE DEF Links1, Policies1
  <2>1. QED
    BY <1>1, <1>2, PoliciesInvariance, PTL DEF Spec
<1>4. QED
  BY <1>3 DEF DoesWhatItAsks, LinksAsAsked, Policies!DoesAsAsked
=============================================================================
