---------------------------- MODULE ClientActions ----------------------------
(***************************************************************************)
(* newtonWalletClientActions and newtonPublicClientActions (src/index.ts): *)
(* what a client is made of, when making one throws, and what each of its  *)
(* methods reaches.  An effect says by which way a method leaves the       *)
(* program, for which chain and to which address or URL.                   *)
(*                                                                         *)
(* A client: the chain it is given or None; the overrides; the policy      *)
(* contract's address or None.  on is the chain its wallet is connected to *)
(* at the moment of the call: users switch it as they like.                *)
(***************************************************************************)
EXTENDS Deployments, Integers

\* address ?? default
Given(address, default) == IF address = NoAddress THEN default ELSE address

supportedChains == {"mainnet", "sepolia", "baseSepolia", "base", "robinhood", "arc"}

\* walletClient?.chain?.id ?? sepolia.id
NetworkOf(client) == IF client.chain = None THEN "sepolia" ELSE client.chain

TaskManagerOf(client) ==
  Given(client.overrides.taskManagerAddress, At(NEWTON_PROVER_TASK_MANAGER, NetworkOf(client)))

AttestationValidatorOf(client) ==
  Given(client.overrides.attestationValidatorAddress, At(ATTESTATION_VALIDATOR, NetworkOf(client)))

\* Whether the actions are handed out at all.
WalletActionsOf(client) ==
  NetworkOf(client) \in supportedChains /\ TaskManagerOf(client) # NoAddress

PublicActionsOf(client) ==
  /\ NetworkOf(client) \in supportedChains
  /\ TaskManagerOf(client) # NoAddress
  /\ AttestationValidatorOf(client) # NoAddress

Throws == [way |-> "throws", chain |-> None, to |-> NoAddress]
Local == [way |-> "local", chain |-> None, to |-> NoAddress]

\* AvsHttpService: an empty override is no override.
Gateway(client, chain) ==
  [way |-> "gateway", chain |-> chain,
   to |-> Address(IF client.overrides.gatewayApiUrl \in {None, ""} THEN GATEWAY_API_URLS[chain]
                  ELSE client.overrides.gatewayApiUrl, None)]

\* viem: it writes to the chain it is told, and throws when the wallet is on another or it is
\* told none.
Writes(chain, on, to) ==
  IF chain = None \/ chain # on THEN Throws ELSE [way |-> "write", chain |-> chain, to |-> to]

Reads(client, to) == [way |-> "read", chain |-> client.chain, to |-> to]

\* A policy client, which its caller names.
PolicyClientAddress == Address("policyClient", None)

\* The policy contract is validated before anything else is done.
PolicyContractOf(client, effect) == IF client.policy = NoAddress THEN Throws ELSE effect

\* The popup is told the client's own chain, none when it has none.
Popup(client, registry) == [way |-> "popup", chain |-> client.chain, to |-> registry]

-----------------------------------------------------------------------------
(* The methods of a wallet client, by what they are bound to. *)

AvsMethods ==
  {"submitEvaluationRequest", "evaluateIntentDirect", "submitIntentAndSubscribe", "simulateTask",
   "simulatePolicy", "simulatePolicyData", "simulatePolicyDataWithClient"}

PrivacyMethods ==
  {"getPrivacyPublicKey", "getSecretsPublicKey", "uploadIdentityEncrypted", "getIdentityEncrypted",
   "storeEncryptedSecrets", "uploadConfidentialData", "getConfidentialData"}

LocalMethods == {"createSecureEnvelope", "generateSigningKeyPair", "signPrivacyAuthorization"}

WebhookMethods == {"registerWebhook", "unregisterWebhook"}

PolicyWrites == {"initialize", "setSecretsSchemaCid", "renounceOwnership", "transferOwnership"}

RegistryWrites ==
  {"registerIdentityData", "linkIdentity", "linkIdentityAsSigner", "linkIdentityAsSignerAndUser",
   "linkIdentityAsUser", "unlinkIdentityAsSigner", "unlinkIdentityAsUser"}

DelegatorSigns == {"signDelegatedIntent", "submitDelegatedIntent", "signDelegatorApproval"}

DelegatorWrites == {"approveDelegator", "removeDelegator", "setDelegatorRequired", "resignDelegator"}

\* Three of the popup's requests carry the identity registry's override.
Popups == {"connectIdentityWithNewton", "registerUserData", "linkApp", "unlinkApp"}

PopupParams(client, method) ==
  Popup(client, IF method = "connectIdentityWithNewton" THEN NoAddress
                ELSE client.overrides.identityRegistry)

\* It knows no override; NoAddress is what it throws of.
resolveIdentityRegistry(client) == At(IDENTITY_REGISTRY, client.chain)

\* `chain: null`: viem checks nothing, and asks for a transaction on no chain.
RegistryWrite_NoChain(client, on) ==
  IF resolveIdentityRegistry(client) = NoAddress THEN Throws
  ELSE [way |-> "write", chain |-> None, to |-> resolveIdentityRegistry(client)]

RegistryWrite(client, on) ==
  IF resolveIdentityRegistry(client) = NoAddress THEN Throws
  ELSE Writes(client.chain, on, resolveIdentityRegistry(client))

WalletMethods ==
  UNION {AvsMethods, PrivacyMethods, LocalMethods, WebhookMethods, PolicyWrites, RegistryWrites,
         DelegatorSigns, DelegatorWrites, Popups}

WalletEffect(client, method, on) ==
  CASE method \in AvsMethods \cup PrivacyMethods \cup WebhookMethods ->
         Gateway(client, NetworkOf(client))
    [] method \in LocalMethods \cup DelegatorSigns -> Local
    [] method \in PolicyWrites -> PolicyContractOf(client, Writes(client.chain, on, client.policy))
    [] method \in RegistryWrites -> RegistryWrite(client, on)
    [] method \in DelegatorWrites -> Writes(client.chain, on, PolicyClientAddress)
    [] method \in Popups -> PopupParams(client, method)

-----------------------------------------------------------------------------
(* The methods of a public client. *)

TaskReads == {"waitForTaskResponded", "getTaskResponseHash", "getTaskStatus"}

PolicyReads ==
  {"clientToPolicyId", "entrypoint", "factory", "getEntrypoint", "getMetadataCid", "getPolicyCid",
   "getPolicyConfig", "getWasmCid", "getSecretsSchemaCid", "getPolicyId", "getSchemaCid",
   "isPolicyVerified", "metadataCid", "owner", "policyCid", "schemaCid", "supportsInterface"}

PolicyClientReads ==
  {"getPolicies", "getPolicySetSnapshot", "policyRevision", "isPolicy", "isDelegator",
   "delegatorRequired", "delegatorNonces", "isIntentSpent"}

PublicMethods == UNION {TaskReads, PolicyReads, PolicyClientReads, {"precomputePolicyId"}}

PublicEffect(client, method) ==
  CASE method \in TaskReads -> Reads(client, TaskManagerOf(client))
    [] method \in PolicyReads -> PolicyContractOf(client, Reads(client, client.policy))
    [] method \in PolicyClientReads -> Reads(client, PolicyClientAddress)
    [] OTHER -> Local

-----------------------------------------------------------------------------
(* getPayloadId: the ids of the requests to the popup, of all clients. *)

NextPayloadId(id, largest) == IF id < largest THEN id + 1 ELSE 1
=============================================================================
