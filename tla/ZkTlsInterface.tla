--------------------------- MODULE ZkTlsInterface ---------------------------
(***************************************************************************)
(* What the SDK of the zkTLS example (examples/zktls-twitter/sdk) puts on  *)
(* the wire and how it reads what comes back: requests by their fields,    *)
(* the answers of a JSON-RPC or a proof call, the frames of a socket.      *)
(*                                                                         *)
(* A body, a frame or a proof is a value that tells apart what the code    *)
(* tells apart; a field that is undefined is absent from its record.       *)
(***************************************************************************)
EXTENDS Integers, Sequences

Absent == "absent"

-----------------------------------------------------------------------------
(* The methods of the gateway, the fields of their requests. *)

TaskRequestFields ==
  {"policyClient", "intent", "intentSignature", "quorumNumber", "quorumThresholdPercentage", "wasmArgs",
   "timeout", "proofCid", "includeValidateCalldata"}

SendTaskFields == TaskRequestFields \ {"includeValidateCalldata"}

SimulateFields == {"policyClient", "chainId", "intent", "wasmArgs"}

DataSimulationFields == {"policyAddress", "chainId", "wasmArgs"}

SecretsFields == {"policyClient", "policyAddress", "envelope", "chainId"}

IdentityFields == {"identityOwner", "identityOwnerSig", "envelope", "identityDomain", "chainId"}

ConfidentialFields == {"provider", "domain", "envelope", "chainId"}

WebhookFields == {"url", "secret", "timeoutSeconds", "maxRetries", "failureTypes"}

RequestFields ==
  [newt_createTask |-> TaskRequestFields,
   newt_sendTask |-> SendTaskFields,
   newt_simulateTask |-> SimulateFields,
   newt_simulatePolicy |-> SimulateFields \cup {"intentSignature"},
   newt_simulatePolicyData |-> DataSimulationFields \cup {"secrets"},
   newt_simulatePolicyDataWithClient |-> DataSimulationFields \cup {"policyClient"},
   newt_storeEncryptedSecrets |-> SecretsFields,
   newt_uploadIdentityEncrypted |-> IdentityFields,
   newt_getIdentityEncrypted |-> {"dataRefId"},
   newt_uploadConfidentialData |-> ConfidentialFields,
   newt_getConfidentialData |-> {"dataRefId"},
   newt_getPrivacyPublicKey |-> {},
   newt_getSecretsPublicKey |-> {},
   newt_registerWebhook |-> WebhookFields,
   newt_unregisterWebhook |-> {}]

\* The client's method for each of them.
GatewayClient ==
  [createTask |-> "newt_createTask", sendTask |-> "newt_sendTask", simulateTask |-> "newt_simulateTask",
   simulatePolicy |-> "newt_simulatePolicy", simulatePolicyData |-> "newt_simulatePolicyData",
   simulatePolicyDataWithClient |-> "newt_simulatePolicyDataWithClient",
   storeEncryptedSecrets |-> "newt_storeEncryptedSecrets",
   uploadIdentityEncrypted |-> "newt_uploadIdentityEncrypted",
   getIdentityEncrypted |-> "newt_getIdentityEncrypted",
   uploadConfidentialData |-> "newt_uploadConfidentialData",
   getConfidentialData |-> "newt_getConfidentialData", getPrivacyPublicKey |-> "newt_getPrivacyPublicKey",
   getSecretsPublicKey |-> "newt_getSecretsPublicKey", registerWebhook |-> "newt_registerWebhook",
   unregisterWebhook |-> "newt_unregisterWebhook"]

SnakeKey ==
  [policyClient |-> "policy_client", intent |-> "intent", intentSignature |-> "intent_signature",
   quorumNumber |-> "quorum_number", quorumThresholdPercentage |-> "quorum_threshold_percentage",
   wasmArgs |-> "wasm_args", timeout |-> "timeout", proofCid |-> "proof_cid",
   includeValidateCalldata |-> "include_validate_calldata", chainId |-> "chain_id",
   policyAddress |-> "policy_address", secrets |-> "secrets", envelope |-> "envelope",
   identityOwner |-> "identity_owner", identityOwnerSig |-> "identity_owner_sig",
   identityDomain |-> "identity_domain", dataRefId |-> "data_ref_id", provider |-> "provider",
   domain |-> "domain", url |-> "url", secret |-> "secret", timeoutSeconds |-> "timeout_seconds",
   maxRetries |-> "max_retries", failureTypes |-> "failure_types"]

\* Top-level keys only: a nested object keeps its own.
camelToSnake(params) ==
  [key \in {SnakeKey[k] : k \in DOMAIN params} |-> params[CHOOSE k \in DOMAIN params : SnakeKey[k] = key]]

\* The body of a call.  Without crypto.randomUUID the id is null.
JsonRpcRequest(method, params) ==
  [method |-> GatewayClient[method], params |-> camelToSnake(params)]

\* The gateway (external) knows a request by its snake_case fields.
Understands(request) ==
  DOMAIN request.params \subseteq {SnakeKey[k] : k \in RequestFields[request.method]}

-----------------------------------------------------------------------------
(* Requests of a task. *)

\* An object becomes hex-encoded JSON, a string is taken for that already.
WasmHex(args) == [hex |-> args]

resolveWasmArgs(wasmArgs) == <<WasmHex(wasmArgs)>>

buildSendRequest(options) ==
  [policyClient |-> options.policyClient, intent |-> options.intent,
   wasmArgs |-> resolveWasmArgs(options.wasmArgs), timeout |-> options.timeout, proofCid |-> options.proofCid]

\* includeValidateCalldata is undefined, and so not sent.
buildCreateRequest(options) == buildSendRequest(options)

-----------------------------------------------------------------------------
(* The answer of a call. *)

Result(value) == [kind |-> "result", value |-> value]
Failure(code) == [kind |-> "error", value |-> code]

\* What parseJson makes of a body.  A body past the cap is cut and no longer parses.
Envelopes == {"result", "error", "other"}
parseJson(body) == IF body \in Envelopes THEN body ELSE "undefined"
Bodies == Envelopes \cup {"text", "oversized"}

\* content-length: absent, within the cap, or past it and no number alike.
isAdvertisedSizeAcceptable(contentLength) == contentLength \in {Absent, "within"}

Responses(values, errors) ==
  [contentLength : {Absent, "within", "past"}, ok : BOOLEAN, body : Bodies,
   value : values, error : errors]

\* An error envelope outranks the status, which outranks a result.
call(response) ==
  CASE ~isAdvertisedSizeAcceptable(response.contentLength) -> Failure("response_too_large")
    [] isAdvertisedSizeAcceptable(response.contentLength) /\ parseJson(response.body) = "error" ->
         Failure(response.error)
    [] isAdvertisedSizeAcceptable(response.contentLength) /\ parseJson(response.body) # "error" ->
         IF ~response.ok THEN Failure("http_error")
         ELSE IF parseJson(response.body) # "result" THEN Failure("malformed_response")
         ELSE Result(response.value)

-----------------------------------------------------------------------------
(* Proofs by their content. *)

\* A CID names the bytes it is the hash of, by the hash it was made with.
Cid(hash, bytes) == [hash |-> hash, bytes |-> bytes]
MalformedCid == [hash |-> "malformed", bytes |-> [none |-> TRUE]]

\* The attester's word is taken for the CID.
verifyCidIntegrity_HashOnly(cid, bytes) == cid.hash = "sha2-256"

verifyCidIntegrity(cid, bytes) == cid.hash = "sha2-256" /\ cid.bytes = bytes

\* A body within the cap, past it, or broken off.
StoreResponses(cids) == [ok : BOOLEAN, body : {"whole", "oversized", "text"}, cid : cids]

boundedArrayBuffer(body) == body # "oversized"

\* The check against the bytes sent is the last thing between the answer and the caller.
store(bytes, response) ==
  IF response.ok /\ boundedArrayBuffer(response.body) /\ response.body = "whole"
       /\ verifyCidIntegrity(response.cid, bytes)
  THEN Result(response.cid) ELSE Failure("store_failed")

-----------------------------------------------------------------------------
(* The frames of a socket, by how its handler tells them apart. *)

SessionFrames == {"registered", "completed", "error", "unknown", "null", "text", "oversized"}

TERMINAL_STATUSES == {"success", "failed", "timeout"}
TaskStatuses == {"pending", "processing"} \cup TERMINAL_STATUSES

\* An update may come without the data it should have.
Update(status) == [type |-> "update", status |-> status]
Plain(type) == [type |-> type, status |-> Absent]
TaskFrames ==
  {Update(s) : s \in TaskStatuses \cup {Absent}}
    \cup {Plain(t) : t \in {"error", "subscribed", "null", "text", "oversized"}}
=============================================================================
