--------------------------- MODULE PolicyInterface ---------------------------
(***************************************************************************)
(* The interfaces of a policy contract, of its factory and of a policy     *)
(* client as the SDK's ABIs have them (src/abis/newtonPolicyAbi.ts): the   *)
(* inputs of the functions the SDK calls, in their order, and the type or  *)
(* the names of what they answer.                                          *)
(***************************************************************************)
EXTENDS Sequences, Integers

\* A view answers one value of a type; one without a name is called by its position.
View(inputs, type) == [inputs |-> inputs, outputs |-> <<type>>]

-----------------------------------------------------------------------------
(* NewtonPolicyAbi: what a policy contract tells. *)

clientToPolicyIdView == View(<<"client">>, "bytes32")
entrypointView == View(<<>>, "string")
factoryView == View(<<>>, "address")
getEntrypointView == View(<<>>, "string")
getMetadataCidView == View(<<>>, "string")
getPolicyCidView == View(<<>>, "string")
getPolicyConfigView == [inputs |-> <<"policyId">>, outputs |-> <<"policyParams", "expireAfter">>]
getPolicyIdView == View(<<"client">>, "bytes32")
getSchemaCidView == View(<<>>, "string")
getSecretsSchemaCidView == View(<<>>, "string")
getWasmCidView == View(<<>>, "string")
isPolicyVerifiedView == View(<<>>, "bool")
metadataCidView == View(<<>>, "string")
ownerView == View(<<>>, "address")
policyCidView == View(<<>>, "string")
schemaCidView == View(<<>>, "string")
supportsInterfaceView == View(<<"interfaceId">>, "bool")

\* What it is told.
PolicyArtifacts ==
  {"entrypoint", "policyCid", "schemaCid", "wasmCid", "secretsSchemaCid", "metadataCid"}
initializeInputs == <<"_factory", "artifacts", "_owner", "_policyCodeHash">>
setSecretsSchemaCidInputs == <<"_secretsSchemaCid">>
transferOwnershipInputs == <<"newOwner">>
renounceOwnershipInputs == <<>>
SecretsSchemaWithoutWasm(secretsSchemaCid, wasmCid) == secretsSchemaCid # "" /\ wasmCid = ""

(* NewtonPolicyFactoryAbi. *)
isPolicyView == View(<<"policy">>, "bool")

(* NewtonPolicyClientAbi. *)
getPoliciesView == View(<<>>, "tuple")
getPolicySetSnapshotView == [inputs |-> <<>>, outputs |-> <<"policyId", "revision", "policies">>]
policyRevisionView == View(<<>>, "uint64")

(* NewtonPolicyClientDelegationAbi. *)
approveDelegatorInputs == <<"delegator", "deadline", "signature">>
delegatorNoncesView == View(<<"delegator">>, "uint256")
delegatorRequiredView == View(<<>>, "bool")
isDelegatorView == View(<<"account">>, "bool")
isIntentSpentView == View(<<"digest">>, "bool")
removeDelegatorInputs == <<"delegator">>
resignDelegatorInputs == <<>>
setDelegatorRequiredInputs == <<"required">>

-----------------------------------------------------------------------------
Views ==
  [clientToPolicyId |-> clientToPolicyIdView, entrypoint |-> entrypointView,
   factory |-> factoryView, getEntrypoint |-> getEntrypointView,
   getMetadataCid |-> getMetadataCidView, getPolicyCid |-> getPolicyCidView,
   getPolicyConfig |-> getPolicyConfigView, getPolicyId |-> getPolicyIdView,
   getSchemaCid |-> getSchemaCidView, getSecretsSchemaCid |-> getSecretsSchemaCidView,
   getWasmCid |-> getWasmCidView, isPolicyVerified |-> isPolicyVerifiedView,
   metadataCid |-> metadataCidView, owner |-> ownerView, policyCid |-> policyCidView,
   schemaCid |-> schemaCidView, supportsInterface |-> supportsInterfaceView,
   isPolicy |-> isPolicyView, getPolicies |-> getPoliciesView,
   getPolicySetSnapshot |-> getPolicySetSnapshotView, policyRevision |-> policyRevisionView,
   delegatorNonces |-> delegatorNoncesView, delegatorRequired |-> delegatorRequiredView,
   isDelegator |-> isDelegatorView, isIntentSpent |-> isIntentSpentView]

Inputs ==
  [initialize |-> initializeInputs, setSecretsSchemaCid |-> setSecretsSchemaCidInputs,
   transferOwnership |-> transferOwnershipInputs, renounceOwnership |-> renounceOwnershipInputs,
   approveDelegator |-> approveDelegatorInputs, removeDelegator |-> removeDelegatorInputs,
   resignDelegator |-> resignDelegatorInputs, setDelegatorRequired |-> setDelegatorRequiredInputs]

\* Positional values by their names.
Named(names, values) ==
  [name \in {names[i] : i \in DOMAIN names} |->
     values[CHOOSE i \in DOMAIN names : names[i] = name]]

\* viem encodes no call of which a value is missing or one too many.
Encodes(names, values) == Len(names) = Len(values)
=============================================================================
