-------------------------- MODULE RegistryInterface --------------------------
(***************************************************************************)
(* The interface of the IdentityRegistry contract as the SDK's ABI has it  *)
(* (src/abis/newtonIdentityRegistryAbi.ts): of each function the SDK calls *)
(* its inputs in their order, of its events what they tell, and the errors *)
(* it reverts with.  A call's arguments are positional: Decode gives them  *)
(* the names the contract knows them by.                                   *)
(***************************************************************************)
EXTENDS Sequences, Integers

linkIdentityInputs ==
  <<"_identityOwner", "_clientUser", "_policyClient", "_identityDomains",
    "_identityOwnerSignature", "_identityOwnerNonce", "_identityOwnerDeadline",
    "_clientUserSignature", "_clientUserNonce", "_clientUserDeadline">>

linkIdentityAsSignerInputs ==
  <<"_policyClient", "_identityDomains", "_clientUser", "_signature", "_nonce", "_deadline">>

linkIdentityAsSignerAndUserInputs == <<"_policyClient", "_identityDomains">>

linkIdentityAsUserInputs ==
  <<"_identityOwner", "_policyClient", "_identityDomains", "_signature", "_nonce", "_deadline">>

registerIdentityDataInputs == <<"_identityDomain", "_dataRefId", "_gatewaySignature", "_deadline">>

unlinkIdentityAsSignerInputs == <<"_clientUser", "_policyClient", "_identityDomains">>

unlinkIdentityAsUserInputs == <<"_policyClient", "_identityDomains">>

\* The functions that need a signature besides the transaction's own, those of either party, and
\* all that this SDK writes with; none of them is payable or returns anything.
Inputs ==
  [linkIdentity |-> linkIdentityInputs, linkIdentityAsSigner |-> linkIdentityAsSignerInputs,
   linkIdentityAsSignerAndUser |-> linkIdentityAsSignerAndUserInputs,
   linkIdentityAsUser |-> linkIdentityAsUserInputs,
   registerIdentityData |-> registerIdentityDataInputs,
   unlinkIdentityAsSigner |-> unlinkIdentityAsSignerInputs,
   unlinkIdentityAsUser |-> unlinkIdentityAsUserInputs]

Functions == DOMAIN Inputs

Decode(fn, args) ==
  [name \in {Inputs[fn][i] : i \in DOMAIN Inputs[fn]} |->
     args[CHOOSE i \in DOMAIN Inputs[fn] : Inputs[fn][i] = name]]

\* nonces(owner), and the deadline and signature that go with one.
InvalidAccountNonce(nonce, current) == nonce # current
SignatureExpired(deadline, now) == now > deadline

\* policyClientLinks(client, user, domain) is the identity's owner; an event of IdentityLinked
\* and of IdentityUnlinked names the same four.
Link(owner, client, user, domain) ==
  [identityOwner |-> owner, policyClient |-> client, policyClientUser |-> user,
   identityDomain |-> domain]

LinkAlreadyExists(links, client, user, domains) ==
  \E l \in links : /\ l.policyClient = client /\ l.policyClientUser = user
                   /\ l.identityDomain \in domains

\* IdentityBound: the data a domain of an owner refers to.
Bound(owner, domain, ref) ==
  [identityOwner |-> owner, identityDomain |-> domain, identityData |-> ref]
=============================================================================
