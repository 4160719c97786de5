------------------------------- MODULE Intents -------------------------------
(***************************************************************************)
(* Intents as a caller gives them, with numbers of more than one form, and *)
(* what an intent's signer signs of them (src/utils/intent.ts, the typed   *)
(* data of src/modules/delegator/index.ts).  A digest is what it is the    *)
(* digest of.                                                              *)
(***************************************************************************)
EXTENDS Naturals

\* value: Hex or bigint, chainId: Hex, bigint or number; form does not tell what number it is.
Forms == {"bigint", "hex", "number"}
Number(form, n) == [form |-> form, n |-> n]

hexToBigInt(number) == number.n

normalizeIntent(intent) ==
  [intent EXCEPT !.value = hexToBigInt(@), !.chainId = hexToBigInt(@)]

policyClientDomain(policyClient, chainId) == [verifyingContract |-> policyClient, chainId |-> chainId]

delegatedIntentTypedData(intent) ==
  LET normalized == normalizeIntent(intent)
  IN  [domain |-> policyClientDomain(normalized.to, normalized.chainId),
       primaryType |-> "Intent", message |-> normalized]

getDelegatedIntentDigest(intent) == delegatedIntentTypedData(intent)
=============================================================================
