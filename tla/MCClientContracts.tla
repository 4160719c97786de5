------------------------- MODULE MCClientContracts --------------------------
(***************************************************************************)
(* ClientContracts with two calls of one client: with a chain and without, *)
(* with a policy contract, or a registry of its own.                       *)
(***************************************************************************)
EXTENDS ClientContracts, TLC

CONSTANTS k1, k2

MCClient(chain, override) ==
  [chain |-> chain, policy |-> IF override = NoAddress THEN Address("policy", None) ELSE NoAddress,
   overrides |-> [gatewayApiUrl |-> None, taskManagerAddress |-> NoAddress,
                  attestationValidatorAddress |-> NoAddress, identityRegistry |-> override]]

MCClients == {MCClient(chain, override) : chain \in {"base", None, "unsupported"},
                                            override \in {NoAddress, Address("custom", "base")}}

MCNets == {"base", "sepolia"}

\* The calls differ in nothing but their names.
MCSymmetry == Permutations(Calls)
=============================================================================
