----------------------------- MODULE Deployments -----------------------------
(***************************************************************************)
(* The chains the SDK knows, the contracts deployed on them and the        *)
(* gateways that serve them (src/const.ts, src/deployments).  A chain is   *)
(* named, an address is the contract and the chain it is deployed on, and  *)
(* a deployment file is what it holds of the addresses the SDK reads.      *)
(***************************************************************************)

\* No chain, no URL.
None == "none"

Address(contract, on) == [contract |-> contract, on |-> on]

\* undefined where an address is looked up, a string that is none, and what is no address because
\* a conversion has thrown.
NoAddress == Address(None, None)
Malformed == Address("malformed", None)
Threw == Address("threw", None)

AddressKeys ==
  {"newtonProverTaskManager", "attestationValidator", "identityRegistry",
   "policyClientRegistry", "confidentialDataRegistry"}

DEPLOYMENT_KEYS ==
  [sepolia |-> "newton-prover", mainnet |-> "newton-prover", base |-> "newton-cross-chain",
   baseSepolia |-> "newton-cross-chain", robinhood |-> "newton-cross-chain",
   arc |-> "newton-cross-chain"]

Chains == DOMAIN DEPLOYMENT_KEYS

\* The files are named by a kind of deployment and a chain; those that a destination chain's
\* source has beside its own hold none of these addresses.
DEPLOYMENTS ==
  [kind \in {"newton-prover", "newton-cross-chain"} |->
     [chain \in Chains |->
        [key \in AddressKeys |->
           IF kind = DEPLOYMENT_KEYS[chain] THEN Address(key, chain) ELSE NoAddress]]]

\* An address that is missing or is not 20 bytes of hex is refused when the module loads.
asDeploymentAddress(address) == IF address \in {NoAddress, Malformed} THEN Threw ELSE address

getDeployment(chain) == DEPLOYMENTS[DEPLOYMENT_KEYS[chain]][chain]

getDeploymentAddress(chain, key) ==
  IF chain \notin Chains THEN Threw ELSE asDeploymentAddress(getDeployment(chain)[key])

\* The chains without such an address have no entry.
AddressMap(key) ==
  LET present == {c \in Chains : getDeployment(c)[key] # NoAddress}
  IN  [chain \in present |-> asDeploymentAddress(getDeployment(chain)[key])]

NEWTON_PROVER_TASK_MANAGER == AddressMap("newtonProverTaskManager")
ATTESTATION_VALIDATOR == AddressMap("attestationValidator")
IDENTITY_REGISTRY == AddressMap("identityRegistry")

\* A lookup by chain.
At(map, chain) == IF chain \in DOMAIN map THEN map[chain] ELSE NoAddress

GATEWAY_API_URLS ==
  [chain \in Chains |-> IF chain \in {"mainnet", "base"} THEN "gateway" ELSE "gateway.testnet"]
=============================================================================
