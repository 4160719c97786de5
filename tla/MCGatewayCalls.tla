--------------------------- MODULE MCGatewayCalls ---------------------------
(* Two calls at once; a caller that has a key of the gateway's, which may be an old one; a *)
(* plaintext that is all of its buffer, and one that is the end of it.                     *)
EXTENDS GatewayCalls

CONSTANTS k1, k2

MCAsked ==
  {f \in [Calls -> Kinds] : <<f[k1], f[k2]>> \in
     {<<"evaluateIntentDirect", "simulate">>,
      <<"submitIntentAndSubscribe", "submitIntentAndSubscribe">>,
      <<"submitIntentAndSubscribe", "evaluateIntentDirect">>,
      <<"storeEncryptedSecrets", "storeEncryptedSecrets">>,
      <<"storeEncryptedSecrets", "uploadConfidentialData">>}}

MCCallerKeys == {[for |-> "secrets", number |-> 1]}

MCPlaintexts ==
  {[buffer |-> <<7, 8>>, offset |-> 0, length |-> 2],
   [buffer |-> <<7, 8>>, offset |-> 1, length |-> 1]}
=============================================================================
