--------------------------- MODULE MCPolicyClient ---------------------------
(***************************************************************************)
(* PolicyClient with four calls: replacements of the set against each      *)
(* other and against a prediction; an approval against the resignation and *)
(* the removal of its signer.                                              *)
(***************************************************************************)
EXTENDS PolicyClient, TLC

CONSTANTS k1, k2, k3, k4, w1, w2, s1, s2

Request(kind, by) ==
  [kind |-> kind, by |-> by, set |-> s1, nonce |-> Default, approval |-> k1, delegator |-> w2]

SetPolicies(set) == [Request("setPolicies", w1) EXCEPT !.set = set]

\* Two replacements by one owner or two, of one set or two, and a prediction.
Replacements ==
  {(k1 :> SetPolicies(s1)) @@ (k2 :> [SetPolicies(set) EXCEPT !.by = by])
     @@ (k3 :> Request("precomputePolicyId", w1)) @@ (k4 :> Request(kind, w1)) :
     set \in {s1, s2}, by \in {w1, w2}, kind \in {"getPolicySetSnapshot", "setPolicies"}}

\* An approval, submitted once or twice, and the resignation or removal of its signer.
Delegations ==
  {(k1 :> [Request("signDelegatorApproval", w2) EXCEPT !.nonce = nonce])
     @@ (k2 :> Request("approveDelegator", w1)) @@ (k3 :> Request(leaving[1], leaving[2]))
     @@ (k4 :> Request(kind, w1)) :
     nonce \in {Default, 0, 1},
     leaving \in {<<"resignDelegator", w2>>, <<"removeDelegator", w1>>},
     kind \in {"approveDelegator", "initialize", "read"}}

MCAsked == Replacements \cup Delegations
=============================================================================
