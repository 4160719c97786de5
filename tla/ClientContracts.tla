--------------------------- MODULE ClientContracts ---------------------------
(***************************************************************************)
(* One client of the SDK and all the contracts it writes to: the identity  *)
(* registry (IdentityLinks), a policy contract and a policy client         *)
(* (PolicyContracts).  They share the client, the chain its wallet is on   *)
(* and the time.                                                           *)
(***************************************************************************)
EXTENDS IdentityLinks

VARIABLES
  focus,  \* bound: the contracts that the calls of a behaviour are of
  policy, delegation, sets, landed, approvals,
  request, progress, answer  \* PolicyContracts' asked, stage and answer

Policies == INSTANCE PolicyContracts WITH asked <- request, stage <- progress

policyVars == <<policy, delegation, sets, landed, approvals, request, progress, answer>>
linkVars == <<registry, given, asked, stage, to, net, payloadId>>
allVars == <<focus, client, on, now, linkVars, policyVars>>

TypeOK == LinksTypeOK /\ Policies!TypeOK

\* Nothing of a policy client is about the override of the registry.
AllInit ==
  /\ Init /\ Policies!Init /\ focus \in {"registry", "policy", "delegation"}
  /\ focus = "delegation" => client.overrides.identityRegistry = NoAddress

AllNext ==
  /\ UNCHANGED focus
  /\ \/ focus = "registry" /\ Acts /\ UNCHANGED policyVars
     \/ focus # "registry" /\ Policies!Next /\ UNCHANGED linkVars
     \/ (focus = "policy" => UNCHANGED now) /\ Around /\ UNCHANGED policyVars

Spec == AllInit /\ [][AllNext]_allVars

-----------------------------------------------------------------------------
\* A transaction does to a contract what its caller asked for by name, or it reverts because
\* something came between: a signature was used or ran out, a link was made or removed, a contract
\* was initialized or handed on by another.  It never reverts because its arguments say another
\* thing than the parameters did, nor because a signature is for another contract, unless the
\* owner gave it under the override of the registry (identity/index.ts, policy/index.ts,
\* delegator/index.ts).  A read that makes an argument of what it is asked, or its answer of what
\* the contract says, answers for what was asked.
DoesWhatItAsks == LinksAsAsked /\ Policies!DoesAsAsked
=============================================================================
