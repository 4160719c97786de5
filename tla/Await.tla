------------------------------- MODULE Await -------------------------------
(***************************************************************************)
(* What every waiting call of the SDK promises its caller, whatever it     *)
(* does to keep the promise: the promise settles at most once; it resolves *)
(* only if what was awaited has been true while it was worth waiting for;  *)
(* and it rejects only for a cause that has arisen.                        *)
(*                                                                         *)
(* TaskWait (waitForTaskResponded), DelegatorWait (waitForIntent) and      *)
(* PromiEvent (createPromiEvent) implement it.                             *)
(***************************************************************************)

CONSTANTS
  Reasons   \* what a rejection can give as its cause

VARIABLES
  held,     \* BOOLEAN: what is awaited has been true
  causes,   \* the reasons that have arisen so far
  outcome   \* "pending", "resolved", or the reason of the rejection

awaitVars == <<held, causes, outcome>>

Init ==
  /\ held \in BOOLEAN
  /\ causes \in SUBSET Reasons
  /\ outcome = "pending"

\* The world moves on: facts come true and causes arise, neither is undone.
Advance ==
  /\ held' \in BOOLEAN
  /\ held => held'
  /\ causes' \in SUBSET Reasons
  /\ causes \subseteq causes'

Resolve == outcome = "pending" /\ held' /\ outcome' = "resolved"

Reject == outcome = "pending" /\ outcome' \in causes'

Next == Advance /\ (Resolve \/ Reject \/ UNCHANGED outcome)

Spec == Init /\ [][Next]_awaitVars
=============================================================================
