------------------------------- MODULE MCTask --------------------------------
(***************************************************************************)
(* The two calls of a public client about a task: the wait for its         *)
(* response, on a chain of a few blocks, and its status, asked for one     *)
(* time after the other while it lives and dies.                           *)
(***************************************************************************)
EXTENDS TaskWait, TaskStatus

VARIABLE focus  \* bound: which of the two a behaviour is of

\* A chain of the table, whose safe block is past the first blocks, and one off it.
MCDefaultFromBlocks == {2, NoBlock}

MCInit ==
  /\ Init /\ StatusInit /\ focus \in {"wait", "status"}
  /\ focus = "wait" => ~hasVerifier
  /\ focus = "status" => defaultFromBlock = NoBlock /\ taskId.padded

MCNext ==
  /\ UNCHANGED focus
  /\ \/ focus = "wait" /\ Next /\ UNCHANGED statusVars
     \/ focus = "status" /\ StatusNext /\ UNCHANGED vars

MCSpec == MCInit /\ [][MCNext]_<<focus, vars, statusVars>> /\ Fairness
=============================================================================
