--------------------------- MODULE MCDelegatorWait ---------------------------
(***************************************************************************)
(* DelegatorClient with the target sets that callers of waitForIntent use. *)
(***************************************************************************)
EXTENDS DelegatorClient

\* The default; a state on the path; a denial alone; a state on the path or a failure.
MCUntils ==
  {DELEGATED_INTENT_TERMINAL_STATES, {"attested"}, {"denied"}, {"included", "failed"}}
=============================================================================
