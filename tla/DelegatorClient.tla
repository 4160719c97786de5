--------------------------- MODULE DelegatorClient ---------------------------
(***************************************************************************)
(* One client of createDelegatorClient, in either of the loops a program   *)
(* runs on it: a wait for one intent (DelegatorWait), or the event feed    *)
(* (DelegatorFeed).  A client keeps no state between its calls, so two     *)
(* loops on one client are two clients.                                    *)
(***************************************************************************)
EXTENDS DelegatorWait, DelegatorFeed

VARIABLE loop   \* "wait" or "feed"

\* A program on the feed has called no waitForIntent.
ClientInit ==
  /\ loop \in {"wait", "feed"}
  /\ Init /\ FeedInit
  /\ loop = "feed" => status = "accepted" /\ ~callerAborted

ClientNext ==
  \/ loop = "wait" /\ Next /\ UNCHANGED <<loop, feedVars>>
  \/ loop = "feed" /\ FeedNext /\ UNCHANGED <<loop, vars>>

\* The wait is scheduled as DelegatorWait says.
ClientSpec == ClientInit /\ [][ClientNext]_<<loop, vars, feedVars>> /\ Fairness

ClientTypeOK == TypeOK /\ FeedTypeOK
=============================================================================
