---------------------------- MODULE ZkTlsExample ----------------------------
(***************************************************************************)
(* The programs of the zkTLS example: the demo's page, which stores a      *)
(* proof and submits a task, and a script that uses the SDK's calls over   *)
(* WebSockets, which the page has no use for (the extension speaks to the  *)
(* attester itself).  createNewtonSDK gives both the same clients; no      *)
(* state is shared between its calls.                                      *)
(***************************************************************************)
EXTENDS ZkTlsSockets, ZkTlsDemo

VARIABLE program

vars == <<program, socketVars, demoVars>>

\* What the clients of createNewtonSDK are for, by the program that calls them.
createNewtonSDK == [proof |-> "page", task |-> "page", attester |-> "script", tracking |-> "script"]

TypeOK == program \in {createNewtonSDK[c] : c \in DOMAIN createNewtonSDK} /\ SocketsTypeOK /\ DemoTypeOK

Some(S) == CHOOSE x \in S : TRUE

\* The state of the other program stays as it is, whatever it is.
Init ==
  /\ program \in {"page", "script"}
  /\ SocketsInit /\ DemoInit
  /\ program = "page" => kind = "createSession" /\ setup.webSocket /\ setup.apiKey = "token"
  /\ program = "script" => ~tlsn /\ ~validConfig /\ twitterUsername = Some(Users) /\ minFollowers = Some(Thresholds)

Page == program = "page" /\ DemoNext /\ UNCHANGED <<program, socketVars>>

Script == program = "script" /\ SocketsNext /\ UNCHANGED <<program, demoVars>>

Next == Page \/ Script

Spec == Init /\ [][Next]_vars
=============================================================================
