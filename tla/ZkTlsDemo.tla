------------------------------ MODULE ZkTlsDemo ------------------------------
(***************************************************************************)
(* The page of the zkTLS example (examples/zktls-twitter/demo): App.tsx,   *)
(* the services it calls (services/newtonFlow.ts, utils.ts), the plugin    *)
(* that newtonFlow.ts hands to the TLSNotary extension, and the store and  *)
(* task calls of the SDK.                                                  *)
(*                                                                         *)
(* The page's inputs stay open while a proof or a task is under way, so    *)
(* each call works with the values its click saw.  The extension, X, the   *)
(* attester and the gateway are external.                                  *)
(***************************************************************************)
EXTENDS ZkTlsInterface, SequencesExt

CONSTANTS
  Users,        \* names of X accounts
  Followers,    \* user -> how many followers X shows
  Thresholds,   \* what is asked for as minimum
  MaxHeaders,   \* bound: requests the extension captures
  MaxProving    \* bound: proofs under way in the plugin

ASSUME ZkTlsDemoAssumption ==
  /\ Followers \in [Users -> Nat] /\ Thresholds \subseteq Nat
  /\ MaxHeaders \in Nat /\ MaxProving \in Nat

VARIABLES
  tlsn,             \* the extension's bridge is in the page
  validConfig,      \* the configured addresses are addresses
  checks,           \* the system checks
  twitterUsername,  \* an input
  minFollowers,     \* an input
  generating,       \* where the generation of a proof is
  request,          \* the user it was asked for
  plugin,           \* the plugin's state
  bytes,            \* what is being stored, with the follower count that came with it
  proof,            \* the page's proof
  submission,       \* what the click on submit saw
  task,             \* the gateway: the task it created for the submission
  policyResult      \* what the page shows, and, for the properties, the task it answers

inputs == <<twitterUsername, minFollowers>>
generation == <<generating, request, plugin, bytes>>
demoVars == <<tlsn, validConfig, checks, inputs, generation, proof, submission, task, policyResult>>

NoUser == "no user"
Verdicts == {"allowed", "denied"}
Nothing == [none |-> TRUE]

\* Bytes of a proof: a transcript of the notary, or newtonFlow's own JSON around the result.
Proofs == [of : Users, by : {"notary", "page"}]
PageProof(cid, b, n, u) == [cid |-> cid, bytes |-> b, followerCount |-> n, twitterUsername |-> u]
NoPlugin == [headers |-> <<>>, autoStarted |-> FALSE, isProving |-> FALSE, proving |-> <<>>]

DemoTypeOK ==
  /\ tlsn \in BOOLEAN /\ validConfig \in BOOLEAN
  /\ checks \in {"idle", "checking", "passed", "failed"}
  /\ twitterUsername \in Users \cup {NoUser} /\ minFollowers \in Thresholds
  /\ generating \in {"no", "plugin", "storing"} /\ request \in IF generating = "no" THEN {NoUser} ELSE Users
  /\ plugin \in [headers : Seq([user : Users, auth : BOOLEAN]), autoStarted : BOOLEAN,
                 isProving : BOOLEAN, proving : Seq([user : Users, auto : BOOLEAN])]
  /\ bytes # Nothing => bytes.proof \in Proofs /\ bytes.followerCount \in Nat
  /\ proof # Nothing => proof.bytes \in Proofs /\ proof.followerCount \in Nat /\ proof.twitterUsername \in Users
  /\ submission # Nothing => submission.minFollowers \in Thresholds
  /\ task # Nothing => task.allowed \in Verdicts
  /\ policyResult # Nothing => policyResult.allow \in BOOLEAN /\ policyResult.threshold \in Nat

DemoInit ==
  /\ tlsn \in BOOLEAN /\ validConfig \in BOOLEAN
  /\ checks = "idle"
  /\ twitterUsername \in Users /\ minFollowers \in Thresholds
  /\ generating = "no" /\ request = NoUser /\ plugin = NoPlugin /\ bytes = Nothing
  /\ proof = Nothing /\ submission = Nothing /\ task = Nothing /\ policyResult = Nothing

-----------------------------------------------------------------------------
(* The person at the page, and the system checks. *)

onUsernameChange ==
  /\ twitterUsername' \in Users \cup {NoUser}
  /\ UNCHANGED <<tlsn, validConfig, checks, minFollowers, generation, proof, submission, task, policyResult>>

onMinFollowersChange ==
  /\ minFollowers' \in Thresholds
  /\ UNCHANGED <<tlsn, validConfig, checks, twitterUsername, generation, proof, submission, task, policyResult>>

ExtensionLoads ==
  /\ ~tlsn /\ tlsn' = TRUE
  /\ UNCHANGED <<validConfig, checks, inputs, generation, proof, submission, task, policyResult>>

\* The three health URLs of a service, tried in turn.
HealthUrls == {"/health", "/v1/health", "/"}
checkHttpHealth(answering) == answering \cap HealthUrls # {}

runChecks ==
  /\ checks # "checking"
  /\ checks' = "checking"
  /\ UNCHANGED <<tlsn, validConfig, inputs, generation, proof, submission, task, policyResult>>

\* The extension has 750 ms to say it is there.
checkSystem ==
  /\ checks = "checking"
  /\ \E browserSupported \in BOOLEAN, gateway, attester \in {{}, {"/health"}, {"/"}} :
       checks' = IF browserSupported /\ tlsn /\ checkHttpHealth(gateway) /\ checkHttpHealth(attester)
                 THEN "passed" ELSE "failed"
  /\ UNCHANGED <<tlsn, validConfig, inputs, generation, proof, submission, task, policyResult>>

-----------------------------------------------------------------------------
(* Generating a proof. *)

startGeneration ==
  /\ generating = "no"
  /\ policyResult' = Nothing /\ proof' = Nothing
  /\ IF tlsn THEN generating' = "plugin" /\ request' = twitterUsername
     ELSE UNCHANGED <<generating, request>>
  /\ plugin' = NoPlugin
  /\ UNCHANGED <<tlsn, validConfig, checks, inputs, bytes, submission, task>>

\* The button works without a name.
generateProof_AnyName == startGeneration

\* The button is disabled while a proof is generated and for an empty name.  Without the
\* extension the generation fails at once.
generateProof == twitterUsername # NoUser /\ startGeneration

GenerationEnds == generating' = "no" /\ request' = NoUser /\ plugin' = NoPlugin /\ bytes' = Nothing

inPlugin ==
  UNCHANGED <<tlsn, validConfig, checks, inputs, generating, request, bytes, proof, submission, task, policyResult>>

\* The person looks at a profile in the plugin's window; logged in, the request has auth headers.
XRequests ==
  /\ generating = "plugin" /\ Len(plugin.headers) < MaxHeaders
  /\ \E h \in [user : Users, auth : BOOLEAN] : plugin' = [plugin EXCEPT !.headers = Append(@, h)]
  /\ inPlugin

\* Any request of X's.
isUserByScreenNameHeader_AnyUser(header) == header.user \in Users

isUserByScreenNameHeader(header) == header.user = request

\* The last of them, if there is one.
latestTwitterHeader ==
  LET own == {i \in DOMAIN plugin.headers : isUserByScreenNameHeader(plugin.headers[i])}
  IN  {plugin.headers[i] : i \in {k \in own : \A j \in own : j <= k}}

\* The header is there with its auth headers.
ready == \E header \in latestTwitterHeader : header.auth

\* Before anything is checked, isProving is set, and nothing resets it.
onClick(state, auto) ==
  [state EXCEPT !.isProving = TRUE,
                !.proving = IF ready
                            THEN Append(@, [user |-> (CHOOSE header \in latestTwitterHeader : header.auth).user,
                                            auto |-> auto])
                            ELSE @]

\* The plugin's effect, with every rendering.
autoStart ==
  /\ generating = "plugin" /\ Len(plugin.proving) < MaxProving
  /\ ready /\ ~plugin.autoStarted /\ ~plugin.isProving
  /\ plugin' = onClick([plugin EXCEPT !.autoStarted = TRUE], TRUE)
  /\ inPlugin

\* The plugin's button, at any time.
manualStart ==
  /\ generating = "plugin" /\ Len(plugin.proving) < MaxProving
  /\ plugin' = onClick(plugin, FALSE)
  /\ inPlugin

\* proveJson fails.  The error of the automatic start is passed on with done; that of a click is
\* left to the extension, and the page goes on waiting.
proveFails ==
  /\ generating = "plugin"
  /\ \E i \in DOMAIN plugin.proving :
       IF plugin.proving[i].auto THEN GenerationEnds
       ELSE plugin' = [plugin EXCEPT !.proving = RemoveAt(@, i)] /\ UNCHANGED <<generating, request, bytes>>
  /\ UNCHANGED <<tlsn, validConfig, checks, inputs, proof, submission, task, policyResult>>

\* execCode rejects, whatever the extension's reason.
execCodeFails ==
  /\ generating = "plugin"
  /\ GenerationEnds
  /\ UNCHANGED <<tlsn, validConfig, checks, inputs, proof, submission, task, policyResult>>

\* A result without a proof is wrapped in JSON and is stored as if it were one; a count that
\* cannot be read is 0.
readExtensionResult(user, hasProof, readable) ==
  [proof |-> [of |-> user, by |-> IF hasProof THEN "notary" ELSE "page"],
   followerCount |-> IF readable THEN Followers[user] ELSE 0]

\* done: the first result resolves execCode, and the page stores it.
proveSucceeds ==
  /\ generating = "plugin"
  /\ \E i \in DOMAIN plugin.proving, hasProof, readable \in BOOLEAN :
       bytes' = readExtensionResult(plugin.proving[i].user, hasProof, readable)
  /\ generating' = "storing" /\ plugin' = NoPlugin
  /\ UNCHANGED <<tlsn, validConfig, checks, inputs, request, proof, submission, task, policyResult>>

Cids == {Cid(h, b) : h \in {"sha2-256", "blake3"}, b \in Proofs} \cup {MalformedCid}

\* The attester's answer: the right CID, that of something else, or none it can be checked by.
generateTwitterFollowerProof ==
  /\ generating = "storing"
  /\ \E response \in StoreResponses(Cids) :
       LET stored == store(bytes.proof, response)
       IN proof' = IF stored.kind = "result"
                   THEN PageProof(stored.value, bytes.proof, bytes.followerCount, request) ELSE proof
  /\ GenerationEnds
  /\ UNCHANGED <<tlsn, validConfig, checks, inputs, submission, task, policyResult>>

storeTimesOut ==
  /\ generating = "storing"
  /\ GenerationEnds
  /\ UNCHANGED <<tlsn, validConfig, checks, inputs, proof, submission, task, policyResult>>

-----------------------------------------------------------------------------
(* Submitting a task. *)

\* The button is disabled without a proof and while a task is submitted.  An address of the
\* configuration that is none ends the submission at once.
submitTask ==
  /\ proof # Nothing /\ submission = Nothing
  /\ submission' = IF validConfig
                   THEN [proof |-> proof, minFollowers |-> minFollowers]
                   ELSE Nothing
  /\ UNCHANGED <<tlsn, validConfig, checks, inputs, generation, proof, task, policyResult>>

\* The input's name goes along as twitter_username; nothing compares it with the proof's.
submitTwitterFollowersTask ==
  JsonRpcRequest("createTask", buildCreateRequest(
    [policyClient |-> "client", intent |-> "intent", proofCid |-> submission.proof.cid, timeout |-> 60,
     wasmArgs |-> [min_followers |-> submission.minFollowers]]))

\* The gateway (external) creates the task it is asked for, with the operators' verdict on it.
GatewayEvaluates ==
  /\ submission # Nothing /\ task = Nothing
  /\ Understands(submitTwitterFollowersTask)
  /\ \E verdict \in Verdicts :
       LET params == submitTwitterFollowersTask.params
       IN task' = [cid |-> params.proof_cid, min_followers |-> params.wasm_args[1].hex.min_followers,
                    allowed |-> verdict]
  /\ UNCHANGED <<tlsn, validConfig, checks, inputs, generation, proof, submission, policyResult>>

\* An answer: a failed task, a null result, or a success with the policy's own result, with the
\* operators' verdict, or with neither.
TaskResponses ==
  [status : {"failed", Absent}, result : {Nothing}, allowed : {Absent}]
    \cup [status : {"success"}, result : {Nothing}, allowed : {Absent, task.allowed}]
    \cup [status : {"success"}, allowed : {Absent},
          result : [allow : {task.allowed}, followers_count : {Followers[task.cid.bytes.of]},
                    min_required : {task.min_followers}]]

Shown(allow, followersCount, threshold, told) ==
  [allow |-> allow, followersCount |-> followersCount, threshold |-> threshold, told |-> told,
   of |-> [min_followers |-> task.min_followers, allowed |-> task.allowed]]

\* The policy's result, then the operators' verdict, then the page's own count.
extractPolicyVisualization(response, threshold, ofProof) ==
  CASE response.result # Nothing ->
         Shown(response.result.allow = "allowed", response.result.followers_count,
               response.result.min_required, response.result.allow)
    [] response.result = Nothing /\ response.status = "success" ->
         Shown(IF response.allowed # Absent THEN response.allowed = "allowed"
               ELSE ofProof.followerCount >= threshold,
               ofProof.followerCount, threshold, response.allowed)
    [] OTHER -> Shown(FALSE, 0, threshold, Absent)

\* The input as it is now.
fallbackThreshold_Latest == minFollowers

\* The minimum is the one of the click, not the one of the input now.
fallbackThreshold == submission.minFollowers

\* The answer, or none in time.  The gateway rejects a proof it has no support for.
TaskAnswered ==
  /\ submission # Nothing
  /\ \/ /\ task # Nothing
        /\ \E response \in Responses(TaskResponses, {"InvalidRequest"}) :
             policyResult' =
               IF call(response).kind = "result"
               THEN extractPolicyVisualization(response.value, fallbackThreshold, submission.proof)
               ELSE policyResult
     \/ UNCHANGED policyResult
  /\ submission' = Nothing /\ task' = Nothing
  /\ UNCHANGED <<tlsn, validConfig, checks, inputs, generation, proof>>

DemoNext ==
  \/ onUsernameChange \/ onMinFollowersChange \/ ExtensionLoads \/ runChecks \/ checkSystem
  \/ generateProof \/ XRequests \/ autoStart \/ manualStart \/ proveFails \/ execCodeFails \/ proveSucceeds
  \/ generateTwitterFollowerProof \/ storeTimesOut
  \/ submitTask \/ GatewayEvaluates \/ TaskAnswered

-----------------------------------------------------------------------------
(* Properties. *)

\* The page's proof is what it says: its CID is the hash of the bytes the plugin returned, which
\* are of the account the generation was asked for, and its follower count is that account's or
\* 0.  The plugin's filter of captured requests, the capture of the name at the click and the
\* check of the attester's CID in proof.ts make it so, whatever is typed, captured or answered
\* meanwhile.
ProofIsVerified ==
  proof # Nothing =>
    /\ proof.cid = Cid("sha2-256", proof.bytes)
    /\ proof.bytes.of = proof.twitterUsername
    /\ proof.followerCount \in {0, Followers[proof.twitterUsername]}

\* A result on the page is of the task that was evaluated: its threshold is the minimum in that
\* task's wasmArgs though the input may have changed while it was under way, and ALLOW never
\* contradicts the operators: they allowed it, or their verdict did not come back and the count
\* the page has of the task's proof reaches that minimum (App.tsx, utils.ts).
ResultMatchesTask ==
  policyResult # Nothing =>
    /\ policyResult.threshold = policyResult.of.min_followers
    /\ policyResult.allow =>
         \/ policyResult.of.allowed = "allowed"
         \/ policyResult.told = Absent /\ policyResult.followersCount >= policyResult.threshold

-----------------------------------------------------------------------------
(* The inductive invariant: ProofIsVerified, ResultMatchesTask and what they come from. *)

\* What is being proved and what is being stored is of the account asked for.
GenerationIsOf(u) ==
  /\ \A i \in DOMAIN plugin.proving : plugin.proving[i].user = u
  /\ generating # "storing" => bytes = Nothing
  /\ generating = "storing" => /\ bytes.proof \in Proofs /\ bytes.proof.of = u
                               /\ bytes.followerCount \in {0, Followers[u]}

\* The task is that of the submission under way.
TaskIsSubmitted ==
  task # Nothing => /\ submission # Nothing /\ task.min_followers = submission.minFollowers
                    /\ task.cid = submission.proof.cid

DemoHolds ==
  /\ GenerationIsOf(request) /\ TaskIsSubmitted /\ ProofIsVerified /\ ResultMatchesTask
  /\ submission # Nothing => submission.proof.followerCount \in Nat
=============================================================================
