# The Newton SDK in TLA+

The SDK (`src/src`) is a TypeScript library with which an application asks the
Newton gateway to evaluate an intent, waits for the task's response on the
chain, has a delegator hold, sign and broadcast an intent, and lets a user
identify herself in a popup. It runs in one JavaScript thread, but everything it
does is spread over awaits, timers, message events, contract reads and HTTP
requests, with a gateway, a delegator, a chain, a wallet and a user that go on
in between. These modules are about what can happen in between, and about what
is lost or mixed up on the way to a contract or a gateway and back. Beside the
SDK, the repository has an example, `src/examples/zktls-twitter`: an SDK of its
own and a page that proves a number of followers.

Line numbers are of the files under `src/src`; `avs/index.ts` stands for
`modules/avs/index.ts`, `delegator/index.ts` for `modules/delegator/index.ts`
and so on; `sdk/` and `demo/` are those of the example.

## Inventory

| Component | State | Operations | Hard because | Correct when |
|---|---|---|---|---|
| Task submission and wait (`avs/index.ts` 57-279) | the request block, the task id; of a wait: history, watch, timer, abort listener | `submitEvaluationRequest`, `waitForTaskResponded` | the gateway and the chain run ahead of the replies; three things can end a wait at once | a response that can be seen is seen, a wait ends once and leaves nothing running |
| Task status (`avs/index.ts` 160-220) | none: what has been read so far | `getTaskStatus` | up to five reads of different blocks make one status | the status is one the task has had; no dead attestation is called usable and no live one dead |
| Gateway calls (`avs/index.ts` 290-536, `utils/https.ts`, `utils/task-events.ts`) | none in the SDK; the gateway's tasks, the caller's WebSocket | `evaluateIntentDirect`, `submitIntentAndSubscribe`, `simulate*`, webhooks | proxies, 408s, refused keys; updates are published to who is subscribed then | what resolves as done was done; no task without a subscriber; no update missed once subscribed |
| Delegator wait (`delegator/index.ts` 220-307, 408-449) | controller, listener, deadline timer, sleep | `waitForIntent` | abort and deadline race the read in flight; intents fall back from `broadcast` to `accepted` | gives up only on an intent that cannot get there; says why it stopped; leaves nothing |
| Delegator calls (`delegator/index.ts` 250-379, 469-477) | none; the delegator's record of an intent | `submitIntent`, `submitDelegatedIntent`, `getIntent`, `getAttestation` | lost requests and answers, two requests for one answer, wallets that prompt | created is told once, answers were true, aborts are heeded |
| Identity popup (`service/popup.ts`, `popup-prompt.ts`) | the module's `popup` and `popupReady`, an interval, listener and prompt for each request | `popupRequest`, the prompts | all requests share the window; timers, messages, closings come in any order | every request is handed over and polled, ends when the popup closes, and is silent after |
| PromiEvent (`utils/promise-tools.ts`, `utils/events.ts`) | a promise, listeners | `createPromiEvent`, `createPromise` | the default events and the caller's await react to different promises; listeners throw | one outcome, told to listeners and caller in order; still a promise |
| Delegator set and approvals (`delegator/index.ts` 94-100, 115-146, 518-644) | none in the SDK; the contract's delegators and their nonces | `signDelegatorApproval`, `approveDelegator`, `removeDelegator`, `resignDelegator`, reads | a nonce is read before a wallet prompt, and used up by others meanwhile | an approval that has been voided never counts |
| Policy module (`policy/index.ts`) | none in the SDK; the policy set on the chain | `setPolicies`, `precomputePolicyId`, `getPolicySetSnapshot`, some twenty bindings | write, receipt and snapshot are three steps; a prediction is of a set that does not exist yet | an id answered is never an old set's, nor a prediction another set's |
| Privacy module (`privacy/index.ts`) | keys and envelopes | envelopes, secrets, confidential data | two keys, both replaced in time; a key is asked for before it is used | an envelope is sealed to the right key, and holds what it was given |
| Delegator feed, lists, sessions, webhooks (`delegator/index.ts` 212-218, 344-401, 489-517, `delegator/auth.ts`) | none; the delegator's log, a reader's cursor | `getEvents`, `listIntents`, `createNewtonSession`, `verifyDelegatorWebhook` | a cursor is followed over many reads of a log that grows and is pruned; timestamps and expiries are taken before a wallet's prompt | no event is skipped in silence |
| Identity registry (`identity/index.ts`) | none in the SDK; links, nonces and data on the chain | seven writes; `linkApp`, `unlinkApp` by the popup | ten positional arguments of four types; signatures, the gateway's too, are used up and run out before a transaction is mined; the wallet is moved under its prompt | a transaction links or registers what its caller named, or reverts for a reason that came between; it goes out where the registry is |
| Writes and reads of a policy contract and of a policy client (`policy/index.ts`, `delegator/index.ts` 518-644) | none in the SDK; artifacts, owner, delegators, nonces on the chain | `initialize`, `transferOwnership`, `approveDelegator` ..., twenty-five reads | the same | the same; a read answers for what was asked |
| Client actions (`index.ts`, `deployments/`, `const.ts`, `get-payload-id.ts`) | the client's chain, account, overrides; a counter | seventy methods | gateway, contracts, popup and wallet each have a chain of their own; the wallet's user moves it | a contract is asked where it is deployed, or the call throws |
| Intents (`utils/intent.ts`, `delegator/index.ts` 42-92) | none | `normalizeIntent`, `getDelegatedIntentDigest` | numbers in three forms | one digest for one intent |
| zkTLS example: sockets (`sdk/attester.ts`, `sdk/task.ts`) | of a call: a socket, a timer, a flag | `createSession`, `reveal`, `trackTask`, `submitAndWait` | timer, close, error and frames may all be due | settled once, for a reason that came, with nothing left |
| zkTLS example: page, plugin, store (`demo/`, `sdk/proof.ts`, `sdk/gateway.ts`) | the page's inputs, checks, proof, result; the plugin's requests and flags | `runChecks`, `generateProof`, `submitTask`, the plugin's `main` and `onClick` | inputs change and other profiles are looked at under way; the store's answer is not trusted | a proof is of the account asked for; a result is of the task submitted |
| `fetchWithCache`, jwt, log conversion, documentation site | none | - | - | - |

How they interact: an application calls the client actions of `index.ts`, which
bind an API key and addresses and pass on. The AVS module speaks to the gateway
(HTTP by `AvsHttpService`, WebSocket by `getTaskEventsWebSocket`) and to the
chain (viem). The delegator client speaks to the delegator by signed HTTP
requests, and asks the wallet for each signature. The popup service speaks to
the popup's own program by `postMessage`. The pending-task builder of
`submitEvaluationRequest` hands the request block to `waitForTaskResponded`; the
popup's promises are PromiEvents. The example's page hands a plugin to a browser
extension, stores what comes back with an attester and submits a task to the
gateway. Apart from the window that all popup requests
share, components share no state: what they share is the task, the intent or the
policy set at the other side, and that is part of each module.

`PROJECT.json` lists the components, the hazards with the line where each
bites, and for every definition the lines it models.

## Modules

| Module | Models | Proofs |
|---|---|---|
| `Await` | the abstract promise: pending until a reason to resolve or to reject has arisen, settled once | used by four refinements |
| `TaskWait` | `submitEvaluationRequest` and the wait after it | `TaskProofs` |
| `TaskStatus` | `getTaskStatus` read by read | `TaskProofs` |
| `GatewayCalls` | the AVS module's other calls to the gateway, `Post`, the event socket; the privacy module's keys and envelopes | `GatewayCallsProofs` |
| `DelegatorWait` | `waitForIntent` with `request` and `sleep` | `DelegatorWaitProofs` |
| `DelegatorCalls` | the delegator's submissions and reads, many calls over a lossy network | `DelegatorCallsProofs` |
| `PolicyClient` | the policy set and the delegators of one contract, and the calls that read and write them | `PolicyClientProofs` |
| `Popup` | `popupRequest` and `renderPopupPrompt`, many requests on one page | `PopupProofs` |
| `PromiEvent` | `createPromiEvent` with its emitter | `PopupProofs` |
| `DelegatorFeed` | `getEvents` and a reader that follows it, sessions and signed reads, a webhook's receiver | in `DelegatorWaitProofs` |
| `DelegatorClient` | one client in either of its loops: `DelegatorWait` or `DelegatorFeed` | `DelegatorWaitProofs` |
| `Deployments` | deployments, their keys, gateways and address maps | - |
| `ClientActions` | what each method of the two factories of `index.ts` reaches: gateway, contract, popup or nothing | in `ClientContractsProofs` |
| `RegistryInterface`, `PolicyInterface` | what the ABIs have of the functions the SDK calls: names and order of arguments and answers | - |
| `Intents` | forms of an intent's numbers, its typed data and digest | - |
| `IdentityLinks` | the registry's writes, the signatures they carry, the wallet and its network | `ClientContractsProofs` |
| `PolicyContracts` | every write and read of a policy contract and of a policy client's delegation | `ClientContractsProofs` |
| `ClientContracts` | one client and all these contracts | `ClientContractsProofs` |
| `ZkTlsInterface` | requests, answers and frames of the example's SDK, the store, the check of a CID | - |
| `ZkTlsSockets` | the four calls over a WebSocket | `ZkTlsExampleProofs` |
| `ZkTlsDemo` | the page, the plugin, X and the gateway | `ZkTlsExampleProofs` |
| `ZkTlsExample` | the two programs of the example | `ZkTlsExampleProofs` |

Each `MC` module gives one of them its constants; `MCTask` takes `TaskWait` and `TaskStatus`
together, one or the other in a behaviour. `TaskProofs` has the proofs about
`TaskWait` and `TaskStatus`, `PopupProofs` those about `Popup` and `PromiEvent`: the two
of each share no variable, and so that both can be extended the second's specification is
`StatusSpec`, or `PromiSpec`.

An action is what runs between two awaits (or in one callback), with everything
that code does; so interleavings are those the event loop has. What the SDK does
not control - gateway, delegator, chain, network, wallet, user, popup program -
are actions of their own, marked external in the map, and do whatever the code
in `src/` allows for.

**TaskWait.** `head` and `respondedAt` are the chain's, `task` the gateway's,
`pc` says where the caller is. `ReadRequestBlock`, `CreateTaskReplies` and
`CreateTaskFails` are the submission, `BuilderWait`, `DirectWait` and
`WaitWithoutTaskId` the ways into the wait; `HistoryQuery` fixes the range,
`HistoryReply` runs the whole executor (timer, look at `aborted`, watch),
`OnLogs`, `OnError`, `TimerFires` and `Abort` are its callbacks, each with
`Cleanup`. `WatchBegins` is viem's first poll: it sets the block after which the
watch reports. `taskId` is the id as the gateway or the caller spells it, with all
of its 32 bytes or without the leading zeros; the logs, other tasks' among them,
have the chain's spelling (`LogsIn`), and `HasLog` compares as `padHex` makes them equal.

**TaskStatus.** One action per read (`ReadHash`, `ReadResponses`,
`ReadChallenged`, `ReadExpiration`, `ReadBlock`), each failing with `ReadFails`,
and the life of the task on the chain between any two. `StatusAt` is the
reference: the status all reads would give at one block. `held` remembers every
status the task has had since the call. A successful challenge resets the
expiration to 0; the current block comes from viem's cache and may be
`CacheLag` old.

**GatewayCalls.** A call goes from `idle`, some by way of `asking` for a key, to
`sent` and `settled`. `wire`, `serving` and `work` are the gateway's side: a
request may be refused before it is begun, answered when done, or given up with
a 408 while the work runs on. The results of simulations, webhook calls and uploads of
secrets have a `success` (`ReportingKinds`): of these the gateway may report failed work
as a result like any other (`unsuccessful`; `error-reference.mdx` 172, `types/task.ts` 232-269,
`types/privacy.ts` 3-43), and the SDK resolves with it unexamined (`Handed`; `avs/index.ts`
416, `privacy/index.ts` 313). `PostThrows` is `Post`, `Failure` what the callers
make of a bad result. `Opens` is `onopen`, which subscribes; `since` remembers
how many updates had been published when the gateway took the subscription.
`storeEncryptedSecrets` asks for a key (`TellsKey`) unless its caller has one,
and then seals (`LandsKey`, `Seals`); `uploadConfidentialData` does the same with the
key for the other purpose. `gatewayKey` counts the keys the gateway has had for each
purpose (`Rotates`), `keyAtCall` remembers which was there when the call was
made, and `BytesOf` says which bytes of its buffer a plaintext is.
`simulate` stands for each call that is a Post and its result.

**DelegatorWait.** The intent's lifecycle is external (`Transitions`);
`LoopTop`, `LocalSigns`/`WalletSigns`/`SignFails`, `Answer`, `Land`, `Decide`,
`Wake` are one turn of the polling loop, `CallerAborts` and `DeadlineFires` the
controller. `Reached` is `reached()` over `HAPPY_PATH`.

**DelegatorCalls.** Each call issues signed requests (`Issue` looks at the
signal, then `SignsRequest`, `Fetch`), the delegator serves, refuses or never
sees them, answers land or are lost, and `Lands` runs what the call makes of
them: `Submitted`, `CatchAttestation` (which asks a second question), `Resolved`.

**PolicyClient.** The contract (`owner`, `sets`, `delegators`, `nonces`) is
external; it is modelled from its ABI, `_setPolicies` as `precomputePolicyId`
mirrors it, and what the documentation says a resignation does. Transactions in
`mempool` are mined in any order (`Mines`), or revert or are replaced
(`Fails`); the owner may change (`HandsOn`). `Simulates`, `Sends`, `Receives` and
`Reads` are the four awaits of `setPolicies`; the receipt's status is kept but
not looked at, as in the code. `SignDelegatorApproval`, `ReadsNonce` and `Signs`
are the steps of an approval, `Write` any other write before its wallet.
`minedAt` and `void` are histories: the revision a transaction found, and the
approvals that a resignation has voided.

**Popup.** The module's variables are variables; every request has its phase,
its poll, listener, prompt. `JoinPopup`, `TurnAway` and `OpenOwnPopup` are the
three branches of `popupRequest`, `ModalContinue` and `RefocusContinue` the
prompts' buttons, `Tick` and `RestartFires` the timers, `DeliverReady`,
`DeliverResponse` and `Chatter` the message listener.

**PromiEvent.** The executor resolves, rejects, returns or throws, in any order;
`React` is the microtask that emits the default events, listener by listener, and
`AwaitAnswers` the caller's await.

**DelegatorFeed.** `log`, `floor` and `clock` are the delegator's, `after`,
`handled` and `lost` the reader's. `signNewtonRequest` takes the timestamp,
`WalletSignsRead` is the prompt after it (a session's key needs none),
`ServesEvents` answers with a page, `cursor_pruned` or a refusal, `HandlesPage`
and `RestartsAtFloor` are the guide's loop
(`site/src/pages/developers/guides/delegated-intents.mdx` 211-226), and
`ReaderRestarts` loses the cursor. `createNewtonSession` fixes the expiry before
`signSessionGrant`, the grantor's prompt. `Delivers` pushes the same events to a
receiver that checks them with `verifyDelegatorWebhook`, again until it has
answered. A client keeps no state between its calls, so `DelegatorClient` has a
behaviour be of one loop or the other.

**ClientActions** is about one moment: `WalletEffect` and `PublicEffect` say for
each method by which way it leaves the program, for which chain and to where,
from what the client was made of and the chain its wallet is on.
`resolveIdentityRegistry` and `RegistryWrite` are of `identity/index.ts`.

**IdentityLinks** and **PolicyContracts.** A call's parameters are a record by
the names its caller gives (`Requests`); an operator with the name of each
function turns them into positional arguments, as the code does; the contract
decodes them by the ABI's names (`Decode`, `Named`) and takes or refuses them.

In `IdentityLinks`, `Start` looks the registry up, `Checks` is viem's look at the
wallet's chain, `Approves` and `Rejects` the answer to the prompt after it, with
`Switches` possible at any point; `Mined` is the transaction, any time after. `LinkApp` is
the popup's signature, for the registry that the client's override names, and
`RegisterUserData` and `PopupUnlinks` what the popup does by itself. `UserSigns`
is the app's own user, and `UploadIdentityEncrypted` the gateway's co-signature of data: of an
owner, a domain, a reference, a deadline and the registry of the chain. The registry
(`Accepts`) wants each signature to be for itself, its caller, the nonce and deadline in the
transaction, and in time; a registration replaces an earlier one of its domain.
`Overtaken` says what may have come between a call and its transaction, by the names
its caller gave: a signature's nonce used up or its deadline past, the owner's data missing, the
link there already or gone. Only a call for which that holds may revert; the one exception is
spelled out (`UnderTheOverride`) and is a finding.

In `PolicyContracts` the user's yes and viem's check before it are one step (`Sends`),
since the address is the caller's and no network is looked up; `Rejects` and `Fails` are the no.
`SignsApproval` makes a delegator's signature, `Others` and `Tick` are what goes on
meanwhile: another's set, configuration or landed intent, the clock. A `Read` answers at
once. `Told` says what the answer must be of each read that takes a parameter or is put
together by the SDK, by the parameters' names: that
an intent is spent only if this intent in any of its forms was, that an account is a
delegator if it is one, the nonce of the delegator asked for, the configuration of
the policy asked for, the set that is current. Reads that hand a contract's answer
on as it is (`getOwner` and the like) have nothing to say there but whose answer it is.
`PolicyClient` has the steps of `setPolicies` and of `signDelegatorApproval`.
`ClientContracts` instantiates `PolicyContracts` beside `IdentityLinks` with one
client, one wallet and one clock; `focus` says which contract a behaviour's calls
are of, since calls to different contracts meet in nothing else.

**ZkTlsSockets.** `settled` is the flag of the handlers, `stage`, `timer` and
`socket` what they release, `inbox` the frames on their way. `Track` is what
`trackTask` refuses, `sendTask`, `submitAndWait` and `sendTaskTimesOut` the
request before it; `onSessionMessage`, `onTaskMessage`, `onerror`,
`onclose` and `timerFires` are the handlers. A socket that is closing may still
deliver.

**ZkTlsDemo.** Every handler of the page is an action; what a closure of the page
captured at the click (`request`, `submission`) is kept apart from the inputs.
`XRequests` are requests of the user's own browsing that the extension captures;
`autoStart`, `manualStart` and `onClick` are the plugin. `call` of
`ZkTlsInterface` is what `GatewayClient.call` makes of any answer.

**Await** is refined by `TaskWait`, `DelegatorWait`, `PromiEvent` and `ZkTlsSockets`: the
instances give what the promise is held to and the `causes` that have arisen (a
response, a timeout, an abort, a state the intent has reached ...), so a wait that settles twice,
changes its outcome, or settles for nothing is not an Await.

## Runs

| Run | Bounds | What it shows |
|---|---|---|
| `task` | 4 blocks; of a wait: history of 2, timeout 2, default block 2 or none, either spelling of the id; of a status: life 2, cache 1 | the request block precedes the response; only responses older than the history or in the gap before the watch are missed; a settled wait has no timer and no watch; timeouts, aborts and watched responses end it; it is an Await. A challenge known before the call outranks all; without a race the status is one the task has had; dead is dead |
| `task_wait_gap` (violation) | same | a response between the history query and the watch's first poll is never seen |
| `gateway_calls` | 2 calls of five pairs of kinds, 2 updates, 2 keys for each purpose, every API key, a plaintext that is a whole buffer and one that is a part | a call resolves as done only with its work done, and with failed work only where the result says so; a bad API key leaves no task; once open, a socket gets every later update; an envelope is sealed to the gateway's key of its purpose, as it was during the call |
| `gateway_envelope` (violation) | same | of a plaintext that is a view the whole buffer is sealed |
| `delegator_wait` | 4 sets of target states; 2 events, clock to 3, pages of one event, timestamps good for 1, sessions of 2 | of a wait: the reason told is the reason; it leaves nothing; it ends; it is an Await. Of the feed: a reader has handled every event up to its cursor that its filter lets through, or was told it is lost; a receiver has accepted all it acknowledged |
| `delegator_calls` | 2 calls, 1 intent, 5 kinds of call and signer | one creator at most; answers were true during the call, also when two reads make them; aborts raise no prompt and never resolve |
| `popup` | 2 requests, 2 windows, one message of chatter | everyone is handed over, polled, silent when settled; a closed popup ends all |
| `policy_client` | 4 calls, 2 owners, 2 sets, 2 revisions, nonces to 2 | a replacement is never told an old set's id, and its own revision only with its own set; a prediction is the next set's id or nobody's; a resignation is final |
| `promi_event` | 3 events with a calm and a throwing listener, 4 registrations | order and agreement of events and outcome; it is an Await |
| `client_contracts` | 2 calls, of one focus; a client with a chain, with an unsupported one and with none, 2 chains of its wallet; 2 signatures, the gateway's with them; the clock to 1, signatures good for 0 | a transaction does what its caller asked for by name, or reverts because something came between; a read answers for what was asked, in whatever form; every contract the SDK looks up is asked where it is deployed, and a registry's transaction goes out there |
| `registry_override` (violation) | same | a link that `linkApp` has had signed under an override of the registry reverts although nothing came between |
| `zktls` | 2 accounts, 2 minimums, 2 captured requests, 2 proofs under way, 3 frames | calls over a socket settle once, for a reason, and leave nothing; a proof is of the account asked for and its CID of its bytes; a result is of the task submitted, and never contradicts the operators |

Why the bounds are enough. Four blocks let a response fall before the history,
in it, in the gap and after the watch, and let an attestation of two blocks be
spent, challenged and expire between reads. The delegator wait has one intent
because waits share nothing; its targets cover states on the happy path, off it,
both, and none reachable. Two delegator calls are the least that can disagree
about who created an intent, and calls meet only in the intent. Two popup
requests and two windows are the least with one that joins and one that opens
again; a third request meets the second as the second meets the first. Gateway
calls share the API key and the gateway's keys; two updates give one missed and one
received, two keys one stale and one current. Of the policy client's calls, three
replacements and a prediction, or an approval submitted twice and a resignation,
are enough to put another's set between a call's write and its read, or between its
read and its write; a third revision or nonce would only repeat that.
Of calls to contracts, two are enough for one to come between the other and its
transaction, and one tick for a deadline to pass. Two events, one of which the
filter may keep back, are the least with a full page and one to go on to. Two
accounts and two captured requests put the wrong one last; three frames are one
before, one that settles and one after.
Each theorem below has no such bounds. `CHECK_DEADLOCK FALSE` stands where a
finished system has nothing left to do; each cfg says so.

### Fairness

- `TaskWait`: the node answers the history query, the watch begins, polls and
  reports, time passes, due timers fire. The chain, the gateway and the caller owe nothing.
- `DelegatorWait`: the loop's own steps, a local signer, the delegator's answer
  and the sleep's timer are weakly fair; the deadline is strongly fair, since the
  event loop gets to a due timer although polls come in between. A wallet's user
  owes nothing, so `WaitEnds` is about signers that answer.
- `Popup`: intervals and timeouts fire, messages that were posted are delivered.
  Windows, the user and the popup's program owe nothing.
- `PromiEvent`: microtasks run.
- `DelegatorCalls`: a call's request is answered or fails.
- `GatewayCalls`: what is sent over an open socket arrives or the socket closes.
  The gateway need not answer and a socket need not open.
- `TaskStatus`, `PolicyClient`, `DelegatorFeed`, `ClientContracts` and
  `ZkTlsExample` assume none: their properties are safety.

### What the violations mean

Three statements of the documentation or of comments are not what the code does;
`PROJECT.json` "findings" quotes each. In short: the gap between
`getContractEvents` and `watchContractEvent`; the buffer sealed for the view; and the
override of the identity registry (`sdk-reference.mdx` 193), under which `linkApp` has its link
signed (`index.ts` 296), while every write goes to the chain's own registry
(`identity/index.ts` 67-83), where that signature is worth nothing.

Seen on the way, without a run, where a doc or a comment says otherwise:

- `types/delegator.ts` 167 has `waitForIntent` reject after `timeoutMs`; the deadline
  only aborts a controller, and `request` waits for the wallet's signature without
  looking at it (`delegator/index.ts` 266-278), so a prompt left open outlasts it.
- `popup.ts` 157 detaches the poll while a message is handled "so that when popup
  resolves and closes with a specific message it is captured"; a poll that comes
  between the message's posting and its dispatch finds the popup closed and rejects.
- `getPolicyConfig` promises `policyParams: string | object`; parameters that are the
  JSON text of a number or of a boolean come back as one (`policy/index.ts` 57-66).
- In the example, the plugin's button says a proof starts by itself once the request
  is captured; after one failed click `isProving` stays set and none does
  (`newtonFlow.ts` 158, 245-258). `readExtensionResult` stores a JSON of its own making
  when the extension returns no proof bytes (305-312).

Others: `waitForTaskResponded` arms its timeout only when
the history query has been answered, so a slow node delays it; the notice that
a request was overridden names no request for the listener, and rejects
whichever waits; `setPolicies` never looks at its receipt's status, so
a replacement that reverts resolves with the id of whatever set is there
(`IdsAreTrue` says what is left); `submitDelegatedIntent` asks the wallet to sign
although its signal is already aborted; a caller who sets `ws.onopen` on the
socket of `submitIntentAndSubscribe` takes away the subscription;
`getTaskStatus` can report `Responded` of a task that was spent before the call
and challenged during it (`TornOnlyByRaces` says when). `error-reference.mdx:114`
describes `POPUP_ALREADY_EXISTS` as thrown when a popup is open; it is also thrown while only the
prompt for a blocked popup is there.

## Proofs

Every invariant, action property and refinement that a run checks is proved by TLAPS
too, for all values of the constants; what is left to the runs alone is liveness and the three
violations. The proofs rest on the named assumptions of the modules, which the runs evaluate:

- `TaskWaitAssumption` (`MaxBlock` and `TimeoutMs` positive, `DefaultFromBlocks` numbers or
  none), `TaskStatusAssumption` (`LastBlock` and `CacheLag` numbers, `Ttl` positive),
  `DelegatorWaitAssumption` (targets are sets of states), `DelegatorFeedAssumption` (bounds and
  times are natural numbers, a limit is positive), `PopupAssumption` and
  `PromiEventAssumption` (connecting requests are requests, throwing listeners listeners,
  bounds natural numbers), `DelegatorCallsAssumption` (calls and signers are of the known
  kinds), `GatewayCallsAssumption` (bounds are natural numbers, keys and plaintexts of their
  kinds), `PolicyClientAssumption` (calls are requests, bounds natural numbers),
  `ZkTlsSocketsAssumption` and `ZkTlsDemoAssumption` (followers and minimums are numbers);
- `IdentityLinksAssumption`: finitely many calls, which nonces are counted by; a client's
  chain, and that of a registry it overrides, are among those its wallet may be connected
  to. A client may be of an unsupported chain or have none;
- `GivenAssumption`: what a client is given of its own, a policy contract or an override, is
  none of the contracts that the SDK looks up by chain.

Each `...Proofs` module proves `Init => IInv`, `IInv /\ [Next]_vars => IInv'`
(one lemma per part of the invariant, or one per action) and derives the
theorems from `Invariance`, `StatusInvariance` or `PromiInvariance`. Why the
strengthening is needed:

- `TaskWait`: `LogsAreCompared` (whichever way an id is spelled, the comparison finds the
  task's own log and no other's), `ReadsAreOfThePast` (a block read or fixed is at most the
  chain's), `StageHolds` (what runs in which stage), `HistoryIsTrue` (what the
  answered query has shown). Proved: `TypeInvariant`, `RequestBlockBounds`,
  `GapOnly`, `NothingRunsOn`, and the refinement of `Await`.
- `DelegatorWait`: `StageHolds` (timer, listener, sleep and error by stage),
  `ReadIsTrue` (the state read is one from which the intent's present state can
  be reached, so a terminal answer is still the state). Proved: `TypeInvariant`,
  `ReportsWhyItStopped`, `GivesUpForGood`, `LeavesNothing`, the refinement,
  `LateAnswersAreDropped`, from `Doomed`, which no step undoes (the signal was aborted
  before an answer had landed, or the wait is over and has not resolved), and
  `ReachedIsAtOrPast`, that the index comparison of `reached()` is the
  documented relation.
- `DelegatorFeed`: `CallHolds` (a call under way asks for the reader's cursor; a page
  that has come leaves out nothing up to the cursor it goes on from, for which
  `PageIsComplete` says what a page is). Proved: `NothingIsSkipped`, for every log,
  limit, clock and retention, and, for a client in either loop, `ClientInvariance`
  and `ClientTypes`.
- `Popup`: `UncalledIsIdle`, `OnlyTheUpSpeak` (a READY on its way was sent by a
  window that has been up), `KnowsItsPopup` (an open window is the module's, unless
  Continue has opened a second). Proved: `TypeInvariant`,
  `EveryRequestIsHandedOver`, `NoRequestGoesUnpolled`,
  `SettledRequestsAreSilent`, for any set of requests; and `OnePopupAtATime`, that only
  the prompt for a blocked popup opens a second, which no run asks.
- `TaskStatus`: `ChainHolds` (what the chain never takes back), `CallKnows`
  (what the reads so far say of the chain, unless raced). Proved:
  `StatusTypes`, `ChallengedFirst`, `TornReadsNeedARace`, `DeadStaysDead`.
- `PromiEvent`: `InOrder` (which outcome, reaction and await have been by
  stage). Proved: `PromiTypes`, `OneOutcome`, `EventsThenAwait`, the refinement, for any set of listeners.
- `DelegatorCalls`: `InOrder`, `OneCreator` (one "created" answer, wherever it
  is), `SeesPresent` and `LooksInto` (the conditions a call has seen include the
  present one), `AnswersTell` (an answer on its way was true when given).
  Proved: `TypeInvariant`, `CreatedOnlyOnce`, `AnswersAreTrue`,
  `AbortsAreHeeded`, for any number of calls and intents.
- `GatewayCalls`: `InOrder` (no work without a valid request, a socket is what a
  subscriber's call resolved with), `AnswerIsTrue` (what an answer on its way
  tells of the work), `KeysAreCurrent` (a key on its way was the gateway's during
  the call). Proved: `TypeInvariant`, `NoTaskForNobody`, `ResultsAreTrue`,
  `SealedRight`, for any number of calls and keys.
- `PolicyClient`: `InOrder` (call and transaction in step), `ReceiptsAreTrue` (a
  successful receipt's revision holds the call's set), `PredictionsStand` (a
  prediction is of the revision its caller read), `NotAhead` and `VoidIsVoid` (a
  default nonce is at most its signer's, a voided one below it). Proved:
  `TypeInvariant`, `AnsweredIdsAreTrue`, `ResignationIsFinal`, for any calls,
  wallets and sets. Sets are only added and nonces only go up (`ContractGrows`),
  which is what keeps an answer true.

- `ZkTlsExample`: of a call over a socket `StageHolds` (socket, timer and flag by stage) and
  `FramesWereSent` (a frame the call waits for was sent before it is on its way); of
  the page `GenerationIsOf` (what is being proved and stored is of the account asked
  for, also when the plugin has captured others' requests since) and `TaskIsSubmitted`
  (a task is that of the submission under way). Proved: `TypeInvariant`,
  `SettledCallsRelease`, `ProofsAreVerified`, `ResultsMatchTheirTask`, and that each call
  is an `Await`.
- `ClientContracts`: `SignaturesAreOwn` and `CallsAreMeant` (a call in flight carries what
  its caller could give it), `RegistriesAreTrue` (nonces are at most the transactions done,
  and the links are those that can be made), `WritesAreMeant` and `ApprovalsAreTrue` (the same of
  the policy's contracts: an approval is under the domain of the client's chain). Proved:
  `TypeInvariance`, `SentWhereDeployedForAll` (from `WalletEffectsLead` and
  `PublicEffectsLead`, that every method leads to where its contract is deployed, and
  `ApprovedWhereDeployed`), and `EachCallDoesWhatItAsks`. The last
  rests on lemmas about positions: since the names of a function's arguments differ
  (`NamedNames`, `DecodeNames`), each argument is read by the contract under the name its caller
  gave it (`MeantIs`, `UnderstoodIs`); on `AcceptsUnlessOvertaken` and
  `PolicyRevertsOnlyOvertaken`, that a contract takes what nothing has come between; and on
  `AppliesAsWanted`, `PolicyDoesAsWanted` and `ReadTells` for what becomes of it.

The type invariants of the first nine are proved and no longer run. Only model-checked: every
liveness property (`WaitEnds` of both waits, `ClosedPopupEndsAll`, `SettledIsTold`, `CallsEnd`,
`UpdatesArrive`), for liveness under fairness and ENABLED are beyond the prover; and the
violations, which are counterexamples.

## Abstractions

- `Popup`: the restart timers that overlap within a second count as one; the
  writes to localStorage are left out; polls have no times. The popup's program is
  external: one that never says READY leaves `popupReady` false.
- `TaskStatus`: the challenge verifier is fixed during a call.
- `PromiEvent`: listeners are called in a fixed order, are registered once each
  and do not call back into the emitter; resolving with another promise is left out.
- `DelegatorCalls`: error answers other than 404 and 410 are `refused`, a 2xx
  that is no object `malformed`; a lost answer is a request that was served and
  whose fetch fails.
- `GatewayCalls`: one API key for all calls of a client; what an unsuccessful result
  says besides is its caller's to look at; error codes, messages
  and Retry-After are left out. An envelope is the key and the bytes; the
  cryptography is trusted, and signatures, key pairs, zeroing are left out.
- `PolicyClient`: every read is of the latest block of one node; an approval's
  deadline is one of the reasons for which the contract may revert. That an
  approval is good for its signer's nonce and that a resignation uses the nonce up
  is the contract's part, assumed. `setPolicies` is exported by the policy module;
  no client action of `index.ts` binds it.
- `DelegatorFeed`: an event is whether the filter lets it through; `waitMs` is when
  `ServesEvents` happens; the delegator's freshness, retention and cursor rules are
  external, from the guide and `types/delegator.ts`.
- `ClientContracts`: contracts are external, from the ABIs, the documentation and
  what the SDK signs. Artifacts are one of four, code hashes one of two; a policy is configured once and
  a set replaced once by others. Behaviours about a policy client's delegation have no override of
  the registry, which nothing of it reads. Reads are at once and of the latest block.
- `ZkTlsExample`: account names and counts are model values; a transcript is by whom
  and of whom; sizes of bodies are over the limit or not.
- Encodings, hashes and signatures are model values; `TaskWait` keeps what
  matters of an id, which task it is and whether it is padded.

## Not modelled

Each with its reason; "components" in `PROJECT.json` has the same.

- `sanitizeIntentForRequest`, `removeHexPrefix` and the log-to-result conversion of
  `utils/task.ts`: pure renamings and number formats, with no case in which a
  property could tell two results apart that the models keep.
- `listIntents`, `getDelegatorInfo`, `health`: one request each, like `getIntent`; the
  cursor of a list is opaque to the SDK.
- Of the privacy module: signatures, key pairs, zeroing, `signPrivacyAuthorization`:
  cryptography with no other party in between.
- The ABI of the task manager and the attestation validator (`newtonAbi.ts`): generated;
  the five functions of it that the SDK calls are the reads of `TaskStatus`, the rest
  nothing in `src/src` names. The same goes for the functions of the other ABIs that no
  binding calls.
- `fetchWithCache`, `jwt.ts`: nothing calls them.
- `ProofClient.retrieve`, `decodeWasmArgs`, `flowHelpers.ts`, the page's log and
  rendering, and the documentation site.

## Order of the work

In order of what matters most, all done: 1. `TaskWait` over `Await`.
2. `DelegatorWait` over `Await`. 3. `Popup`. 4. `TaskStatus`. 5. `PromiEvent` over
`Await`. 6. `DelegatorCalls`. 7. `GatewayCalls` with the envelopes of the privacy
module. 8. `PolicyClient`. 9. `DelegatorFeed` with sessions, composed with the wait in
`DelegatorClient`. 10. `ClientActions` and `IdentityLinks`. 11. `PolicyContracts` with
`Intents`, composed with 10 in `ClientContracts`. 12. `ZkTlsExample`.

What would come next: what a caller of `setPolicies` may rely on when its receipt says
reverted; and the order in which the privacy module makes and zeroes keys.
