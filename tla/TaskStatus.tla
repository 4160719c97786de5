----------------------------- MODULE TaskStatus -----------------------------
(***************************************************************************)
(* getTaskStatus (src/modules/avs/index.ts): one status put together from  *)
(* reads of three contracts, one after the other, each of the chain as it  *)
(* is when the read is answered.                                           *)
(*                                                                         *)
(* The task lives on: it is responded to, its attestation is spent or      *)
(* expires, and a challenge invalidates it, between any two of the reads.  *)
(***************************************************************************)
EXTENDS Integers

CONSTANTS
  LastBlock,  \* bound: the chain's last block
  Ttl,        \* blocks an attestation is good for
  CacheLag    \* blocks the client's cached block number may be behind

ASSUME TaskStatusAssumption ==
  /\ LastBlock \in Nat
  /\ Ttl \in Nat \ {0}
  /\ CacheLag \in Nat

SPENT_SENTINEL == -1   \* uint32 max, no block's number
NoAttestation == 0     \* nor is 0

VARIABLES
  block,         \* the chain's head
  created,       \* allTaskHashes(taskId) # 0
  responded,     \* allTaskResponses(taskId) # 0
  expiration,    \* attestationExpirations(taskId)
  hasVerifier,   \* challengeVerifier # the zero address
  challenged,    \* its taskSuccesfullyChallenged(taskId)
  reading,       \* the read in flight
  seenResponded, \* what the reads have answered
  seenExpiration,
  answer,        \* of the call's promise
  held,          \* history: the statuses the task has had since the call
  raced,         \* history: it has been challenged or spent since the call
  knownChallenged \* history: it had been challenged before the call

chainVars == <<block, created, responded, expiration, hasVerifier, challenged>>
seenVars == <<seenResponded, seenExpiration>>
histories == <<held, raced, knownChallenged>>
statusVars == <<chainVars, reading, seenVars, answer, histories>>

Statuses == {"Created", "Responded", "AttestationSpent", "AttestationExpired",
             "SuccessfullyChallenged"}

\* Those of an attestation that is no good.
Dead == {"AttestationSpent", "AttestationExpired", "SuccessfullyChallenged"}

Reading == {"hash", "responses", "challenged", "expiration", "block"}

StatusTypeOK ==
  /\ block \in 1..(LastBlock + 1)
  /\ created \in BOOLEAN /\ responded \in BOOLEAN /\ challenged \in BOOLEAN
  /\ hasVerifier \in BOOLEAN
  /\ expiration \in Nat \cup {SPENT_SENTINEL}
  /\ reading \in {"idle"} \cup Reading
  /\ seenResponded \in BOOLEAN /\ seenExpiration \in Nat
  /\ answer \in Statuses \cup {"none", "error"}
  /\ held \subseteq Statuses \cup {"unknown"}
  /\ raced \in BOOLEAN /\ knownChallenged \in BOOLEAN

-----------------------------------------------------------------------------
(* The status of a task. *)

\* The attestation's last block is one too many.
Expired_AtLastBlock(latest, last) == latest >= last

\* currentBlock > BigInt(expiration)
Expired(latest, last) == latest > last

\* The status of the task as it is, for one who takes `latest` for its head.
StatusAt(latest) ==
  IF ~created THEN "unknown"
  ELSE IF challenged THEN "SuccessfullyChallenged"
  ELSE IF ~responded THEN "Created"
  ELSE IF expiration = SPENT_SENTINEL THEN "AttestationSpent"
  ELSE IF expiration # NoAttestation /\ latest > expiration THEN "AttestationExpired"
  ELSE "Responded"

\* The heads the client may be told: its block number is cached for a while.
Heads == {latest \in 1..block : latest >= block - CacheLag}

StatusesNow == {StatusAt(latest) : latest \in Heads}

\* The attestation would still pass the validator.
Usable ==
  /\ responded /\ ~challenged
  /\ expiration \notin {NoAttestation, SPENT_SENTINEL} /\ block <= expiration

-----------------------------------------------------------------------------
(* The task's life on the chain. *)

StatusInit ==
  /\ block = 1
  /\ created = FALSE /\ responded = FALSE /\ challenged = FALSE
  /\ hasVerifier \in BOOLEAN
  /\ expiration = NoAttestation
  /\ reading = "idle" /\ answer = "none"
  /\ seenResponded = FALSE /\ seenExpiration = 0
  /\ held = {} /\ raced = FALSE /\ knownChallenged = FALSE

\* A call in flight sees the chain move.
Observed(race) ==
  /\ held' = IF reading = "idle" THEN held ELSE held \cup StatusesNow'
  /\ raced' = (raced \/ (race /\ reading # "idle"))
  /\ UNCHANGED <<hasVerifier, reading, seenVars, answer, knownChallenged>>

NextBlock ==
  /\ block <= LastBlock
  /\ block' = block + 1
  /\ UNCHANGED <<created, responded, expiration, challenged>>
  /\ Observed(FALSE)

Create ==
  /\ ~created
  /\ created' = TRUE
  /\ UNCHANGED <<block, responded, expiration, challenged>>
  /\ Observed(FALSE)

\* A response; a negative evaluation has no attestation.
Respond ==
  /\ created /\ ~responded /\ ~challenged
  /\ responded' = TRUE
  /\ expiration' \in {NoAttestation, block + Ttl}
  /\ UNCHANGED <<block, created, challenged>>
  /\ Observed(FALSE)

Spend ==
  /\ Usable
  /\ expiration' = SPENT_SENTINEL
  /\ UNCHANGED <<block, created, responded, challenged>>
  /\ Observed(TRUE)

\* A challenge succeeds, also of an attestation verified without a response, and
\* invalidates the attestation.
Challenge ==
  /\ hasVerifier /\ created /\ ~challenged
  /\ challenged' = TRUE
  /\ expiration' = NoAttestation
  /\ UNCHANGED <<block, created, responded>>
  /\ Observed(TRUE)

-----------------------------------------------------------------------------
(* The call: one action per read, at the instant it is answered. *)

Goto(read) == reading' = read /\ UNCHANGED <<answer, histories>>

Return(status) ==
  /\ reading' = "idle"
  /\ answer' = status
  /\ UNCHANGED histories

GetTaskStatus ==
  /\ reading = "idle"
  /\ reading' = "hash"
  /\ answer' = "none"
  /\ seenResponded' = FALSE /\ seenExpiration' = 0
  /\ held' = StatusesNow /\ raced' = FALSE /\ knownChallenged' = challenged
  /\ UNCHANGED chainVars

\* allTaskHashes: an unknown task throws.
ReadHash ==
  /\ reading = "hash"
  /\ IF created THEN Goto("responses") ELSE Return("error")
  /\ UNCHANGED <<chainVars, seenVars>>

\* A task without a response is taken for unchallenged.
AfterResponses_CreatedFirst(isResponded) ==
  IF ~isResponded THEN Return("Created")
  ELSE Goto(IF hasVerifier THEN "challenged" ELSE "expiration")

\* With no challenge verifier there is no challenge to read.
AfterResponses(isResponded) ==
  IF hasVerifier THEN Goto("challenged")
  ELSE IF isResponded THEN Goto("expiration") ELSE Return("Created")

\* allTaskResponses and challengeVerifier, in either order: the verifier does not change.
ReadResponses ==
  /\ reading = "responses"
  /\ seenResponded' = responded
  /\ AfterResponses(responded)
  /\ UNCHANGED <<chainVars, seenExpiration>>

\* taskSuccesfullyChallenged outranks every other status.
ReadChallenged ==
  /\ reading = "challenged"
  /\ IF challenged THEN Return("SuccessfullyChallenged")
     ELSE IF seenResponded THEN Goto("expiration") ELSE Return("Created")
  /\ UNCHANGED <<chainVars, seenVars>>

\* An expiration of 0 is a block like any other.
AfterExpiration_ZeroIsABlock(last) ==
  IF last = SPENT_SENTINEL THEN Return("AttestationSpent") /\ UNCHANGED seenExpiration
  ELSE Goto("block") /\ seenExpiration' = last

\* Spent, without an attestation, or good until a block to compare.
AfterExpiration(last) ==
  \/ /\ last = SPENT_SENTINEL
     /\ Return("AttestationSpent") /\ UNCHANGED seenExpiration
  \/ /\ last = NoAttestation
     /\ Return("Responded") /\ UNCHANGED seenExpiration
  \/ /\ last \notin {SPENT_SENTINEL, NoAttestation}
     /\ Goto("block") /\ seenExpiration' = last

\* attestationExpirations
ReadExpiration ==
  /\ reading = "expiration"
  /\ AfterExpiration(expiration)
  /\ UNCHANGED <<chainVars, seenResponded>>

\* getBlockNumber
ReadBlock ==
  /\ reading = "block"
  /\ \E latest \in Heads :
       Return(IF Expired(latest, seenExpiration) THEN "AttestationExpired" ELSE "Responded")
  /\ UNCHANGED <<chainVars, seenVars>>

\* Any of the reads may fail, and the call with it.
ReadFails ==
  /\ reading \in Reading
  /\ Return("error")
  /\ UNCHANGED <<chainVars, seenVars>>

-----------------------------------------------------------------------------
StatusNext ==
  \/ NextBlock \/ Create \/ Respond \/ Spend \/ Challenge
  \/ GetTaskStatus \/ ReadHash \/ ReadResponses \/ ReadChallenged
  \/ ReadExpiration \/ ReadBlock \/ ReadFails

StatusSpec == StatusInit /\ [][StatusNext]_statusVars

-----------------------------------------------------------------------------
(* Safety. *)

\* A task challenged before the call is reported so, whatever its response and its
\* attestation (index.ts:189-200): no earlier return of the call gets there first.
ChallengeOutranks ==
  knownChallenged /\ answer \in Statuses => answer = "SuccessfullyChallenged"

\* The reads are not of one block, and yet the status they add up to is one the task has had
\* since the call, unless it was challenged or spent under way (index.ts:166-220).
TornOnlyByRaces == answer \in Statuses /\ ~raced => answer \in held

\* A status that says the attestation is no good is right for good: an attestation reported
\* spent, expired or challenged never validates again (index.ts:192-218).
DeadIsDead == answer \in Dead => ~Usable

-----------------------------------------------------------------------------
(* The inductive invariant. *)

\* What the chain never takes back.
ChainHolds ==
  /\ responded \/ challenged => created
  /\ challenged => hasVerifier /\ expiration = NoAttestation
  /\ ~responded => expiration = NoAttestation

\* What the call in flight knows.
CallKnows ==
  /\ reading # "idle" => StatusesNow \subseteq held /\ answer = "none"
  /\ reading \in {"responses", "challenged", "expiration", "block"} => created
  /\ seenResponded => responded
  /\ reading \in {"expiration", "block"} => seenResponded
  /\ knownChallenged => challenged
  /\ reading \in {"expiration", "block"} => ~knownChallenged /\ (raced \/ ~challenged)
  /\ reading = "challenged" /\ ~seenResponded => "Created" \in held \/ challenged
  /\ reading = "block" => seenExpiration # NoAttestation
  /\ reading = "block" => raced \/ expiration = seenExpiration
  /\ reading = "block" => expiration \in {seenExpiration, SPENT_SENTINEL, NoAttestation}
  /\ answer \in Dead => responded \/ challenged

StatusIInv ==
  /\ StatusTypeOK /\ ChainHolds /\ CallKnows
  /\ ChallengeOutranks /\ TornOnlyByRaces /\ DeadIsDead

=============================================================================
