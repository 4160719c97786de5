---------------------------- MODULE DelegatorWait ----------------------------
(***************************************************************************)
(* waitForIntent of the delegator client (src/modules/delegator/index.ts), *)
(* with the request and the sleep it is made of, against a delegator whose *)
(* intent moves on, falls back and ends while the reads are in flight.     *)
(*                                                                         *)
(* One AbortController merges the caller's AbortSignal with the deadline.  *)
(* Its abort event cancels the fetch or the sleep in flight; everything    *)
(* else of the loop finds out at its next throwIfAborted.                  *)
(***************************************************************************)
EXTENDS Integers, Sequences

CONSTANTS
  Untils    \* the `until` sets a caller asks for

\* The happy path in order; `denied` and `failed` are off it.
HAPPY_PATH == <<"accepted", "attested", "tasked", "broadcast", "included", "finalized">>

DELEGATED_INTENT_TERMINAL_STATES == {"finalized", "denied", "failed"}

States == {"accepted", "attested", "tasked", "broadcast", "included", "finalized",
           "denied", "failed"}

ASSUME DelegatorWaitAssumption == Untils \subseteq SUBSET States

VARIABLES
  status,         \* the delegator: the intent's state
  pc,             \* where the loop is
  until,          \* the wait's target states
  timed,          \* it has a timeoutMs
  auth,           \* "none", "local" or "wallet": who signs the reads
  deaf,           \* config.fetch ignores its signal
  callerAborted,  \* the caller's signal is aborted
  reason,         \* controller.signal.reason, "none" while it is not aborted
  reply,          \* what the delegator answered the read in flight
  timer,          \* the deadline is armed
  onAbort,        \* the listener on the caller's signal is registered
  sleeping,       \* the poll interval's timer runs
  wakeable,       \* and the controller's abort event would end it
  reachedOnce,    \* the intent has been at a target since the wait began
  outcome         \* of the promise

args == <<until, timed, auth, deaf>>
nap == <<sleeping, wakeable>>
vars == <<status, pc, args, callerAborted, reason, reply, timer, onAbort, nap,
          reachedOnce, outcome>>

Reasons == {"aborted", "timeout", "http_error", "sign_error", "ended"}

TypeOK ==
  /\ status \in States
  /\ pc \in {"idle", "top", "signing", "fetching", "reply", "landed", "sleep", "done"}
  /\ until \in SUBSET States
  /\ timed \in BOOLEAN /\ deaf \in BOOLEAN /\ auth \in {"none", "local", "wallet"}
  /\ callerAborted \in BOOLEAN
  /\ reason \in {"none", "aborted", "timeout"}
  /\ reply \in States \cup {"http_error", "none"}
  /\ pc = "landed" => reply \in States
  /\ timer \in BOOLEAN /\ onAbort \in BOOLEAN
  /\ sleeping \in BOOLEAN /\ wakeable \in BOOLEAN
  /\ reachedOnce \in BOOLEAN
  /\ outcome \in {"pending", "resolved"} \cup Reasons

-----------------------------------------------------------------------------
(* States on and off the happy path. *)

\* HAPPY_PATH.indexOf, counted from 1, and 0 off the path.
IndexOf(state) ==
  IF \E i \in DOMAIN HAPPY_PATH : HAPPY_PATH[i] = state
  THEN CHOOSE i \in DOMAIN HAPPY_PATH : HAPPY_PATH[i] = state ELSE 0

\* A target off the path (index 0) is reached by every state.
Reached_OffPath(state, target) == state = target \/ IndexOf(state) >= IndexOf(target)

\* `state` is `target`, or past it on the happy path.
Reached(state, target) ==
  \/ state = target
  \/ IndexOf(target) >= 1 /\ IndexOf(state) >= IndexOf(target)

\* targets.some(target => reached(intent.state, target))
AtTarget(state) == \E target \in until : Reached(state, target)

\* What the wait's documentation calls at or past one of `targets` (types/delegator.ts:173-177).
AtOrPast(state, targets) ==
  \/ state \in targets
  \/ \E i, j \in DOMAIN HAPPY_PATH :
       i <= j /\ HAPPY_PATH[i] \in targets /\ HAPPY_PATH[j] = state

-----------------------------------------------------------------------------
(* The delegator, from the lifecycle its types declare. *)

Transitions ==
  {<<HAPPY_PATH[i], HAPPY_PATH[i + 1]>> : i \in 1..5}
    \cup {<<"accepted", "denied">>}
    \cup {<<HAPPY_PATH[i], "failed">> : i \in 1..5}
    \cup {<<HAPPY_PATH[i], "accepted">> : i \in 2..5}

DelegatorMoves ==
  \E next \in States :
    /\ <<status, next>> \in Transitions
    /\ status' = next
    /\ reachedOnce' = (reachedOnce \/ (pc # "idle" /\ AtOrPast(next, until)))
    /\ UNCHANGED <<pc, args, callerAborted, reason, reply, timer, onAbort, nap, outcome>>

-----------------------------------------------------------------------------
(* How the wait ends, and what its `finally` undoes. *)

\* The listener on the caller's signal is left there.
Finally_KeepsListener == timer' = FALSE /\ UNCHANGED onAbort

\* clearTimeout and removeEventListener.
Finally == timer' = FALSE /\ onAbort' = FALSE

\* return intent
Resolve ==
  /\ outcome' = "resolved" /\ pc' = "done"
  /\ Finally
  /\ UNCHANGED nap

\* The cancelled read's own error is reported.
Thrown_AsIs(error, why) == error

\* throw controller.signal.aborted ? controller.signal.reason : error
Thrown(error, why) == IF why # "none" THEN why ELSE error

\* The catch block, with the controller's reason when it runs.
Throw(error, why) ==
  /\ outcome' = Thrown(error, why) /\ pc' = "done"
  /\ Finally
  /\ sleeping' = FALSE /\ wakeable' = FALSE

-----------------------------------------------------------------------------
(* The call and the loop. *)

Init ==
  /\ status \in States
  /\ pc = "idle" /\ outcome = "pending"
  /\ until = {} /\ timed = FALSE /\ auth = "none" /\ deaf = FALSE
  /\ callerAborted \in BOOLEAN
  /\ reason = "none" /\ reply = "none"
  /\ timer = FALSE /\ onAbort = FALSE /\ sleeping = FALSE /\ wakeable = FALSE
  /\ reachedOnce = FALSE

\* waitForIntent is called: controller, listener, deadline.
WaitForIntent ==
  /\ pc = "idle"
  /\ until' \in Untils
  /\ timed' \in BOOLEAN /\ auth' \in {"none", "local", "wallet"} /\ deaf' \in BOOLEAN
  /\ reason' = IF callerAborted THEN "aborted" ELSE "none"
  /\ onAbort' = TRUE
  /\ timer' = timed'
  /\ pc' = "top"
  /\ reachedOnce' = AtOrPast(status, until')
  /\ UNCHANGED <<status, callerAborted, reply, nap, outcome>>

\* throwIfAborted, then getIntent starts its request.
LoopTop ==
  /\ pc = "top"
  /\ \/ /\ reason # "none"
        /\ Throw(reason, reason)
     \/ /\ reason = "none"
        /\ pc' = IF auth = "none" THEN "fetching" ELSE "signing"
        /\ UNCHANGED <<timer, onAbort, nap, outcome>>
  /\ UNCHANGED <<status, args, callerAborted, reason, reply, reachedOnce>>

\* The header is signed: doFetch.  A fetch that heeds its signal rejects if it is aborted.
Signed ==
  /\ pc = "signing"
  /\ \/ /\ reason # "none" /\ ~deaf
        /\ Throw("http_error", reason)
     \/ /\ reason = "none" \/ deaf
        /\ pc' = "fetching"
        /\ UNCHANGED <<timer, onAbort, nap, outcome>>
  /\ UNCHANGED <<status, args, callerAborted, reason, reply, reachedOnce>>

\* A local account signs by itself; a wallet when its user does.
LocalSigns == auth = "local" /\ Signed
WalletSigns == auth = "wallet" /\ Signed

\* The signer refuses.
SignFails ==
  /\ pc = "signing"
  /\ Throw("sign_error", reason)
  /\ UNCHANGED <<status, args, callerAborted, reason, reply, reachedOnce>>

\* The delegator answers the read, with the state it has now or with an error.
Answer ==
  /\ pc = "fetching"
  /\ reply' \in {status, "http_error"}
  /\ pc' = "reply"
  /\ UNCHANGED <<status, args, callerAborted, reason, timer, onAbort, nap, reachedOnce,
                 outcome>>

\* The signal is not looked at after the body has come in.
Land_Unchecked ==
  /\ pc = "reply"
  /\ \/ /\ reply = "http_error"
        /\ Throw("http_error", reason)
     \/ /\ reply # "http_error"
        /\ pc' = "landed"
        /\ UNCHANGED <<timer, onAbort, nap, outcome>>
  /\ UNCHANGED <<status, args, callerAborted, reason, reply, reachedOnce>>

\* The body is in: throwIfAborted, then the DelegatorErrors.
Land ==
  /\ pc = "reply"
  /\ \/ /\ reason # "none"
        /\ Throw(reason, reason)
     \/ /\ reason = "none" /\ reply = "http_error"
        /\ Throw("http_error", reason)
     \/ /\ reason = "none" /\ reply # "http_error"
        /\ pc' = "landed"
        /\ UNCHANGED <<timer, onAbort, nap, outcome>>
  /\ UNCHANGED <<status, args, callerAborted, reason, reply, reachedOnce>>

\* The connection breaks.
FetchFails ==
  /\ pc \in {"fetching", "reply"}
  /\ Throw("http_error", reason)
  /\ UNCHANGED <<status, args, callerAborted, reason, reply, reachedOnce>>

\* Only the happy end counts as one.
Ends_FinalizedOnly(state) == state = "finalized"

\* DELEGATED_INTENT_TERMINAL_STATES.includes
Ends(state) == state \in DELEGATED_INTENT_TERMINAL_STATES

\* What waitForIntent makes of the state it read, some microtasks after the last look at
\* the signal; a sleep begun after the abort event has no event to wake it.
Decide ==
  /\ pc = "landed"
  /\ \/ /\ AtTarget(reply)
        /\ Resolve
     \/ /\ ~AtTarget(reply) /\ Ends(reply)
        /\ Throw("ended", reason)
     \/ /\ ~AtTarget(reply) /\ ~Ends(reply)
        /\ pc' = "sleep"
        /\ sleeping' = TRUE /\ wakeable' = (reason = "none")
        /\ UNCHANGED <<timer, onAbort, outcome>>
  /\ UNCHANGED <<status, args, callerAborted, reason, reply, reachedOnce>>

\* The poll interval is over.
Wake ==
  /\ pc = "sleep"
  /\ sleeping' = FALSE /\ wakeable' = FALSE
  /\ pc' = "top"
  /\ UNCHANGED <<status, args, callerAborted, reason, reply, timer, onAbort, reachedOnce,
                 outcome>>

-----------------------------------------------------------------------------
(* The controller. *)

\* The abort event reaches a fetch or a sleep in flight.
Cancels == reason = "none" /\ \/ pc \in {"fetching", "reply"} /\ ~deaf
                              \/ pc = "sleep" /\ wakeable

\* controller.abort(why), which ends the wait here and now
Cancelled(why) ==
  /\ Cancels
  /\ reason' = why
  /\ Throw("http_error", why)

\* controller.abort(why), which the loop has yet to find out, or already knows
Noted(why) ==
  /\ ~Cancels
  /\ reason' = IF reason = "none" THEN why ELSE reason
  /\ UNCHANGED <<pc, nap, outcome>>

\* The caller aborts its signal: before the call, in it, after it.
CallerAborts ==
  /\ ~callerAborted
  /\ callerAborted' = TRUE
  /\ \/ onAbort /\ Cancelled("aborted")
     \/ onAbort /\ Noted("aborted") /\ onAbort' = FALSE /\ UNCHANGED timer
     \/ ~onAbort /\ UNCHANGED <<pc, reason, timer, onAbort, nap, outcome>>
  /\ UNCHANGED <<status, args, reply, reachedOnce>>

\* The deadline's timer; no timer runs while the loop is between two of its awaits.
DeadlineFires ==
  /\ timer /\ pc \notin {"top", "landed"}
  /\ \/ Cancelled("timeout")
     \/ Noted("timeout") /\ timer' = FALSE /\ UNCHANGED onAbort
  /\ UNCHANGED <<status, args, callerAborted, reply, reachedOnce>>

-----------------------------------------------------------------------------
Next ==
  \/ DelegatorMoves
  \/ WaitForIntent \/ LoopTop \/ LocalSigns \/ WalletSigns \/ SignFails
  \/ Answer \/ Land \/ FetchFails \/ Decide \/ Wake
  \/ CallerAborts \/ DeadlineFires

\* The loop runs, the delegator answers, timers fire, a local account signs.  The deadline
\* waits for the loop to reach an await, again and again: the event loop gets to it in the
\* end, which is strong fairness.  No wallet user has to sign, no caller to abort, no intent to move.
Fairness ==
  /\ WF_vars(LoopTop) /\ WF_vars(LocalSigns)
  /\ WF_vars(Answer) /\ WF_vars(Land) /\ WF_vars(Decide) /\ WF_vars(Wake)
  /\ SF_vars(DeadlineFires)

Spec == Init /\ [][Next]_vars
FairSpec == Spec /\ Fairness

-----------------------------------------------------------------------------
(* Safety. *)

\* The wait reports why it stopped: the abort or the deadline, whichever came first, and no
\* other error once either has come (index.ts:443-445).
StopReason ==
  outcome \in Reasons =>
    IF reason = "none" THEN outcome \in {"http_error", "sign_error", "ended"}
    ELSE outcome = reason

\* "Rejects once the intent ends without reaching any of them" (index.ts:404): a wait that
\* gives the intent up is right for good, however often it fell back before.
EndedIsFinal ==
  outcome = "ended" =>
    status \in DELEGATED_INTENT_TERMINAL_STATES /\ ~AtOrPast(status, until)

\* Once settled, no deadline, no listener and no sleep is left (index.ts:220-231, 446-449).
CleanedUp == pc = "done" => ~timer /\ ~onAbort /\ ~sleeping

\* "A fetch that ignores its signal must not resolve after the abort" (index.ts:280): what
\* lands, is asked for or is signed after the abort never becomes the result.
NoResolveAfterAbort ==
  [](pc \in {"top", "signing", "fetching", "reply", "sleep"} /\ reason # "none"
       => [](outcome # "resolved"))

\* An intent that has ended ends the wait, and so does an abort or a deadline, unless the
\* wallet that signs the reads keeps silent.
WaitEnds ==
  /\ pc # "idle" /\ auth # "wallet" /\ status \in DELEGATED_INTENT_TERMINAL_STATES
       ~> pc = "done"
  /\ reason # "none" /\ auth # "wallet" ~> pc = "done"
  /\ timer /\ auth # "wallet" ~> pc = "done"

-----------------------------------------------------------------------------
(* The inductive invariant: TypeOK and what each stage of the loop knows. *)

\* The wait's timers and listeners are those of its stage.
StageHolds ==
  /\ outcome = "pending" <=> pc # "done"
  /\ pc \in {"idle", "done"} => ~timer /\ ~onAbort
  /\ pc = "idle" => reason = "none" /\ ~timed /\ ~reachedOnce
  /\ pc # "sleep" => ~sleeping /\ ~wakeable
  /\ pc = "reply" => reply # "none"
  /\ timer => timed
  /\ reason = "aborted" => callerAborted
  /\ reason = "timeout" => timed

\* A read tells of a state the intent has been in, and for an end still is in.
ReadIsTrue ==
  /\ pc # "idle" /\ AtOrPast(status, until) => reachedOnce
  /\ pc \in {"reply", "landed"} /\ reply \in States =>
       /\ AtOrPast(reply, until) => reachedOnce
       /\ reply \in DELEGATED_INTENT_TERMINAL_STATES => status = reply
  /\ outcome = "resolved" => reachedOnce

IInv == TypeOK /\ StageHolds /\ ReadIsTrue /\ StopReason /\ EndedIsFinal

-----------------------------------------------------------------------------
(* What the wait promises: see Await. *)

ArisenCauses ==
  {r \in Reasons : /\ r = "aborted" => callerAborted
                   /\ r = "timeout" => timed
                   /\ r = "ended" => status \in DELEGATED_INTENT_TERMINAL_STATES}

A == INSTANCE Await WITH held <- reachedOnce, causes <- ArisenCauses

\* The wait settles once; it resolves only if the intent has been at a target since the
\* call, aborts only if the caller did, and times out only if it was given a deadline.
ImplementsAwait == A!Spec
=============================================================================
