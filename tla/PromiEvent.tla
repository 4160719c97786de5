----------------------------- MODULE PromiEvent -----------------------------
(***************************************************************************)
(* createPromiEvent (src/utils/promise-tools.ts): a promise that is also   *)
(* an event emitter.  The executor's promise settles first; a reaction of  *)
(* it tells the listeners `done` or `error`, then `settled`, and settles   *)
(* the promise the caller holds.  What listens comes and goes meanwhile,   *)
(* and a listener may throw, in the middle of the reaction.                *)
(*                                                                         *)
(* popupRequest, and with it every identity request of the SDK, answers    *)
(* with one.                                                               *)
(***************************************************************************)
EXTENDS Integers

CONSTANTS
  Listeners,  \* the functions the caller may register
  Event,      \* the event each is for
  Throwing,   \* those of them that throw when called
  MaxOn       \* bound: the registrations made

Events == {"done", "error", "settled"}

ASSUME PromiEventAssumption ==
  /\ Event \in [Listeners -> Events]
  /\ Throwing \subseteq Listeners
  /\ MaxOn \in Nat

Off == 0   \* the rank of a listener that is not registered

VARIABLES
  executor,   \* "running", or "over": it has returned or thrown
  promise,    \* the executor's promise: "pending", "resolved" or "rejected"
  rank,       \* listener -> its place in the emitter, Off without one
  clock,      \* the last place given
  result,    \* of the PromiEvent: "pending", "resolved", or why it rejected
  told,       \* what the caller's await was answered, "nothing" before
  notified   \* history: the listeners called

promiVars == <<executor, promise, rank, clock, result, told, notified>>

Outcomes == {"resolved", "rejected", "listener_error"}

PromiTypeOK ==
  /\ executor \in {"running", "over"}
  /\ promise \in {"pending", "resolved", "rejected"}
  /\ rank \in [Listeners -> 0..clock]
  /\ clock \in 0..MaxOn
  /\ result \in Outcomes \cup {"pending"}
  /\ told \in Outcomes \cup {"nothing"}
  /\ notified \subseteq Listeners

-----------------------------------------------------------------------------
(* The emitter: eventemitter3 behind createTypedEmitter. *)

On(event) == {l \in Listeners : Event[l] = event /\ rank[l] # Off}

\* emit calls them in the order they came in; a throw ends it.
Called(event) == {l \in On(event) : \A t \in On(event) \cap Throwing : rank[l] <= rank[t]}

Throws(event) == Called(event) \cap Throwing # {}

\* on, once and addListener, of this promise or of one chained to it by then.
AddListener(l) ==
  /\ clock < MaxOn /\ rank[l] = Off
  /\ clock' = clock + 1
  /\ rank' = [rank EXCEPT ![l] = clock + 1]
  /\ UNCHANGED <<executor, promise, result, told, notified>>

\* off and removeListener
RemoveListener(l) ==
  /\ rank[l] # Off
  /\ rank' = [rank EXCEPT ![l] = Off]
  /\ UNCHANGED <<executor, promise, clock, result, told, notified>>

\* removeAllListeners
RemoveAllListeners ==
  /\ \E l \in Listeners : rank[l] # Off
  /\ rank' = [l \in Listeners |-> Off]
  /\ UNCHANGED <<executor, promise, clock, result, told, notified>>

-----------------------------------------------------------------------------
(* createPromise. *)

\* The last call counts.
Settled_Last(how) == promise' = how

\* resolve and reject: the first call counts.
Settled(how) == promise' = IF promise = "pending" THEN how ELSE promise

Resolve ==
  /\ Settled("resolved")
  /\ UNCHANGED <<executor, rank, clock, result, told, notified>>

Reject ==
  /\ Settled("rejected")
  /\ UNCHANGED <<executor, rank, clock, result, told, notified>>

\* It leaves callbacks behind that settle the promise later, or has settled it.
ExecutorReturns ==
  /\ executor = "running"
  /\ executor' = "over"
  /\ UNCHANGED <<promise, rank, clock, result, told, notified>>

\* A throw, or an async executor's rejection, rejects what is not settled yet.
ExecutorThrows ==
  /\ executor = "running"
  /\ executor' = "over"
  /\ Settled("rejected")
  /\ UNCHANGED <<rank, clock, result, told, notified>>

-----------------------------------------------------------------------------
(* The reactions. *)

\* `settled` first.
Emits_SettledFirst(event) ==
  notified' = notified \cup Called("settled") \cup (IF Throws("settled") THEN {} ELSE Called(event))

\* emit(event), and emit('settled') unless it throws.
Emits(event) ==
  notified' = notified \cup Called(event) \cup (IF Throws(event) THEN {} ELSE Called("settled"))

\* The error is not thrown again.
Passes_Swallowed(event) == "resolved"

\* return resolved, or throw err; a listener's throw comes first.
Passes(event) ==
  IF Throws(event) \/ Throws("settled") THEN "listener_error" ELSE promise

\* A listener that throws ends the reaction.
React_ThrowHangs ==
  /\ promise # "pending" /\ result = "pending"
  /\ LET event == IF promise = "resolved" THEN "done" ELSE "error"
     IN  /\ Emits(event)
         /\ result' = IF Passes(event) = "listener_error" THEN "pending" ELSE Passes(event)
  /\ UNCHANGED <<executor, promise, rank, clock, told>>

\* The reaction to the executor's promise.
React ==
  /\ promise # "pending" /\ result = "pending"
  /\ LET event == IF promise = "resolved" THEN "done" ELSE "error"
     IN  Emits(event) /\ result' = Passes(event)
  /\ UNCHANGED <<executor, promise, rank, clock, told>>

\* then, catch and finally react to the promise the listeners have been told of.
AwaitAnswers ==
  /\ result # "pending" /\ told = "nothing"
  /\ told' = result
  /\ UNCHANGED <<executor, promise, rank, clock, result, notified>>

-----------------------------------------------------------------------------
PromiInit ==
  /\ executor = "running" /\ promise = "pending"
  /\ rank = [l \in Listeners |-> Off] /\ clock = 0
  /\ result = "pending" /\ told = "nothing"
  /\ notified = {}

PromiNext ==
  \/ \E l \in Listeners : AddListener(l) \/ RemoveListener(l)
  \/ RemoveAllListeners
  \/ Resolve \/ Reject \/ ExecutorReturns \/ ExecutorThrows
  \/ React \/ AwaitAnswers

PromiSpec == PromiInit /\ [][PromiNext]_promiVars

\* Microtasks run.  The executor need not settle its promise.
FairPromiSpec == PromiSpec /\ WF_promiVars(React) /\ WF_promiVars(AwaitAnswers)

-----------------------------------------------------------------------------
(* Safety. *)

\* Who heard `settled` heard it when every listener of the outcome had been through: a `done`
\* or `error` listener that throws keeps it from being told (promise-tools.ts:127-139).
SettledAfterOutcome ==
  (\E l \in notified : Event[l] = "settled")
    => \A t \in notified \cap Throwing : Event[t] = "settled"

\* The outcome's listeners come first, `settled` after them, and the caller last: when it goes
\* on, no listener is called behind its back (promise-tools.ts:123-141: `then` is of the
\* promise that follows the reaction).
EventsInOrder == [][SettledAfterOutcome' /\ (told # "nothing" => UNCHANGED notified)]_promiVars

\* Listeners are told of one outcome, the one the caller's await is answered with unless a
\* listener threw, however often resolve, reject and a throw of the executor contradict
\* each other (promise-tools.ts:126-139, 152-157).
ListenersAgree ==
  \A l \in notified :
    /\ Event[l] = "done" => promise = "resolved" /\ told \in {"nothing", "resolved", "listener_error"}
    /\ Event[l] = "error" => promise = "rejected" /\ told \in {"nothing", "rejected", "listener_error"}

-----------------------------------------------------------------------------
(* Liveness and refinement. *)

\* Once the executor's promise is settled the caller is answered, though listeners throw.
SettledIsTold == promise # "pending" ~> told # "nothing"

\* It settles once; it resolves only if the executor resolved; it rejects only because the
\* executor did or because a listener threw.
AbstractAwait == INSTANCE Await WITH
  Reasons <- {"rejected", "listener_error"},
  held <- promise = "resolved",
  causes <- {cause \in {"rejected", "listener_error"} :
               \/ cause = "rejected" /\ promise = "rejected"
               \/ cause = "listener_error" /\ notified \cap Throwing # {}},
  outcome <- result

\* A PromiEvent is a promise: it implements Await.
ImplementsAwait == AbstractAwait!Spec

-----------------------------------------------------------------------------
(* The inductive invariant. *)

\* Nobody is told of anything before the executor's promise is settled, and the caller not
\* before the listeners.
InOrder ==
  /\ result # "pending" => promise # "pending"
  /\ told # "nothing" => told = result
  /\ notified # {} => result # "pending"
  /\ result \in {"resolved", "rejected"} => result = promise

PromiIInv == PromiTypeOK /\ InOrder /\ SettledAfterOutcome /\ ListenersAgree
=============================================================================
