------------------------ MODULE DelegatorWaitProofs ------------------------
(***************************************************************************)
(* DelegatorWait for every set of targets: what `reached` computes, the    *)
(* inductive invariant IInv, the safety properties that follow from it,    *)
(* and the refinement of Await.  Then the event feed of the same client,   *)
(* for every log, limit and clock, and both in DelegatorClient.            *)
(***************************************************************************)
EXTENDS DelegatorClient, TLAPS

-----------------------------------------------------------------------------
(* The happy path. *)

LEMMA PathIndices == DOMAIN HAPPY_PATH = 1..6
BY DEF HAPPY_PATH

LEMMA PathInStates == \A i \in 1..6 : HAPPY_PATH[i] \in States
BY DEF HAPPY_PATH, States

LEMMA PathInjective ==
  \A i, j \in 1..6 : HAPPY_PATH[i] = HAPPY_PATH[j] => i = j
BY DEF HAPPY_PATH

\* indexOf gives the place on the path, and 0 off it.
LEMMA IndexOfIs ==
  /\ \A i \in 1..6 : IndexOf(HAPPY_PATH[i]) = i
  /\ \A s : (\A i \in 1..6 : HAPPY_PATH[i] # s) => IndexOf(s) = 0
<1>1. ASSUME NEW i \in 1..6 PROVE IndexOf(HAPPY_PATH[i]) = i
  <2>1. \E j \in 1..6 : HAPPY_PATH[j] = HAPPY_PATH[i]
    OBVIOUS
  <2>2. IndexOf(HAPPY_PATH[i]) = CHOOSE j \in 1..6 : HAPPY_PATH[j] = HAPPY_PATH[i]
    BY <2>1, PathIndices DEF IndexOf
  <2>3. \A j \in 1..6 : HAPPY_PATH[j] = HAPPY_PATH[i] => j = i
    BY PathInjective
  <2>4. QED
    BY <2>1, <2>2, <2>3
<1>2. ASSUME NEW s, \A i \in 1..6 : HAPPY_PATH[i] # s PROVE IndexOf(s) = 0
  BY <1>2, PathIndices DEF IndexOf
<1>3. QED
  BY <1>1, <1>2

\* `reached` (index.ts:244-247) is what the documentation of `until` says: at a target, or
\* past it on the happy path; a target off the path matches only itself.
THEOREM ReachedIsAtOrPast ==
  ASSUME NEW state
  PROVE  AtTarget(state) <=> AtOrPast(state, until)
<1>1. ASSUME NEW target \in until, Reached(state, target)
      PROVE  AtOrPast(state, until)
  <2>1. CASE state = target
    BY <2>1 DEF AtOrPast
  <2>2. CASE IndexOf(target) >= 1 /\ IndexOf(state) >= IndexOf(target)
    <3>1. PICK i \in 1..6 : HAPPY_PATH[i] = target
      BY <2>2, IndexOfIs
    <3>2. IndexOf(target) = i
      BY <3>1, IndexOfIs
    <3>3. PICK j \in 1..6 : HAPPY_PATH[j] = state
      BY <2>2, <3>2, IndexOfIs
    <3>4. IndexOf(state) = j
      BY <3>3, IndexOfIs
    <3>5. QED
      BY <2>2, <3>1, <3>2, <3>3, <3>4, PathIndices DEF AtOrPast
  <2>3. QED
    BY <1>1, <2>1, <2>2 DEF Reached
<1>2. ASSUME AtOrPast(state, until)
      PROVE  \E target \in until : Reached(state, target)
  <2>1. CASE state \in until
    BY <2>1 DEF Reached
  <2>2. CASE \E i, j \in 1..6 : i <= j /\ HAPPY_PATH[i] \in until /\ HAPPY_PATH[j] = state
    BY <2>2, IndexOfIs DEF Reached
  <2>3. QED
    BY <1>2, <2>1, <2>2, PathIndices DEF AtOrPast
<1>3. QED
  BY <1>1, <1>2 DEF AtTarget

\* No transition of the delegator leaves a terminal state.
LEMMA EndsStay ==
  ASSUME NEW state \in DELEGATED_INTENT_TERMINAL_STATES, NEW next
  PROVE  <<state, next>> \notin Transitions
<1>1. state # "accepted" /\ \A i \in 1..5 : HAPPY_PATH[i] # state
  BY DEF HAPPY_PATH, DELEGATED_INTENT_TERMINAL_STATES
<1>2. QED
  BY <1>1 DEF Transitions

-----------------------------------------------------------------------------
(* The invariant. *)

LEMMA InitIInv == Init => IInv
<1> SUFFICES ASSUME Init PROVE IInv
  OBVIOUS
<1>1. TypeOK
  BY DEF Init, TypeOK
<1>2. StageHolds
  BY DEF Init, StageHolds
<1>3. ReadIsTrue /\ StopReason /\ EndedIsFinal
  BY DEF Init, ReadIsTrue, StopReason, EndedIsFinal, Reasons
<1>4. QED
  BY <1>1, <1>2, <1>3 DEF IInv

\* What a settled wait looks like to the type invariant.
LEMMA ThrowTypes ==
  ASSUME NEW error \in Reasons, NEW why \in {"none", "aborted", "timeout"}, Throw(error, why)
  PROVE  /\ pc' = "done" /\ outcome' \in Reasons
         /\ timer' = FALSE /\ onAbort' = FALSE /\ sleeping' = FALSE /\ wakeable' = FALSE
BY DEF Throw, Thrown, Finally, Reasons

\* Every step keeps the variables in their types; only a state lands.
LEMMA StepTypeOK == IInv /\ [Next]_vars => TypeOK'
<1> SUFFICES ASSUME IInv, [Next]_vars PROVE TypeOK'
  OBVIOUS
<1>0. TypeOK
  BY DEF IInv
<1> DEFINE Keeps == UNCHANGED <<status, args, reply, reachedOnce>>
           Places == /\ pc' \in {"top", "signing", "fetching", "reply", "sleep", "done"}
                     /\ outcome' \in {"pending", "resolved"} \cup Reasons
           Flags == /\ timer' \in BOOLEAN /\ onAbort' \in BOOLEAN
                    /\ sleeping' \in BOOLEAN /\ wakeable' \in BOOLEAN
                    /\ callerAborted' \in BOOLEAN
                    /\ reason' \in {"none", "aborted", "timeout"}
<1>1. ASSUME Keeps, Places, Flags PROVE TypeOK'
  BY <1>0, <1>1 DEF TypeOK, args
<1>2. CASE DelegatorMoves
  BY <1>0, <1>2 DEF DelegatorMoves, TypeOK, args, nap
<1>3. CASE WaitForIntent
  <2>1. until' \in SUBSET States
    BY <1>3, DelegatorWaitAssumption DEF WaitForIntent
  <2>2. timed' \in BOOLEAN /\ deaf' \in BOOLEAN /\ auth' \in {"none", "local", "wallet"}
    BY <1>3 DEF WaitForIntent
  <2>3. status' \in States /\ reply' \in States \cup {"http_error", "none"}
    BY <1>0, <1>3 DEF WaitForIntent, TypeOK
  <2>4. Places /\ pc' = "top"
    BY <1>0, <1>3 DEF WaitForIntent, TypeOK
  <2>5. Flags
    BY <1>0, <1>3, <2>2 DEF WaitForIntent, TypeOK, nap
  <2>6. reachedOnce' \in BOOLEAN
    BY <1>3 DEF WaitForIntent, AtOrPast
  <2>7. QED
    BY <2>1, <2>2, <2>3, <2>4, <2>5, <2>6 DEF TypeOK
<1>4. CASE LoopTop
  <2>1. Keeps /\ Places /\ Flags
    BY <1>0, <1>4, ThrowTypes DEF LoopTop, TypeOK, Reasons, nap
  <2>2. QED
    BY <2>1, <1>1
<1>5. CASE Signed
  <2>1. Keeps /\ Places /\ Flags
    BY <1>0, <1>5, ThrowTypes DEF Signed, TypeOK, Reasons, nap
  <2>2. QED
    BY <2>1, <1>1
<1>6. CASE SignFails
  <2>1. Keeps /\ Places /\ Flags
    BY <1>0, <1>6, ThrowTypes DEF SignFails, TypeOK, Reasons, nap
  <2>2. QED
    BY <2>1, <1>1
<1>7. CASE Answer
  BY <1>0, <1>7 DEF Answer, TypeOK, args, nap
<1>8. CASE Land
  <2>1. CASE pc' = "landed"
    <3>1. reply \in States /\ Keeps /\ UNCHANGED <<timer, onAbort, nap, outcome>>
      BY <1>0, <1>8, <2>1 DEF Land, Throw, TypeOK, IInv, StageHolds
    <3>2. UNCHANGED <<callerAborted, reason>>
      BY <1>8 DEF Land
    <3>3. QED
      BY <1>0, <2>1, <3>1, <3>2 DEF TypeOK, args, nap
  <2>2. CASE pc' # "landed"
    <3>1. Keeps /\ Places /\ Flags
      BY <1>0, <1>8, <2>2, ThrowTypes DEF Land, TypeOK, Reasons, nap
    <3>2. QED
      BY <3>1, <1>1
  <2>3. QED
    BY <2>1, <2>2
<1>9. CASE FetchFails
  <2>1. Keeps /\ Places /\ Flags
    BY <1>0, <1>9, ThrowTypes DEF FetchFails, TypeOK, Reasons, nap
  <2>2. QED
    BY <2>1, <1>1
<1>10. CASE Decide
  <2>1. Keeps /\ Places /\ Flags
    BY <1>0, <1>10, ThrowTypes DEF Decide, Resolve, Finally, TypeOK, Reasons, nap
  <2>2. QED
    BY <2>1, <1>1
<1>11. CASE Wake
  <2>1. Keeps /\ Places /\ Flags
    BY <1>0, <1>11, ThrowTypes DEF Wake, TypeOK, Reasons, nap
  <2>2. QED
    BY <2>1, <1>1
<1>12. CASE CallerAborts
  <2>1. CASE Cancelled("aborted")
    <3>1. Keeps /\ Places /\ Flags
      BY <1>0, <1>12, <2>1, ThrowTypes DEF CallerAborts, Cancelled, TypeOK, Reasons
    <3>2. QED
      BY <3>1, <1>1
  <2>2. CASE ~Cancelled("aborted")
    <3>1. Keeps /\ Flags /\ UNCHANGED <<pc, outcome>>
      BY <1>0, <1>12, <2>2 DEF CallerAborts, Noted, TypeOK, nap
    <3>2. QED
      BY <1>0, <3>1 DEF TypeOK, args
  <2>3. QED
    BY <2>1, <2>2
<1>13. CASE DeadlineFires
  <2>1. CASE Cancelled("timeout")
    <3>1. Keeps /\ Places /\ Flags
      BY <1>0, <1>13, <2>1, ThrowTypes DEF DeadlineFires, Cancelled, TypeOK, Reasons
    <3>2. QED
      BY <3>1, <1>1
  <2>2. CASE ~Cancelled("timeout")
    <3>1. Keeps /\ Flags /\ UNCHANGED <<pc, outcome>>
      BY <1>0, <1>13, <2>2 DEF DeadlineFires, Noted, TypeOK, nap
    <3>2. QED
      BY <1>0, <3>1 DEF TypeOK, args
  <2>3. QED
    BY <2>1, <2>2
<1>14. CASE UNCHANGED vars
  BY <1>0, <1>14 DEF vars, TypeOK, args, nap
<1>15. QED
  BY <1>2, <1>3, <1>4, <1>5, <1>6, <1>7, <1>8, <1>9, <1>10, <1>11,
     <1>12, <1>13, <1>14 DEF Next, LocalSigns, WalletSigns

\* Every step leaves the timers and listeners of the stage it goes to.
LEMMA StepStage == IInv /\ [Next]_vars => StageHolds'
<1> SUFFICES ASSUME IInv, [Next]_vars PROVE StageHolds'
  OBVIOUS
<1> USE DEF IInv, TypeOK, StageHolds, Reasons, args, nap, States
<1>1. CASE DelegatorMoves
  BY <1>1 DEF DelegatorMoves
<1>2. CASE WaitForIntent
  BY <1>2 DEF WaitForIntent
<1>3. CASE LoopTop
  BY <1>3 DEF LoopTop, Throw, Thrown, Finally
<1>4. CASE Signed
  BY <1>4 DEF Signed, Throw, Thrown, Finally
<1>5. CASE SignFails
  BY <1>5 DEF SignFails, Throw, Thrown, Finally
<1>6. CASE Answer
  BY <1>6 DEF Answer
<1>7. CASE Land
  BY <1>7 DEF Land, Throw, Thrown, Finally
<1>8. CASE FetchFails
  BY <1>8 DEF FetchFails, Throw, Thrown, Finally
<1>9. CASE Decide
  BY <1>9 DEF Decide, Throw, Thrown, Finally, Resolve
<1>10. CASE Wake
  BY <1>10 DEF Wake
<1>11. CASE CallerAborts
  BY <1>11 DEF CallerAborts, Throw, Thrown, Finally, Cancelled, Noted, Cancels
<1>12. CASE DeadlineFires
  BY <1>12 DEF DeadlineFires, Throw, Thrown, Finally, Cancelled, Noted, Cancels
<1>13. CASE UNCHANGED vars
  BY <1>13 DEF vars
<1>14. QED
  BY <1>1, <1>2, <1>3, <1>4, <1>5, <1>6, <1>7, <1>8, <1>9, <1>10, <1>11, <1>12,
      <1>13 DEF Next, LocalSigns, WalletSigns

\* Whoever stops the wait reports the controller's reason, if it has one.
LEMMA StepStop == IInv /\ [Next]_vars => StopReason'
<1> SUFFICES ASSUME IInv, [Next]_vars PROVE StopReason'
  OBVIOUS
<1> USE DEF IInv, TypeOK, StageHolds, StopReason, Reasons, args, nap
<1>1. CASE DelegatorMoves
  BY <1>1 DEF DelegatorMoves
<1>2. CASE WaitForIntent
  BY <1>2 DEF WaitForIntent
<1>3. CASE LoopTop
  BY <1>3 DEF LoopTop, Throw, Thrown, Finally
<1>4. CASE Signed
  BY <1>4 DEF Signed, Throw, Thrown, Finally
<1>5. CASE SignFails
  BY <1>5 DEF SignFails, Throw, Thrown, Finally
<1>6. CASE Answer
  BY <1>6 DEF Answer
<1>7. CASE Land
  BY <1>7 DEF Land, Throw, Thrown, Finally
<1>8. CASE FetchFails
  BY <1>8 DEF FetchFails, Throw, Thrown, Finally
<1>9. CASE Decide
  BY <1>9 DEF Decide, Throw, Thrown, Finally, Resolve
<1>10. CASE Wake
  BY <1>10 DEF Wake
<1>11. CASE CallerAborts
  BY <1>11 DEF CallerAborts, Throw, Thrown, Finally, Cancelled, Noted, Cancels
<1>12. CASE DeadlineFires
  BY <1>12 DEF DeadlineFires, Throw, Thrown, Finally, Cancelled, Noted, Cancels
<1>13. CASE UNCHANGED vars
  BY <1>13 DEF vars
<1>14. QED
  BY <1>1, <1>2, <1>3, <1>4, <1>5, <1>6, <1>7, <1>8, <1>9, <1>10, <1>11, <1>12,
      <1>13 DEF Next, LocalSigns, WalletSigns

\* A step that only moves the loop on keeps what the read in flight told.
LEMMA ReadStays ==
  ASSUME ReadIsTrue, pc # "idle", UNCHANGED <<status, until, reply, reachedOnce>>,
         pc' \in {"reply", "landed"} => pc \in {"reply", "landed"},
         outcome' = "resolved" => outcome = "resolved"
  PROVE  ReadIsTrue'
BY DEF ReadIsTrue

\* A terminal state stays, so what a read told of an end is still true.
LEMMA StepRead == IInv /\ [Next]_vars => ReadIsTrue'
<1> SUFFICES ASSUME IInv, [Next]_vars PROVE ReadIsTrue'
  OBVIOUS
<1>0. TypeOK /\ ReadIsTrue /\ StageHolds
  BY DEF IInv
<1>1. CASE DelegatorMoves
  <2>1. status \notin DELEGATED_INTENT_TERMINAL_STATES
    BY <1>1, EndsStay DEF DelegatorMoves
  <2>2. UNCHANGED <<pc, until, reply, outcome>>
    BY <1>1 DEF DelegatorMoves, args
  <2>3. pc # "idle" /\ AtOrPast(status', until) => reachedOnce'
    BY <1>1 DEF DelegatorMoves
  <2>4. reachedOnce => reachedOnce'
    BY <1>1 DEF DelegatorMoves
  <2>5. QED
    BY <1>0, <2>1, <2>2, <2>3, <2>4 DEF ReadIsTrue
<1>2. CASE WaitForIntent
  <2>1. pc' = "top" /\ outcome' = "pending" /\ reachedOnce' = AtOrPast(status', until')
    BY <1>0, <1>2 DEF WaitForIntent, StageHolds
  <2>2. QED
    BY <2>1 DEF ReadIsTrue
<1>3. CASE LoopTop \/ Signed \/ SignFails \/ Wake
  <2>1. /\ pc # "idle" /\ UNCHANGED <<status, until, reply, reachedOnce>>
        /\ pc' \notin {"reply", "landed"}
    BY <1>3 DEF LoopTop, Signed, SignFails, Wake, Throw, args
  <2>2. outcome' # "resolved"
    BY <1>0, <1>3 DEF LoopTop, Signed, SignFails, Wake, Throw, Thrown, TypeOK, StageHolds, nap
  <2>3. QED
    BY <1>0, <2>1, <2>2, ReadStays
<1>4. CASE Answer
  <2>1. UNCHANGED <<status, until, reachedOnce, outcome>> /\ pc' = "reply" /\ pc # "idle"
    BY <1>4 DEF Answer, args
  <2>2. reply' \in {status, "http_error"} /\ "http_error" \notin States
    BY <1>4 DEF Answer, States
  <2>3. QED
    BY <1>0, <2>1, <2>2 DEF ReadIsTrue
<1>5. CASE Land \/ FetchFails
  <2>1. /\ pc # "idle" /\ UNCHANGED <<status, until, reply, reachedOnce>>
        /\ pc' \in {"landed", "done"} /\ (pc' = "landed" => pc = "reply")
    BY <1>5 DEF Land, FetchFails, Throw, args
  <2>2. outcome' # "resolved"
    BY <1>0, <1>5 DEF Land, FetchFails, Throw, Thrown, TypeOK, StageHolds, nap
  <2>3. QED
    BY <1>0, <2>1, <2>2, ReadStays
<1>6. CASE Decide
  <2>1. /\ pc = "landed" /\ reply \in States /\ UNCHANGED <<status, until, reply, reachedOnce>>
        /\ pc' \in {"done", "sleep"}
    BY <1>0, <1>6 DEF Decide, Resolve, Throw, TypeOK, args
  <2>2. outcome' = "resolved" => AtTarget(reply)
    BY <1>0, <1>6 DEF Decide, Throw, Thrown, TypeOK, StageHolds, nap
  <2>3. AtTarget(reply) => reachedOnce
    BY <1>0, <2>1, ReachedIsAtOrPast DEF ReadIsTrue
  <2>4. QED
    BY <1>0, <2>1, <2>2, <2>3 DEF ReadIsTrue
<1>7. CASE CallerAborts \/ DeadlineFires
  <2>1. /\ UNCHANGED <<status, until, reply, reachedOnce>>
        /\ pc' \in {pc, "done"}
    BY <1>7 DEF CallerAborts, DeadlineFires, Cancelled, Noted, Throw, args
  <2>2. outcome' = "resolved" => outcome = "resolved"
    BY <1>7 DEF CallerAborts, DeadlineFires, Cancelled, Noted, Throw, Thrown
  <2>3. pc = "idle" => pc' = "idle"
    BY <1>0, <1>7
    DEF CallerAborts, DeadlineFires, Cancelled, Cancels, Noted, Throw, StageHolds
  <2>4. QED
    BY <1>0, <2>1, <2>2, <2>3 DEF ReadIsTrue
<1>8. CASE UNCHANGED vars
  BY <1>0, <1>8 DEF vars, args, ReadIsTrue
<1>9. QED
  BY <1>1, <1>2, <1>3, <1>4, <1>5, <1>6, <1>7, <1>8 DEF Next, LocalSigns, WalletSigns

\* The wait gives up only on an intent that has ended for good, short of every target.
LEMMA StepEnded == IInv /\ [Next]_vars => EndedIsFinal'
<1> SUFFICES ASSUME IInv, [Next]_vars, outcome' = "ended"
             PROVE  /\ status' \in DELEGATED_INTENT_TERMINAL_STATES
                    /\ ~AtOrPast(status', until')
  BY DEF EndedIsFinal
<1>0. TypeOK /\ ReadIsTrue /\ StageHolds /\ EndedIsFinal
  BY DEF IInv
<1>1. CASE outcome = "ended"
  <2>1. pc = "done" /\ status \in DELEGATED_INTENT_TERMINAL_STATES
        /\ ~AtOrPast(status, until)
    BY <1>0, <1>1 DEF StageHolds, EndedIsFinal
  <2>2. UNCHANGED until
    BY <2>1 DEF Next, vars, args, DelegatorMoves, WaitForIntent, LoopTop, LocalSigns,
       WalletSigns, Signed, SignFails, Answer, Land, FetchFails, Decide, Wake,
       CallerAborts, DeadlineFires
  <2>3. UNCHANGED status
    <3>1. ~DelegatorMoves
      BY <2>1, EndsStay DEF DelegatorMoves
    <3>2. QED
      BY <2>1, <3>1 DEF Next, vars, WaitForIntent, LoopTop, LocalSigns,
         WalletSigns, Signed, SignFails, Answer, Land, FetchFails, Decide, Wake,
         CallerAborts, DeadlineFires
  <2>4. QED
    BY <2>1, <2>2, <2>3
<1>2. CASE outcome # "ended"
  <2>1. Decide
    BY <1>0, <1>2 DEF Next, vars, nap, DelegatorMoves, WaitForIntent, LoopTop, LocalSigns,
       WalletSigns, Signed, SignFails, Answer, Land, FetchFails, Wake, CallerAborts,
       DeadlineFires, Cancelled, Noted, Throw, Thrown, TypeOK
  <2>2. /\ pc = "landed" /\ reply \in States /\ UNCHANGED <<status, until>>
        /\ ~AtTarget(reply) /\ Ends(reply)
    BY <1>0, <1>2, <2>1 DEF Decide, Resolve, TypeOK, args, nap
  <2>3. status = reply
    BY <1>0, <2>2 DEF ReadIsTrue, Ends
  <2>4. QED
    BY <2>2, <2>3, ReachedIsAtOrPast DEF Ends
<1>3. QED
  BY <1>1, <1>2

\* The inductive invariant holds in every behaviour of the wait and of the intent it reads
\* (src/modules/delegator/index.ts:260-307, 408-450).
THEOREM Invariance == Spec => []IInv
<1>1. IInv /\ [Next]_vars => IInv'
  <2> SUFFICES ASSUME IInv, [Next]_vars PROVE IInv'
    OBVIOUS
  <2>1. TypeOK'
    BY StepTypeOK
  <2>2. StageHolds'
    BY StepStage
  <2>3. ReadIsTrue'
    BY StepRead
  <2>4. StopReason'
    BY StepStop
  <2>5. EndedIsFinal'
    BY StepEnded
  <2>6. QED
    BY <2>1, <2>2, <2>3, <2>4, <2>5 DEF IInv
<1>2. QED
  BY InitIInv, <1>1, PTL DEF Spec

-----------------------------------------------------------------------------
(* What follows from it. *)

\* waitForIntent's variables keep their types.
THEOREM TypeInvariant == Spec => []TypeOK
<1>1. IInv => TypeOK
  BY DEF IInv
<1>2. QED
  BY <1>1, Invariance, PTL

\* A rejected wait reports the abort or the deadline, whichever came first, and no other
\* error once either has come (index.ts:443-445).
THEOREM ReportsWhyItStopped == Spec => []StopReason
<1>1. IInv => StopReason
  BY DEF IInv
<1>2. QED
  BY <1>1, Invariance, PTL

\* A wait that gives the intent up is right for good (index.ts:404).
THEOREM GivesUpForGood == Spec => []EndedIsFinal
<1>1. IInv => EndedIsFinal
  BY DEF IInv
<1>2. QED
  BY <1>1, Invariance, PTL

\* A settled wait leaves no deadline, no listener and no sleep (index.ts:220-231, 446-449).
THEOREM LeavesNothing == Spec => []CleanedUp
<1>1. IInv => CleanedUp
  BY DEF IInv, StageHolds, CleanedUp
<1>2. QED
  BY <1>1, Invariance, PTL

\* A wait whose controller has been aborted before an answer has landed can only reject.
Doomed ==
  /\ outcome # "resolved"
  /\ \/ pc = "done"
     \/ pc \in {"top", "signing", "fetching", "reply", "sleep"} /\ reason # "none"

LEMMA StaysDoomed == IInv /\ Doomed /\ [Next]_vars => Doomed'
<1> SUFFICES ASSUME IInv, Doomed, [Next]_vars PROVE Doomed'
  OBVIOUS
<1> USE DEF IInv, TypeOK, Doomed
<1>1. CASE DelegatorMoves \/ UNCHANGED vars
  BY <1>1 DEF DelegatorMoves, vars, args
<1>2. CASE WaitForIntent
  BY <1>2 DEF WaitForIntent
<1>3. CASE LoopTop
  BY <1>3 DEF LoopTop, Throw, Thrown, Reasons, args
<1>4. CASE LocalSigns \/ WalletSigns \/ SignFails \/ FetchFails
  BY <1>4 DEF LocalSigns, WalletSigns, Signed, SignFails, FetchFails, Throw, Thrown, Reasons, args
<1>5. CASE Answer \/ Wake
  BY <1>5 DEF Answer, Wake, args
<1>6. CASE Land
  BY <1>6 DEF Land, Throw, Thrown, Reasons, args
<1>7. CASE Decide
  BY <1>7 DEF Decide
<1>8. CASE CallerAborts
  BY <1>8 DEF CallerAborts, Cancelled, Cancels, Noted, Throw, Thrown
<1>9. CASE DeadlineFires
  BY <1>9 DEF DeadlineFires, Cancelled, Cancels, Noted, Throw, Thrown
<1>10. QED
  BY <1>1, <1>2, <1>3, <1>4, <1>5, <1>6, <1>7, <1>8, <1>9 DEF Next

\* However late the answer of a fetch that ignores its signal comes, and however the wait goes on
\* from the moment of the abort, it does not resolve (delegator/index.ts:280-281, 423-449).
THEOREM LateAnswersAreDropped == Spec => NoResolveAfterAbort
<1>1. IInv /\ pc \in {"top", "signing", "fetching", "reply", "sleep"} /\ reason # "none" => Doomed
  BY DEF IInv, StageHolds, Doomed
<1>2. Doomed => outcome # "resolved"
  BY DEF Doomed
<1>3. QED
  BY <1>1, <1>2, Invariance, StaysDoomed, PTL DEF Spec, NoResolveAfterAbort

-----------------------------------------------------------------------------
(* The refinement of Await. *)

\* A cause of rejection, once arisen, stays arisen.
LEMMA CausesStay == IInv /\ [Next]_vars => ArisenCauses \subseteq ArisenCauses'
<1> SUFFICES ASSUME IInv, [Next]_vars PROVE ArisenCauses \subseteq ArisenCauses'
  OBVIOUS
<1>0. TypeOK /\ StageHolds
  BY DEF IInv
<1>1. timed => timed'
  BY <1>0 DEF Next, vars, args, StageHolds, DelegatorMoves, WaitForIntent, LoopTop,
     LocalSigns, WalletSigns, Signed, SignFails, Answer, Land, FetchFails, Decide, Wake,
     CallerAborts, DeadlineFires
<1>2. callerAborted => callerAborted'
  BY DEF Next, vars, DelegatorMoves, WaitForIntent, LoopTop,
     LocalSigns, WalletSigns, Signed, SignFails, Answer, Land, FetchFails, Decide, Wake,
     CallerAborts, DeadlineFires
<1>3. status \in DELEGATED_INTENT_TERMINAL_STATES => status' = status
  <2>1. CASE DelegatorMoves
    BY <2>1, EndsStay DEF DelegatorMoves
  <2>2. CASE ~DelegatorMoves
    BY <2>2 DEF Next, vars, WaitForIntent, LoopTop,
       LocalSigns, WalletSigns, Signed, SignFails, Answer, Land, FetchFails, Decide, Wake,
       CallerAborts, DeadlineFires
  <2>3. QED
    BY <2>1, <2>2
<1>4. QED
  BY <1>1, <1>2, <1>3 DEF ArisenCauses

\* A target, once reached, has been reached.
LEMMA ReachedOnceStays == IInv /\ [Next]_vars => (reachedOnce => reachedOnce')
BY DEF IInv, StageHolds, Next, vars, DelegatorMoves, WaitForIntent, LoopTop,
   LocalSigns, WalletSigns, Signed, SignFails, Answer, Land, FetchFails, Decide, Wake,
   CallerAborts, DeadlineFires

\* The promise settles once, and for a reason.
LEMMA SettlesOnce ==
  IInv /\ IInv' /\ [Next]_vars =>
    \/ UNCHANGED outcome
    \/ outcome = "pending" /\ reachedOnce' /\ outcome' = "resolved"
    \/ outcome = "pending" /\ outcome' \in ArisenCauses'
<1> SUFFICES ASSUME IInv, IInv', [Next]_vars, outcome' # outcome
             PROVE  /\ outcome = "pending"
                    /\ \/ reachedOnce' /\ outcome' = "resolved"
                       \/ outcome' \in ArisenCauses'
  OBVIOUS
<1>1. outcome = "pending"
  BY DEF IInv, StageHolds, Next, vars, nap, DelegatorMoves, WaitForIntent, LoopTop,
     LocalSigns, WalletSigns, Signed, SignFails, Answer, Land, FetchFails, Decide, Wake,
     CallerAborts, DeadlineFires, Cancelled, Cancels, Noted
<1>2. outcome' # "pending"
  BY <1>1
<1>3. CASE outcome' = "resolved"
  <2>1. reachedOnce'
    BY <1>3 DEF IInv, ReadIsTrue
  <2>2. QED
    BY <1>1, <1>3, <2>1
<1>4. CASE outcome' # "resolved"
  <2>1. outcome' \in Reasons
    BY <1>2, <1>4 DEF IInv, TypeOK
  <2>2. outcome' = "aborted" => reason' = "aborted"
    BY <2>1 DEF IInv, TypeOK, StopReason
  <2>3. outcome' = "timeout" => reason' = "timeout"
    BY <2>1 DEF IInv, TypeOK, StopReason
  <2>4. outcome' = "aborted" => callerAborted'
    BY <2>2 DEF IInv, StageHolds
  <2>5. outcome' = "timeout" => timed'
    BY <2>3 DEF IInv, StageHolds
  <2>6. outcome' = "ended" => status' \in DELEGATED_INTENT_TERMINAL_STATES
    BY DEF IInv, EndedIsFinal
  <2>7. outcome' \in ArisenCauses'
    BY <2>1, <2>4, <2>5, <2>6 DEF ArisenCauses
  <2>8. QED
    BY <1>1, <2>7
<1>5. QED
  BY <1>3, <1>4

\* waitForIntent settles at most once, resolves only if the intent has been at a target, and
\* gives no reason that has not arisen (index.ts:408-450).
THEOREM Refinement == Spec => ImplementsAwait
<1>1. Init => A!Init
  BY DEF Init, A!Init, ArisenCauses, Reasons
<1>2. IInv /\ IInv' /\ [Next]_vars => [A!Next]_A!awaitVars
  <2> SUFFICES ASSUME IInv, IInv', [Next]_vars PROVE A!Next \/ UNCHANGED A!awaitVars
    OBVIOUS
  <2>1. A!Advance
    BY CausesStay, ReachedOnceStays DEF A!Advance, ArisenCauses, IInv, TypeOK
  <2>2. A!Resolve \/ A!Reject \/ UNCHANGED outcome
    BY SettlesOnce DEF A!Resolve, A!Reject
  <2>3. QED
    BY <2>1, <2>2 DEF A!Next
<1>3. QED
  BY <1>1, <1>2, Invariance, PTL DEF Spec, ImplementsAwait, A!Spec

-----------------------------------------------------------------------------
(* The event feed. *)

LEMMA FeedInitIInv == FeedInit => FeedIInv
<1> SUFFICES ASSUME FeedInit PROVE FeedIInv
  OBVIOUS
<1>1. FeedTypeOK
  BY DelegatorFeedAssumption DEF FeedInit, FeedTypeOK, NoSession, Idle
<1>2. CallHolds /\ FeedIsComplete
  BY DEF FeedInit, CallHolds, FeedIsComplete, Idle
<1>3. QED
  BY <1>1, <1>2 DEF FeedIInv

\* A page leaves out no matching event between the cursor it was asked for and the one to go on
\* from: it is the first Limit of them, or all.
LEMMA PageIsComplete ==
  ASSUME FeedTypeOK, NEW from \in Nat, from <= Len(log),
         NEW events \in FirstOf(Matching(from)), NEW next \in NextCursors(from, events)
  PROVE  /\ next \in 0..Len(log) /\ events \subseteq 1..Len(log)
         /\ \A c \in from + 1..next : log[c] => c \in events
<1>1. Len(log) \in Nat
  BY DEF FeedTypeOK
<1>2. events \subseteq Matching(from) /\ Matching(from) \subseteq from + 1..Len(log)
  BY DEF FirstOf, Matching
<1>3. next \in 0..Len(log)
  BY <1>1, <1>2 DEF NextCursors
<1>4. ASSUME NEW c \in from + 1..next, log[c] PROVE c \in events
  <2>1. c \in Matching(from)
    BY <1>1, <1>3, <1>4 DEF Matching
  <2>2. CASE next \in events
    BY <1>1, <1>2, <1>3, <2>1, <2>2 DEF FirstOf
  <2>3. CASE next = from
    BY <2>3
  <2>4. CASE Cardinality(events) < Limit
    BY <2>1, <2>4, DelegatorFeedAssumption DEF FirstOf
  <2>5. QED
    BY <2>2, <2>3, <2>4 DEF NextCursors
<1>5. QED
  BY <1>1, <1>2, <1>3, <1>4

LEMMA FeedStepTypeOK == FeedIInv /\ [FeedNext]_feedVars => FeedTypeOK'
<1> SUFFICES ASSUME FeedIInv, [FeedNext]_feedVars PROVE FeedTypeOK'
  OBVIOUS
<1> USE DEF FeedIInv, FeedTypeOK
<1>1. CASE Appends
  <2>1. PICK mine \in BOOLEAN : log' = Append(log, mine)
    BY <1>1 DEF Appends
  <2>2. log' \in Seq(BOOLEAN) /\ Len(log') = Len(log) + 1
    BY <2>1
  <2>3. Len(log') <= MaxEvents
    BY <1>1, <2>2, DelegatorFeedAssumption DEF Appends
  <2>4. UNCHANGED <<floor, clock, session, after, handled, lost, call, delivered, received>>
    BY <1>1 DEF Appends
  <2>5. 0..Len(log) \subseteq 0..Len(log') /\ 1..Len(log) \subseteq 1..Len(log')
    BY <2>2
  <2>6. QED
    BY <2>2, <2>3, <2>4, <2>5
<1>2. CASE PrunesEvents
  BY <1>2 DEF PrunesEvents
<1>3. CASE FeedTick
  BY <1>3, DelegatorFeedAssumption DEF FeedTick
<1>4. CASE createNewtonSession \/ signSessionGrant
  <2>1. session' \in [stage : {"none", "signing", "granted"}, expiresAt : Nat]
    BY <1>4, DelegatorFeedAssumption DEF createNewtonSession, signSessionGrant
  <2>2. UNCHANGED <<log, floor, clock, after, handled, lost, call, delivered, received>>
    BY <1>4 DEF createNewtonSession, signSessionGrant
  <2>3. QED
    BY <2>1, <2>2
<1>5. CASE signNewtonRequest \/ ReadFails
  <2>1. call'.stage \in {"idle", "signing", "sent"}
    BY <1>5 DEF signNewtonRequest, ReadFails, Idle
  <2>2. UNCHANGED <<log, floor, clock, session, after, handled, lost, delivered, received>>
    BY <1>5 DEF signNewtonRequest, ReadFails
  <2>3. QED
    BY <2>1, <2>2
<1>6. CASE WalletSignsRead
  BY <1>6 DEF WalletSignsRead, CallHolds
<1>7. CASE ServesEvents
  BY <1>7 DEF ServesEvents
<1>8. CASE HandlesPage
  BY <1>8 DEF HandlesPage, CallHolds, Idle
<1>9. CASE RestartsAtFloor
  BY <1>9 DEF RestartsAtFloor, CallHolds, Idle
<1>10. CASE ReaderRestarts
  BY <1>10 DEF ReaderRestarts, NoSession, Idle
<1>11. CASE Delivers
  BY <1>11 DEF Delivers
<1>12. CASE DeliversGap
  BY <1>12 DEF DeliversGap
<1>13. CASE UNCHANGED feedVars
  BY <1>13 DEF feedVars
<1>14. QED
  BY <1>1, <1>2, <1>3, <1>4, <1>5, <1>6, <1>7, <1>8, <1>9, <1>10, <1>11, <1>12, <1>13
  DEF FeedNext

LEMMA FeedStepCall == FeedIInv /\ [FeedNext]_feedVars => CallHolds'
<1> SUFFICES ASSUME FeedIInv, [FeedNext]_feedVars PROVE CallHolds'
  OBVIOUS
<1> USE DEF FeedIInv, FeedTypeOK
<1>1. CASE Appends
  BY <1>1 DEF Appends, CallHolds
<1>2. CASE PrunesEvents \/ FeedTick \/ createNewtonSession \/ signSessionGrant \/ Delivers
  BY <1>2 DEF PrunesEvents, FeedTick, createNewtonSession, signSessionGrant, Delivers, CallHolds
<1>3. CASE signNewtonRequest
  BY <1>3 DEF signNewtonRequest, CallHolds
<1>4. CASE WalletSignsRead
  BY <1>4 DEF WalletSignsRead, CallHolds
<1>5. CASE ServesEvents
  <2>1. call.after = after
    BY <1>5 DEF ServesEvents, CallHolds
  <2>2. CASE call' = [stage |-> "unauthorized"]
    BY <2>2 DEF CallHolds
  <2>3. CASE call' = [stage |-> "cursor_pruned", floor |-> floor]
    BY <1>5, <2>3 DEF ServesEvents, CallHolds
  <2>4. ASSUME NEW events \in FirstOf(Matching(after)), NEW next \in NextCursors(after, events),
               call' = [stage |-> "page", page |-> getEvents(RawPage(events, next))]
        PROVE  CallHolds'
    <3>1. /\ next \in 0..Len(log) /\ events \subseteq 1..Len(log)
          /\ \A c \in after + 1..next : log[c] => c \in events
      BY PageIsComplete
    <3>2. \A c \in 1..next : log[c] => c \in events \cup handled \cup lost
      BY <3>1 DEF FeedIsComplete
    <3>3. call'.stage = "page" /\ call'.page.nextCursor = next /\ call'.page.events = events
      BY <2>4 DEF getEvents, RawPage
    <3>4. UNCHANGED <<log, handled, lost>>
      BY <1>5 DEF ServesEvents
    <3>5. QED
      BY <3>1, <3>2, <3>3, <3>4 DEF CallHolds
  <2>5. QED
    BY <1>5, <2>1, <2>2, <2>3, <2>4 DEF ServesEvents
<1>6. CASE ReadFails \/ HandlesPage \/ RestartsAtFloor \/ ReaderRestarts
  BY <1>6 DEF ReadFails, HandlesPage, RestartsAtFloor, ReaderRestarts, Idle, CallHolds
<1>7. CASE DeliversGap
  BY <1>7 DEF DeliversGap, CallHolds
<1>8. CASE UNCHANGED feedVars
  BY <1>8 DEF feedVars, CallHolds
<1>9. QED
  BY <1>1, <1>2, <1>3, <1>4, <1>5, <1>6, <1>7, <1>8 DEF FeedNext

LEMMA FeedStepComplete == FeedIInv /\ [FeedNext]_feedVars => FeedIsComplete'
<1> SUFFICES ASSUME FeedIInv, [FeedNext]_feedVars PROVE FeedIsComplete'
  OBVIOUS
<1> USE DEF FeedIInv, FeedTypeOK
<1>1. CASE Appends
  BY <1>1 DEF Appends, FeedIsComplete
<1>2. CASE PrunesEvents \/ FeedTick \/ createNewtonSession \/ signSessionGrant
           \/ signNewtonRequest \/ WalletSignsRead \/ ServesEvents \/ ReadFails
  BY <1>2 DEF PrunesEvents, FeedTick, createNewtonSession, signSessionGrant, signNewtonRequest,
              WalletSignsRead, ServesEvents, ReadFails, FeedIsComplete
<1>3. CASE HandlesPage
  BY <1>3 DEF HandlesPage, CallHolds, FeedIsComplete
<1>4. CASE RestartsAtFloor
  BY <1>4 DEF RestartsAtFloor, CallHolds, FeedIsComplete
<1>5. CASE ReaderRestarts
  BY <1>5 DEF ReaderRestarts, FeedIsComplete
<1>6. CASE Delivers
  BY <1>6 DEF Delivers, FeedIsComplete
<1>7. CASE DeliversGap
  BY <1>7 DEF DeliversGap, FeedIsComplete
<1>8. CASE UNCHANGED feedVars
  BY <1>8 DEF feedVars, FeedIsComplete
<1>9. QED
  BY <1>1, <1>2, <1>3, <1>4, <1>5, <1>6, <1>7, <1>8 DEF FeedNext

-----------------------------------------------------------------------------
(* One client in either loop. *)

\* The invariants of both loops hold of a client in either (DelegatorClient).
THEOREM ClientInvariance == ClientSpec => [](IInv /\ FeedIInv)
<1>1. ClientInit => IInv /\ FeedIInv
  BY InitIInv, FeedInitIInv DEF ClientInit
<1>2. IInv /\ FeedIInv /\ [ClientNext]_<<loop, vars, feedVars>> => (IInv /\ FeedIInv)'
  <2> SUFFICES ASSUME IInv, FeedIInv, [ClientNext]_<<loop, vars, feedVars>>
               PROVE  IInv' /\ FeedIInv'
    OBVIOUS
  <2>1. [Next]_vars /\ [FeedNext]_feedVars
    BY DEF ClientNext
  <2>2. IInv'
    BY <2>1, StepTypeOK, StepStage, StepStop, StepRead, StepEnded DEF IInv
  <2>3. FeedIInv'
    BY <2>1, FeedStepTypeOK, FeedStepCall, FeedStepComplete DEF FeedIInv
  <2>4. QED
    BY <2>2, <2>3
<1>3. QED
  BY <1>1, <1>2, PTL DEF ClientSpec

\* Whatever is appended, pruned, refused and restarted, and however long a page is, a reader that
\* follows getEvents' nextCursor skips no event in silence, nor does a webhook's receiver
\* (delegator/index.ts:382-401, 489-517).
THEOREM NothingIsSkipped == ClientSpec => []FeedIsComplete
<1>1. IInv /\ FeedIInv => FeedIsComplete
  BY DEF FeedIInv
<1>2. QED
  BY <1>1, ClientInvariance, PTL

\* A client in either loop is typed.
THEOREM ClientTypes == ClientSpec => []ClientTypeOK
<1>1. IInv /\ FeedIInv => ClientTypeOK
  BY DEF IInv, FeedIInv, ClientTypeOK
<1>2. QED
  BY <1>1, ClientInvariance, PTL
=============================================================================
