------------------------------- MODULE Popup --------------------------------
(***************************************************************************)
(* popupRequest (src/service/popup.ts): the identity calls of a wallet     *)
(* client share one popup window, one pair of module variables and the     *)
(* page's message event.                                                   *)
(*                                                                         *)
(* Every message reaches every listener: no listener looks at who sent it  *)
(* or whose request it answers.  A listener stops the poll that detects a  *)
(* closed popup, and starts it again a second later, settled or not.       *)
(*                                                                         *)
(* The popup itself is another program: it comes up, says so, takes the    *)
(* requests it is handed, answers them and closes.  What the listeners put *)
(* into localStorage, and nothing of the SDK reads, is left out.           *)
(***************************************************************************)
EXTENDS Integers, Sequences, FiniteSets

CONSTANTS
  Requests,     \* the calls of popupRequest
  Connects,     \* those whose method is Connect
  MaxWindows,   \* bound: windows ever opened
  MaxChatter    \* bound: messages that are neither an answer nor an announcement

ASSUME PopupAssumption ==
  /\ Connects \subseteq Requests
  /\ MaxWindows \in Nat
  /\ MaxChatter \in Nat

Windows == 1..MaxWindows
None == 0       \* null

VARIABLES
  called,         \* the requests made so far
  listening,      \* those with a message listener
  polling,        \* those whose 500 ms interval runs
  restarting,     \* those whose poll a 1000 ms timer will start again; timers that overlap are one
  refocus,        \* those with a refocus prompt on the page
  outcome,        \* of each request's promise
  popup,          \* the module's window
  popupReady,     \* and its flag
  modal,          \* the page shows the prompt for a blocked popup
  window,         \* what each window is
  heard,          \* the windows whose READY a listener has heard
  inbox,          \* the requests an open window has been handed and not answered
  given,          \* all those it has been handed
  mail,           \* what it has posted to the page and the page has not yet had
  doubled,        \* history: Continue has opened a popup beside an open one
  chatter         \* how many other messages the page has had

requestVars == <<called, listening, polling, restarting, refocus, outcome>>
popupVars == <<popup, popupReady, modal>>
windowVars == <<window, inbox, given, mail>>
vars == <<requestVars, popupVars, windowVars, heard, doubled, chatter>>

\* What a rejection gives as its cause.
Errors == {"error", "overridden"}
Reasons == Errors \cup {"alreadyExists", "userClosed"}

Ready == [type |-> "READY"]
Response(r, answer) == [type |-> "RESPONSE", of |-> r, answer |-> answer]
Mail == {Ready} \cup {Response(r, answer) : r \in Requests, answer \in Errors \cup {"result"}}

TypeOK ==
  /\ called \subseteq Requests /\ listening \subseteq Requests /\ refocus \subseteq Requests
  /\ polling \subseteq Requests /\ restarting \subseteq Requests
  /\ outcome \in [Requests -> {"pending", "resolved"} \cup Reasons]
  /\ popup \in Windows \cup {None} /\ popupReady \in BOOLEAN /\ modal \in BOOLEAN
  /\ window \in [Windows -> {"none", "loading", "up", "closed"}]
  /\ heard \subseteq Windows /\ doubled \in BOOLEAN
  /\ inbox \in [Windows -> SUBSET Requests] /\ given \in [Windows -> SUBSET Requests]
  /\ mail \in [Windows -> Seq(Mail)]
  /\ chatter \in 0..MaxChatter

-----------------------------------------------------------------------------
(* The module's window. *)

IsOpen(w) == w # None /\ window[w] \in {"loading", "up"}

\* popup && popup.window !== null && !popup.closed
IsPopupOpen == IsOpen(popup)

\* setPopup
SetPopup(w) == popup' = w /\ popupReady' = FALSE

\* window.open gives the next window, or null when the browser blocks it.
OpenPopup ==
  \/ \E w \in Windows :
       /\ window[w] = "none" /\ \A v \in 1..(w - 1) : window[v] # "none"
       /\ SetPopup(w)
       /\ window' = [window EXCEPT ![w] = "loading"]
  \/ SetPopup(None) /\ UNCHANGED window

\* postMessage(NEWTON_VC_HANDLE_REQUEST) for each of `rs`: only a window that is up gets it.
Post(rs) ==
  IF popup # None /\ window[popup] = "up"
  THEN /\ inbox' = [inbox EXCEPT ![popup] = @ \cup rs]
       /\ given' = [given EXCEPT ![popup] = @ \cup rs]
  ELSE UNCHANGED <<inbox, given>>

-----------------------------------------------------------------------------
(* The call. *)

Init ==
  /\ called = {} /\ listening = {} /\ polling = {} /\ restarting = {} /\ refocus = {}
  /\ outcome = [r \in Requests |-> "pending"]
  /\ popup = None /\ popupReady = FALSE /\ modal = FALSE
  /\ window = [w \in Windows |-> "none"]
  /\ heard = {} /\ doubled = FALSE
  /\ inbox = [w \in Windows |-> {}] /\ given = [w \in Windows |-> {}]
  /\ mail = [w \in Windows |-> <<>>]
  /\ chatter = 0

\* The end of the executor: the interval and the listener.
Listen(r) ==
  /\ listening' = listening \cup {r}
  /\ polling' = polling \cup {r}
  /\ UNCHANGED <<restarting, outcome>>

\* The popup is up: the request joins those it has.
JoinPopup(r) ==
  /\ IsPopupOpen /\ popupReady
  /\ Post({r})
  /\ Listen(r)
  /\ UNCHANGED <<refocus, popupVars, window>>

\* A popup that is not up yet, or the prompt for a blocked one, turns the request away.
TurnAway(r) ==
  /\ IF IsPopupOpen THEN ~popupReady ELSE modal
  /\ outcome' = [outcome EXCEPT ![r] = "alreadyExists"]
  /\ UNCHANGED <<listening, polling, restarting, refocus, popupVars, window, inbox, given>>

\* A popup of its own, a refocus prompt for Connect, the other prompt if it is blocked.
OpenOwnPopup(r) ==
  /\ ~IsPopupOpen /\ ~modal
  /\ OpenPopup
  /\ refocus' = IF r \in Connects THEN refocus \cup {r} ELSE refocus
  /\ modal' = (popup' = None)
  /\ Listen(r)
  /\ UNCHANGED <<inbox, given>>

PopupRequest(r) ==
  /\ r \notin called
  /\ called' = called \cup {r}
  /\ JoinPopup(r) \/ TurnAway(r) \/ OpenOwnPopup(r)
  /\ UNCHANGED <<mail, heard, doubled, chatter>>

-----------------------------------------------------------------------------
(* The prompts' buttons. *)

\* Continue on the prompt for a blocked popup, which is unmounted; it opens a popup
\* whatever there is.
ModalContinue ==
  /\ modal
  /\ modal' = FALSE
  /\ OpenPopup
  /\ doubled' = (doubled \/ IsPopupOpen)
  /\ UNCHANGED <<requestVars, inbox, given, mail, heard, chatter>>

\* Continue on a refocus prompt, which stays, and focuses a popup that is open.
RefocusContinue ==
  /\ refocus # {} /\ ~IsPopupOpen
  /\ OpenPopup
  /\ UNCHANGED <<requestVars, modal, inbox, given, mail, heard, doubled, chatter>>

-----------------------------------------------------------------------------
(* The poll. *)

\* The listener stays on.
Tick_KeepsListener(r) ==
  /\ r \in polling /\ ~modal /\ ~IsPopupOpen
  /\ polling' = polling \ {r}
  /\ refocus' = refocus \ {r}
  /\ SetPopup(None)
  /\ outcome' = [outcome EXCEPT ![r] = IF @ = "pending" THEN "userClosed" ELSE @]
  /\ UNCHANGED <<called, listening, restarting, modal, windowVars, heard, doubled, chatter>>

\* The interval is not cleared.
Tick_RunsOn(r) ==
  /\ r \in polling /\ ~modal /\ ~IsPopupOpen
  /\ listening' = listening \ {r}
  /\ refocus' = refocus \ {r}
  /\ SetPopup(None)
  /\ outcome' = [outcome EXCEPT ![r] = IF @ = "pending" THEN "userClosed" ELSE @]
  /\ UNCHANGED <<called, polling, restarting, modal, windowVars, heard, doubled, chatter>>

\* The interval of r, its promise settled or not, finds the popup closed.
Tick(r) ==
  /\ r \in polling /\ ~modal /\ ~IsPopupOpen
  /\ polling' = polling \ {r}
  /\ listening' = listening \ {r}
  /\ refocus' = refocus \ {r}
  /\ SetPopup(None)
  /\ outcome' = [outcome EXCEPT ![r] = IF @ = "pending" THEN "userClosed" ELSE @]
  /\ UNCHANGED <<called, restarting, modal, windowVars, heard, doubled, chatter>>

\* A second after a message.
RestartFires(r) ==
  /\ r \in restarting
  /\ restarting' = restarting \ {r}
  /\ polling' = polling \cup {r}
  /\ UNCHANGED <<called, listening, refocus, outcome, popupVars, windowVars, heard, doubled, chatter>>

-----------------------------------------------------------------------------
(* The messages: one event runs every listener before anything else. *)

\* No timer is set.
RestartLater_Never == UNCHANGED restarting

\* Each listener stops its interval, and has it start again in a second.
RestartLater == restarting' = restarting \cup listening

Delivered(w) == mail[w] # <<>> /\ mail' = [mail EXCEPT ![w] = Tail(@)]

\* The listener that hears READY hands over the oldest request only.
DeliverReady_FirstOnly(w) ==
  /\ Delivered(w) /\ Head(mail[w]).type = "READY"
  /\ RestartLater
  /\ polling' = polling \cup listening
  /\ IF listening = {}
     THEN UNCHANGED <<popupReady, heard, inbox, given>>
     ELSE /\ popupReady' = TRUE /\ heard' = heard \cup {w}
          /\ \E r \in listening : Post({r})
  /\ UNCHANGED <<called, listening, refocus, outcome, popup, modal, window, doubled, chatter>>

\* READY: every listener marks the popup ready and hands it its own request.
DeliverReady(w) ==
  /\ Delivered(w) /\ Head(mail[w]).type = "READY"
  /\ RestartLater
  /\ polling' = polling \cup listening
  /\ IF listening = {}
     THEN UNCHANGED <<popupReady, heard, inbox, given>>
     ELSE popupReady' = TRUE /\ heard' = heard \cup {w} /\ Post(listening)
  /\ UNCHANGED <<called, listening, refocus, outcome, popup, modal, window, doubled, chatter>>

\* RESPONSE: every listener goes and settles its own promise with it.
DeliverResponse(w) ==
  /\ Delivered(w) /\ Head(mail[w]).type = "RESPONSE"
  /\ RestartLater
  /\ polling' = polling \ listening
  /\ listening' = {}
  /\ refocus' = refocus \ listening
  /\ LET answer == Head(mail[w]).answer
     IN  outcome' = [r \in Requests |->
           IF r \in listening /\ outcome[r] = "pending"
           THEN IF answer = "result" THEN "resolved" ELSE answer
           ELSE outcome[r]]
  /\ UNCHANGED <<called, popupVars, window, inbox, given, heard, doubled, chatter>>

\* An EVENT that names one starts the intervals at once; no other message does.
Chatter ==
  /\ listening # {} /\ chatter < MaxChatter
  /\ chatter' = chatter + 1
  /\ RestartLater
  /\ polling' \in {polling \cup listening, polling \ listening}
  /\ UNCHANGED <<called, listening, refocus, outcome, popupVars, windowVars, heard, doubled>>

-----------------------------------------------------------------------------
(* The popup's own program, as docs/identity/architecture.md tells it. *)

Says(w, message) == mail' = [mail EXCEPT ![w] = Append(@, message)]

ComesUp(w) ==
  /\ window[w] = "loading"
  /\ window' = [window EXCEPT ![w] = "up"]
  /\ Says(w, Ready)
  /\ UNCHANGED <<requestVars, popupVars, inbox, given, heard, doubled, chatter>>

\* It answers a request, or gives one up for another it has been handed.
Answers(w) ==
  /\ window[w] = "up"
  /\ \E r \in inbox[w] :
       /\ \/ \E answer \in {"result", "error"} : Says(w, Response(r, answer))
          \/ inbox[w] # {r} /\ Says(w, Response(r, "overridden"))
       /\ inbox' = [inbox EXCEPT ![w] = @ \ {r}]
  /\ UNCHANGED <<requestVars, popupVars, window, given, heard, doubled, chatter>>

\* The user closes it, or it closes itself.
Closes(w) ==
  /\ window[w] \in {"loading", "up"}
  /\ window' = [window EXCEPT ![w] = "closed"]
  /\ inbox' = [inbox EXCEPT ![w] = {}] /\ given' = [given EXCEPT ![w] = {}]
  /\ UNCHANGED <<requestVars, popupVars, mail, heard, doubled, chatter>>

-----------------------------------------------------------------------------
Next ==
  \/ \E r \in Requests : PopupRequest(r) \/ Tick(r) \/ RestartFires(r)
  \/ ModalContinue \/ RefocusContinue \/ Chatter
  \/ \E w \in Windows : DeliverReady(w) \/ DeliverResponse(w)
                          \/ ComesUp(w) \/ Answers(w) \/ Closes(w)

\* The page's timers fire and its messages are delivered; a window or a user need do nothing.
Fairness ==
  /\ \A r \in Requests : WF_vars(Tick(r)) /\ WF_vars(RestartFires(r))
  /\ \A w \in Windows : WF_vars(DeliverReady(w)) /\ WF_vars(DeliverResponse(w))

Spec == Init /\ [][Next]_vars
FairSpec == Spec /\ Fairness

-----------------------------------------------------------------------------
(* Safety. *)

\* Once a listener has heard its READY, the popup has been handed every request that waits
\* for an answer, whichever call opened it and however often it was reopened (popup.ts:93-102,
\* 163-171).
HandedOver ==
  IsPopupOpen /\ popup \in heard => listening \subseteq given[popup]

\* A request that waits for an answer is always polled, or will be again within a second: no
\* run of messages leaves it without anyone to see the popup close (popup.ts:157-162).
AlwaysPolled == listening \subseteq polling \cup restarting

\* A settled request has neither listener nor refocus prompt, however it was settled.
SettledIsSilent ==
  \A r \in Requests : outcome[r] # "pending" => r \notin listening \cup refocus

\* Two popups are never open at once, unless the prompt for a blocked popup outlived the
\* block: its Continue alone opens a popup without a look at the one there is
\* (popup.ts:75-79, 93-113, 122-124).
OnePopup == Cardinality({w \in Windows : IsOpen(w)}) > 1 => doubled

\* A popup that is closed, with no prompt to open another, ends the requests that wait for it
\* and every interval, those that messages started again for settled requests too, once the
\* messages stop.
ClosedPopupEndsAll ==
  ~IsPopupOpen /\ ~modal ~>
    IsPopupOpen \/ modal \/ listening \cup polling \cup restarting = {}

-----------------------------------------------------------------------------
(* The inductive invariant. *)

\* Nothing of the request runs, and its promise is not settled.
Idle(r) == outcome[r] = "pending" /\ r \notin listening \cup polling \cup restarting \cup refocus

\* A request is idle until it is made.
UncalledIsIdle == \A r \in Requests \ called : Idle(r)

\* Only a window that has come up posts, or has been heard.
OnlyTheUpSpeak ==
  \A w \in Windows : mail[w] # <<>> \/ w \in heard => window[w] \in {"up", "closed"}

\* The module knows of every open window, until Continue has opened a second.
KnowsItsPopup == \A w \in Windows : IsOpen(w) => w = popup \/ doubled

IInv ==
  /\ TypeOK /\ UncalledIsIdle /\ OnlyTheUpSpeak /\ KnowsItsPopup
  /\ HandedOver /\ AlwaysPolled /\ SettledIsSilent
=============================================================================
