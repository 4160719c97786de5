---------------------------- MODULE PopupProofs -----------------------------
(***************************************************************************)
(* Popup for every set of requests and any number of windows, and          *)
(* PromiEvent, which each request answers with, for every set of listeners *)
(* whichever of them throw: the inductive invariants IInv and PromiIInv,   *)
(* what they imply, and that a PromiEvent is a promise (Await).            *)
(***************************************************************************)
EXTENDS Popup, PromiEvent, FiniteSetTheorems, TLAPS

-----------------------------------------------------------------------------
(* The popup. *)

\* The step opens a window, blocks it, or is one of the others.
LEMMA OpenPopupTypes ==
  ASSUME TypeOK, OpenPopup
  PROVE  /\ popup' \in Windows \cup {None} /\ popupReady' = FALSE
         /\ window' \in [Windows -> {"none", "loading", "up", "closed"}]
         /\ \A w \in Windows : window[w] # "none" => window'[w] = window[w] /\ w # popup'
         /\ \A w \in Windows : window'[w] # window[w] => window'[w] = "loading" /\ w = popup'
         /\ popup' # None => window[popup'] = "none" /\ window'[popup'] = "loading"
<1>1. CASE SetPopup(None) /\ UNCHANGED window
  BY <1>1 DEF SetPopup, TypeOK, None, Windows
<1>2. CASE \E w \in Windows : /\ window[w] = "none" /\ SetPopup(w)
                              /\ window' = [window EXCEPT ![w] = "loading"]
  BY <1>2 DEF SetPopup, TypeOK, None
<1>3. QED
  BY <1>1, <1>2 DEF OpenPopup

\* What Post changes: the popup that is up has been handed rs.
LEMMA PostTypes ==
  ASSUME TypeOK, NEW rs \in SUBSET Requests, Post(rs)
  PROVE  /\ inbox' \in [Windows -> SUBSET Requests] /\ given' \in [Windows -> SUBSET Requests]
         /\ \A w \in Windows : given[w] \subseteq given'[w]
         /\ popup # None /\ window[popup] = "up" => rs \subseteq given'[popup]
<1>1. CASE popup # None /\ window[popup] = "up"
  <2>1. popup \in Windows
    BY <1>1 DEF TypeOK
  <2>2. /\ inbox' = [inbox EXCEPT ![popup] = @ \cup rs]
        /\ given' = [given EXCEPT ![popup] = @ \cup rs]
    BY <1>1 DEF Post
  <2>3. inbox' \in [Windows -> SUBSET Requests] /\ given' \in [Windows -> SUBSET Requests]
    BY <2>1, <2>2 DEF TypeOK
  <2>4. given'[popup] = given[popup] \cup rs
    BY <2>1, <2>2 DEF TypeOK
  <2>5. \A w \in Windows : w # popup => given'[w] = given[w]
    BY <2>2 DEF TypeOK
  <2>6. QED
    BY <2>3, <2>4, <2>5
<1>2. CASE ~(popup # None /\ window[popup] = "up")
  BY <1>2 DEF Post, TypeOK
<1>3. QED
  BY <1>1, <1>2

\* A window posts a message; the page takes the oldest.
LEMMA SaysTypes ==
  ASSUME NEW w \in Windows, mail \in [Windows -> Seq(Mail)], NEW message \in Mail,
         Says(w, message)
  PROVE  /\ mail' \in [Windows -> Seq(Mail)]
         /\ \A v \in Windows : v # w => mail'[v] = mail[v]
BY DEF Says

LEMMA DeliveredTypes ==
  ASSUME NEW w \in Windows, mail \in [Windows -> Seq(Mail)], Delivered(w)
  PROVE  /\ mail' \in [Windows -> Seq(Mail)]
         /\ mail[w] # <<>> /\ Head(mail[w]) \in Mail
         /\ \A v \in Windows : mail'[v] # <<>> => mail[v] # <<>>
<1>1. mail[w] \in Seq(Mail) /\ mail[w] # <<>>
  BY DEF Delivered
<1>2. Tail(mail[w]) \in Seq(Mail) /\ Head(mail[w]) \in Mail
  BY <1>1
<1>3. QED
  BY <1>1, <1>2 DEF Delivered

-----------------------------------------------------------------------------
(* Every step keeps the types. *)

LEMMA InitIInv == Init => IInv
<1> SUFFICES ASSUME Init PROVE IInv
  OBVIOUS
<1>1. TypeOK
  <2>1. mail \in [Windows -> Seq(Mail)]
    BY DEF Init
  <2>2. chatter \in 0..MaxChatter
    BY PopupAssumption DEF Init
  <2>3. window \in [Windows -> {"none", "loading", "up", "closed"}]
    BY DEF Init
  <2>4. inbox \in [Windows -> SUBSET Requests] /\ given \in [Windows -> SUBSET Requests]
    BY DEF Init
  <2>5. outcome \in [Requests -> {"pending", "resolved"} \cup Reasons]
    BY DEF Init
  <2>6. QED
    BY <2>1, <2>2, <2>3, <2>4, <2>5 DEF Init, TypeOK
<1>2. UncalledIsIdle /\ OnlyTheUpSpeak /\ KnowsItsPopup
  BY DEF Init, UncalledIsIdle, Idle, OnlyTheUpSpeak, KnowsItsPopup, IsOpen
<1>3. HandedOver /\ AlwaysPolled /\ SettledIsSilent
  BY DEF Init, HandedOver, AlwaysPolled, SettledIsSilent
<1>4. QED
  BY <1>1, <1>2, <1>3 DEF IInv

LEMMA StepTypeOK == IInv /\ [Next]_vars => TypeOK'
<1> SUFFICES ASSUME IInv, [Next]_vars PROVE TypeOK'
  OBVIOUS
<1>0. TypeOK
  BY DEF IInv
<1> USE DEF requestVars, popupVars, windowVars
<1>1. ASSUME NEW r \in Requests, PopupRequest(r) PROVE TypeOK'
  <2>0. UNCHANGED <<mail, heard, doubled, chatter>> /\ called' \subseteq Requests
    BY <1>0, <1>1 DEF PopupRequest, TypeOK
  <2>1. CASE JoinPopup(r)
    <3>1. inbox' \in [Windows -> SUBSET Requests] /\ given' \in [Windows -> SUBSET Requests]
      BY <1>0, <2>1, PostTypes DEF JoinPopup
    <3>2. QED
      BY <1>0, <2>0, <2>1, <3>1 DEF JoinPopup, Listen, TypeOK
  <2>2. CASE TurnAway(r)
    BY <1>0, <2>0, <2>2 DEF TurnAway, TypeOK, Reasons
  <2>3. CASE OpenOwnPopup(r)
    <3>1. /\ popup' \in Windows \cup {None} /\ popupReady' = FALSE
          /\ window' \in [Windows -> {"none", "loading", "up", "closed"}]
      BY <1>0, <2>3, OpenPopupTypes DEF OpenOwnPopup
    <3>2. modal' \in BOOLEAN /\ refocus' \subseteq Requests
      BY <1>0, <2>3 DEF OpenOwnPopup, TypeOK
    <3>3. QED
      BY <1>0, <2>0, <2>3, <3>1, <3>2 DEF OpenOwnPopup, Listen, TypeOK
  <2>4. QED
    BY <1>1, <2>1, <2>2, <2>3 DEF PopupRequest
<1>2. ASSUME NEW r \in Requests, Tick(r) PROVE TypeOK'
  <2>1. outcome' \in [Requests -> {"pending", "resolved"} \cup Reasons]
    BY <1>0, <1>2 DEF Tick, TypeOK, Reasons
  <2>2. QED
    BY <1>0, <1>2, <2>1 DEF Tick, SetPopup, TypeOK
<1>3. ASSUME NEW r \in Requests, RestartFires(r) PROVE TypeOK'
  BY <1>0, <1>3 DEF RestartFires, TypeOK
<1>4. CASE ModalContinue
  <2>1. /\ popup' \in Windows \cup {None} /\ popupReady' = FALSE
        /\ window' \in [Windows -> {"none", "loading", "up", "closed"}]
    BY <1>0, <1>4, OpenPopupTypes DEF ModalContinue
  <2>2. doubled' \in BOOLEAN
    BY <1>0, <1>4 DEF ModalContinue, TypeOK
  <2>3. QED
    BY <1>0, <1>4, <2>1, <2>2 DEF ModalContinue, TypeOK
<1>5. CASE RefocusContinue
  <2>1. /\ popup' \in Windows \cup {None} /\ popupReady' = FALSE
        /\ window' \in [Windows -> {"none", "loading", "up", "closed"}]
    BY <1>0, <1>5, OpenPopupTypes DEF RefocusContinue
  <2>2. QED
    BY <1>0, <1>5, <2>1 DEF RefocusContinue, TypeOK
<1>6. CASE Chatter
  <2>1. chatter' \in 0..MaxChatter
    BY <1>0, <1>6, PopupAssumption DEF Chatter, TypeOK
  <2>2. QED
    BY <1>0, <1>6, <2>1 DEF Chatter, RestartLater, TypeOK
<1>7. ASSUME NEW w \in Windows, DeliverReady(w) PROVE TypeOK'
  <2>1. mail' \in [Windows -> Seq(Mail)]
    <3>1. Delivered(w) /\ mail \in [Windows -> Seq(Mail)]
      BY <1>0, <1>7 DEF DeliverReady, TypeOK
    <3>2. QED
      BY <3>1, DeliveredTypes
  <2>2. /\ inbox' \in [Windows -> SUBSET Requests] /\ given' \in [Windows -> SUBSET Requests]
        /\ popupReady' \in BOOLEAN /\ heard' \subseteq Windows
    <3>1. CASE listening = {}
      BY <1>0, <1>7, <3>1 DEF DeliverReady, TypeOK
    <3>2. CASE listening # {}
      <4>1. Post(listening) /\ listening \in SUBSET Requests
        BY <1>0, <1>7, <3>2 DEF DeliverReady, TypeOK
      <4>2. QED
        BY <1>0, <1>7, <3>2, <4>1, PostTypes DEF DeliverReady, TypeOK
    <3>3. QED
      BY <3>1, <3>2
  <2>3. QED
    BY <1>0, <1>7, <2>1, <2>2 DEF DeliverReady, RestartLater, TypeOK
<1>8. ASSUME NEW w \in Windows, DeliverResponse(w) PROVE TypeOK'
  <2>1. mail' \in [Windows -> Seq(Mail)] /\ Head(mail[w]) \in Mail
    BY <1>0, <1>8, DeliveredTypes DEF DeliverResponse, TypeOK, Mail
  <2>2. Head(mail[w]).answer \in Errors \cup {"result"}
    BY <1>8, <2>1 DEF DeliverResponse, Mail, Ready, Response
  <2>3. outcome' \in [Requests -> {"pending", "resolved"} \cup Reasons]
    BY <1>0, <1>8, <2>2 DEF DeliverResponse, TypeOK, Reasons
  <2>4. QED
    BY <1>0, <1>8, <2>1, <2>3 DEF DeliverResponse, RestartLater, TypeOK
<1>9. ASSUME NEW w \in Windows, ComesUp(w) PROVE TypeOK'
  <2>1. mail' \in [Windows -> Seq(Mail)]
    <3>1. mail \in [Windows -> Seq(Mail)]
      BY <1>0 DEF TypeOK
    <3>2. Ready \in Mail /\ Says(w, Ready)
      BY <1>9 DEF ComesUp, Mail
    <3>3. QED
      BY <3>1, <3>2, SaysTypes
  <2>2. QED
    BY <1>0, <1>9, <2>1 DEF ComesUp, TypeOK
<1>10. ASSUME NEW w \in Windows, Answers(w) PROVE TypeOK'
  <2>1. mail' \in [Windows -> Seq(Mail)]
    <3>1. PICK r \in Requests, answer \in Errors \cup {"result"} : Says(w, Response(r, answer))
      BY <1>0, <1>10 DEF Answers, TypeOK, Errors
    <3>2. Response(r, answer) \in Mail
      BY DEF Mail
    <3>3. QED
      BY <1>0, <3>1, <3>2, SaysTypes DEF TypeOK
  <2>2. inbox' \in [Windows -> SUBSET Requests]
    BY <1>0, <1>10 DEF Answers, TypeOK
  <2>3. QED
    BY <1>0, <1>10, <2>1, <2>2 DEF Answers, TypeOK
<1>11. ASSUME NEW w \in Windows, Closes(w) PROVE TypeOK'
  BY <1>0, <1>11 DEF Closes, TypeOK
<1>12. CASE UNCHANGED vars
  BY <1>0, <1>12 DEF vars, TypeOK
<1>13. QED
  BY <1>1, <1>2, <1>3, <1>4, <1>5, <1>6, <1>7, <1>8, <1>9, <1>10, <1>11, <1>12 DEF Next

-----------------------------------------------------------------------------
(* Every step keeps the rest of the invariant. *)

\* The steps of the page's requests and messages, one by one.
LEMMA StepUncalled == IInv /\ [Next]_vars => UncalledIsIdle'
<1> SUFFICES ASSUME IInv, [Next]_vars, NEW s \in Requests, s \notin called'
             PROVE  Idle(s)'
  BY DEF UncalledIsIdle, Idle
<1> USE DEF Idle, requestVars, popupVars, windowVars
<1>1. called \subseteq called'
  BY DEF Next, vars, PopupRequest, Tick, RestartFires, ModalContinue, RefocusContinue,
     Chatter, DeliverReady, DeliverResponse, ComesUp, Answers, Closes
<1>0. /\ TypeOK
      /\ Idle(s)
  BY <1>1 DEF IInv, UncalledIsIdle
<1>2. ASSUME NEW r \in Requests, PopupRequest(r)
      PROVE  Idle(s)'
  <2>1. r # s
    BY <1>2 DEF PopupRequest
  <2>2. QED
    BY <1>0, <1>2, <2>1 DEF PopupRequest, JoinPopup, TurnAway, OpenOwnPopup, Listen, TypeOK
<1>3. ASSUME NEW r \in Requests, Tick(r) \/ RestartFires(r)
      PROVE  Idle(s)'
  BY <1>0, <1>3 DEF Tick, RestartFires, TypeOK
<1>4. CASE ModalContinue \/ RefocusContinue \/ Chatter \/ UNCHANGED vars
  BY <1>0, <1>4 DEF ModalContinue, RefocusContinue, Chatter, RestartLater, vars
<1>5. ASSUME NEW w \in Windows, DeliverReady(w) \/ DeliverResponse(w)
      PROVE  Idle(s)'
  BY <1>0, <1>5 DEF DeliverReady, DeliverResponse, RestartLater
<1>6. ASSUME NEW w \in Windows, ComesUp(w) \/ Answers(w) \/ Closes(w)
      PROVE  Idle(s)'
  BY <1>0, <1>6 DEF ComesUp, Answers, Closes
<1>7. QED
  BY <1>2, <1>3, <1>4, <1>5, <1>6 DEF Next

LEMMA StepSpeak == IInv /\ [Next]_vars => OnlyTheUpSpeak'
<1> SUFFICES ASSUME IInv, [Next]_vars, NEW v \in Windows, mail'[v] # <<>> \/ v \in heard'
             PROVE  window'[v] \in {"up", "closed"}
  BY DEF OnlyTheUpSpeak
<1>0. /\ TypeOK
      /\ mail[v] # <<>> \/ v \in heard => window[v] \in {"up", "closed"}
  BY DEF IInv, OnlyTheUpSpeak
<1> USE DEF requestVars, popupVars, windowVars
<1>1. ASSUME NEW r \in Requests, PopupRequest(r) PROVE window'[v] \in {"up", "closed"}
  <2>1. window[v] \in {"up", "closed"}
    BY <1>0, <1>1 DEF PopupRequest
  <2>2. UNCHANGED window \/ OpenPopup
    BY <1>1 DEF PopupRequest, JoinPopup, TurnAway, OpenOwnPopup
  <2>3. QED
    BY <1>0, <2>1, <2>2, OpenPopupTypes
<1>2. CASE ModalContinue \/ RefocusContinue
  <2>1. OpenPopup /\ window[v] \in {"up", "closed"}
    BY <1>0, <1>2 DEF ModalContinue, RefocusContinue
  <2>2. QED
    BY <1>0, <2>1, OpenPopupTypes
<1>3. ASSUME NEW r \in Requests, Tick(r) \/ RestartFires(r)
      PROVE  window'[v] \in {"up", "closed"}
  BY <1>0, <1>3 DEF Tick, RestartFires
<1>4. CASE Chatter \/ UNCHANGED vars
  BY <1>0, <1>4 DEF Chatter, vars
<1>5. ASSUME NEW w \in Windows, DeliverReady(w) \/ DeliverResponse(w)
      PROVE  window'[v] \in {"up", "closed"}
  <2>1. Delivered(w) /\ UNCHANGED window /\ heard' \subseteq heard \cup {w}
    BY <1>5 DEF DeliverReady, DeliverResponse
  <2>2. mail[w] # <<>> /\ (mail'[v] # <<>> => mail[v] # <<>>)
    BY <1>0, <2>1, DeliveredTypes DEF TypeOK
  <2>3. QED
    BY <1>0, <2>1, <2>2
<1>6. ASSUME NEW w \in Windows, ComesUp(w) \/ Answers(w)
      PROVE  window'[v] \in {"up", "closed"}
  <2>1. UNCHANGED heard /\ window'[w] = "up" /\ (v # w => window'[v] = window[v])
    BY <1>0, <1>6 DEF ComesUp, Answers, TypeOK
  <2>2. v # w => mail'[v] = mail[v]
    BY <1>0, <1>6 DEF ComesUp, Answers, Says, TypeOK
  <2>3. QED
    BY <1>0, <2>1, <2>2
<1>7. ASSUME NEW w \in Windows, Closes(w) PROVE window'[v] \in {"up", "closed"}
  BY <1>0, <1>7 DEF Closes, TypeOK
<1>8. QED
  BY <1>1, <1>2, <1>3, <1>4, <1>5, <1>6, <1>7 DEF Next

LEMMA StepKnows == IInv /\ [Next]_vars => KnowsItsPopup'
<1> SUFFICES ASSUME IInv, [Next]_vars, NEW v \in Windows, IsOpen(v)'
             PROVE  v = popup' \/ doubled'
  BY DEF KnowsItsPopup, IsOpen
<1>0. TypeOK /\ (IsOpen(v) => v = popup \/ doubled)
  BY DEF IInv, KnowsItsPopup
<1> USE DEF requestVars, popupVars, windowVars
<1>1. ASSUME OpenPopup, IsPopupOpen => doubled', doubled => doubled'
      PROVE  v = popup' \/ doubled'
  <2>1. CASE window[v] = "none"
    BY <1>0, <1>1, <2>1, OpenPopupTypes DEF IsOpen
  <2>2. CASE window[v] # "none"
    <3>1. IsOpen(v)
      BY <1>0, <1>1, <2>2, OpenPopupTypes DEF IsOpen
    <3>2. QED
      BY <1>0, <1>1, <3>1 DEF IsPopupOpen
  <2>3. QED
    BY <2>1, <2>2
<1>2. ASSUME NEW r \in Requests, PopupRequest(r) PROVE v = popup' \/ doubled'
  <2>1. CASE OpenOwnPopup(r)
    BY <1>1, <1>2, <2>1 DEF PopupRequest, OpenOwnPopup
  <2>2. CASE JoinPopup(r) \/ TurnAway(r)
    BY <1>0, <1>2, <2>2 DEF PopupRequest, JoinPopup, TurnAway, IsOpen
  <2>3. QED
    BY <1>2, <2>1, <2>2 DEF PopupRequest
<1>3. ASSUME NEW r \in Requests, Tick(r) PROVE v = popup' \/ doubled'
  <2>1. IsOpen(v) /\ UNCHANGED doubled /\ ~IsPopupOpen
    BY <1>3 DEF Tick, IsOpen
  <2>2. QED
    BY <1>0, <2>1 DEF IsPopupOpen
<1>4. CASE ModalContinue \/ RefocusContinue
  <2>1. OpenPopup /\ (IsPopupOpen => doubled') /\ (doubled => doubled')
    BY <1>0, <1>4 DEF ModalContinue, RefocusContinue, TypeOK
  <2>2. QED
    BY <1>1, <2>1
<1>5. CASE Chatter \/ UNCHANGED vars \/ \E r \in Requests : RestartFires(r)
  BY <1>0, <1>5 DEF Chatter, vars, RestartFires, IsOpen
<1>6. ASSUME NEW w \in Windows, \/ DeliverReady(w) \/ DeliverResponse(w) \/ ComesUp(w)
                                \/ Answers(w) \/ Closes(w)
      PROVE  v = popup' \/ doubled'
  <2>1. UNCHANGED <<popup, doubled>>
    BY <1>6 DEF DeliverReady, DeliverResponse, ComesUp, Answers, Closes
  <2>2. IsOpen(v)
    BY <1>0, <1>6 DEF DeliverReady, DeliverResponse, ComesUp, Answers, Closes, IsOpen, TypeOK
  <2>3. QED
    BY <1>0, <2>1, <2>2
<1>7. QED
  BY <1>2, <1>3, <1>4, <1>5, <1>6 DEF Next

\* Whoever listens to an open popup that has been heard has handed it the request.
LEMMA StepHanded == IInv /\ [Next]_vars => HandedOver'
<1> SUFFICES ASSUME IInv, [Next]_vars, IsPopupOpen', popup' \in heard'
             PROVE  listening' \subseteq given'[popup']
  BY DEF HandedOver
<1>0. TypeOK /\ HandedOver /\ OnlyTheUpSpeak
  BY DEF IInv
<1> USE DEF requestVars, popupVars, windowVars
<1>1. ASSUME OpenPopup, UNCHANGED heard PROVE FALSE
  <2>1. popup' \in Windows /\ window[popup'] = "none"
    BY <1>0, <1>1, OpenPopupTypes DEF IsPopupOpen, IsOpen
  <2>2. QED
    BY <1>0, <1>1, <2>1 DEF OnlyTheUpSpeak
<1>2. ASSUME UNCHANGED <<popup, heard>>, popup \in heard, IsPopupOpen
      PROVE  /\ popup \in Windows /\ popup # None /\ window[popup] = "up"
             /\ listening \subseteq given[popup]
  BY <1>0, <1>2 DEF IsPopupOpen, IsOpen, TypeOK, OnlyTheUpSpeak, HandedOver
<1>3. ASSUME NEW r \in Requests, PopupRequest(r)
      PROVE  listening' \subseteq given'[popup']
  <2>1. CASE JoinPopup(r)
    <3>1. UNCHANGED <<popup, heard>> /\ popup \in heard /\ IsPopupOpen
      BY <1>3, <2>1 DEF PopupRequest, JoinPopup
    <3>2. {r} \subseteq given'[popup] /\ given[popup] \subseteq given'[popup]
      BY <1>0, <1>2, <2>1, <3>1, PostTypes DEF JoinPopup
    <3>3. QED
      BY <1>2, <2>1, <3>1, <3>2 DEF JoinPopup, Listen
  <2>2. CASE TurnAway(r)
    BY <1>2, <1>3, <2>2 DEF PopupRequest, TurnAway, IsPopupOpen, IsOpen
  <2>3. CASE OpenOwnPopup(r)
    BY <1>1, <1>3, <2>3 DEF PopupRequest, OpenOwnPopup
  <2>4. QED
    BY <1>3, <2>1, <2>2, <2>3 DEF PopupRequest
<1>4. ASSUME NEW r \in Requests, Tick(r) PROVE listening' \subseteq given'[popup']
  BY <1>4 DEF Tick, SetPopup, IsPopupOpen, IsOpen
<1>5. CASE ModalContinue \/ RefocusContinue
  BY <1>1, <1>5 DEF ModalContinue, RefocusContinue
<1>6. CASE Chatter \/ UNCHANGED vars \/ \E r \in Requests : RestartFires(r)
  BY <1>2, <1>6 DEF Chatter, vars, RestartFires, IsPopupOpen, IsOpen
<1>7. ASSUME NEW w \in Windows, DeliverReady(w) PROVE listening' \subseteq given'[popup']
  <2>1. UNCHANGED <<listening, popup, window>> /\ IsPopupOpen
    BY <1>7 DEF DeliverReady, IsPopupOpen, IsOpen
  <2>2. CASE listening = {}
    BY <2>1, <2>2
  <2>3. CASE listening # {}
    <3>1. Post(listening) /\ heard' = heard \cup {w}
      BY <1>7, <2>3 DEF DeliverReady
    <3>2. mail[w] # <<>>
      BY <1>7 DEF DeliverReady, Delivered
    <3>3. popup \in Windows /\ popup # None /\ window[popup] \in {"up", "closed"}
      BY <1>0, <2>1, <3>1, <3>2 DEF OnlyTheUpSpeak, IsPopupOpen, IsOpen, TypeOK
    <3>4. window[popup] = "up"
      BY <2>1, <3>3 DEF IsPopupOpen, IsOpen
    <3>5. QED
      BY <1>0, <2>1, <3>1, <3>3, <3>4, PostTypes DEF TypeOK
  <2>4. QED
    BY <2>2, <2>3
<1>8. ASSUME NEW w \in Windows, DeliverResponse(w) PROVE listening' \subseteq given'[popup']
  BY <1>8 DEF DeliverResponse
<1>9. ASSUME NEW w \in Windows, ComesUp(w) \/ Answers(w)
      PROVE  listening' \subseteq given'[popup']
  <2>1. UNCHANGED <<popup, heard, listening, given>> /\ IsPopupOpen
    BY <1>0, <1>9 DEF ComesUp, Answers, IsPopupOpen, IsOpen, TypeOK
  <2>2. QED
    BY <1>2, <2>1
<1>10. ASSUME NEW w \in Windows, Closes(w) PROVE listening' \subseteq given'[popup']
  <2>1. UNCHANGED <<popup, heard, listening>> /\ IsPopupOpen /\ popup # w
    BY <1>0, <1>10 DEF Closes, IsPopupOpen, IsOpen, TypeOK
  <2>2. given'[popup] = given[popup]
    BY <1>0, <1>2, <1>10, <2>1 DEF Closes, TypeOK
  <2>3. QED
    BY <1>2, <2>1, <2>2
<1>11. QED
  BY <1>3, <1>4, <1>5, <1>6, <1>7, <1>8, <1>9, <1>10 DEF Next

LEMMA StepPolled == IInv /\ [Next]_vars => AlwaysPolled'
<1> SUFFICES ASSUME IInv, [Next]_vars PROVE AlwaysPolled'
  OBVIOUS
<1> USE DEF IInv, AlwaysPolled, requestVars, popupVars, windowVars
<1>1. ASSUME NEW r \in Requests, PopupRequest(r) \/ Tick(r) \/ RestartFires(r)
      PROVE  AlwaysPolled'
  BY <1>1 DEF PopupRequest, JoinPopup, TurnAway, OpenOwnPopup, Listen, Tick, RestartFires
<1>2. CASE ModalContinue \/ RefocusContinue \/ Chatter \/ UNCHANGED vars
  BY <1>2 DEF ModalContinue, RefocusContinue, Chatter, RestartLater, vars
<1>3. ASSUME NEW w \in Windows, \/ DeliverReady(w) \/ DeliverResponse(w) \/ ComesUp(w)
                                \/ Answers(w) \/ Closes(w)
      PROVE  AlwaysPolled'
  BY <1>3 DEF DeliverReady, DeliverResponse, RestartLater, ComesUp, Answers, Closes
<1>4. QED
  BY <1>1, <1>2, <1>3 DEF Next

LEMMA StepSilent == IInv /\ [Next]_vars => SettledIsSilent'
<1> SUFFICES ASSUME IInv, [Next]_vars, NEW s \in Requests, outcome'[s] # "pending"
             PROVE  s \notin listening' \cup refocus'
  BY DEF SettledIsSilent
<1>0. TypeOK /\ (outcome[s] # "pending" => s \notin listening \cup refocus)
  BY DEF IInv, SettledIsSilent
<1> USE DEF requestVars, popupVars, windowVars
<1>1. ASSUME NEW r \in Requests, PopupRequest(r) PROVE s \notin listening' \cup refocus'
  <2>1. Idle(r)
    BY <1>1 DEF IInv, UncalledIsIdle, PopupRequest
  <2>2. CASE JoinPopup(r) \/ OpenOwnPopup(r)
    BY <1>0, <2>1, <2>2 DEF Idle, JoinPopup, OpenOwnPopup, Listen
  <2>3. CASE TurnAway(r)
    BY <1>0, <2>1, <2>3 DEF Idle, TurnAway, TypeOK
  <2>4. QED
    BY <1>1, <2>2, <2>3 DEF PopupRequest
<1>2. ASSUME NEW r \in Requests, Tick(r) \/ RestartFires(r)
      PROVE  s \notin listening' \cup refocus'
  BY <1>0, <1>2 DEF Tick, RestartFires, TypeOK
<1>3. CASE ModalContinue \/ RefocusContinue \/ Chatter \/ UNCHANGED vars
  BY <1>0, <1>3 DEF ModalContinue, RefocusContinue, Chatter, vars
<1>4. ASSUME NEW w \in Windows, DeliverResponse(w) PROVE s \notin listening' \cup refocus'
  BY <1>0, <1>4 DEF DeliverResponse
<1>5. ASSUME NEW w \in Windows, DeliverReady(w) \/ ComesUp(w) \/ Answers(w) \/ Closes(w)
      PROVE  s \notin listening' \cup refocus'
  BY <1>0, <1>5 DEF DeliverReady, ComesUp, Answers, Closes
<1>6. QED
  BY <1>1, <1>2, <1>3, <1>4, <1>5 DEF Next

-----------------------------------------------------------------------------
(* The theorems. *)

\* The inductive invariant holds however requests, windows, prompts, polls and messages
\* interleave (src/service/popup.ts:36-209).
THEOREM Invariance == Spec => []IInv
<1>1. IInv /\ [Next]_vars => IInv'
  <2> SUFFICES ASSUME IInv, [Next]_vars PROVE IInv'
    OBVIOUS
  <2>1. TypeOK'
    BY StepTypeOK
  <2>2. UncalledIsIdle' /\ OnlyTheUpSpeak' /\ KnowsItsPopup'
    BY StepUncalled, StepSpeak, StepKnows
  <2>3. HandedOver' /\ AlwaysPolled' /\ SettledIsSilent'
    BY StepHanded, StepPolled, StepSilent
  <2>4. QED
    BY <2>1, <2>2, <2>3 DEF IInv
<1>2. QED
  BY InitIInv, <1>1, PTL DEF Spec

\* The variables of every request, window and message keep their types.
THEOREM TypeInvariant == Spec => []TypeOK
<1>1. IInv => TypeOK
  BY DEF IInv
<1>2. QED
  BY <1>1, Invariance, PTL

\* A popup that has been heard has every waiting request (popup.ts:93-102, 163-171).
THEOREM EveryRequestIsHandedOver == Spec => []HandedOver
<1>1. IInv => HandedOver
  BY DEF IInv
<1>2. QED
  BY <1>1, Invariance, PTL

\* No message leaves a waiting request without its poll (popup.ts:157-162).
THEOREM NoRequestGoesUnpolled == Spec => []AlwaysPolled
<1>1. IInv => AlwaysPolled
  BY DEF IInv
<1>2. QED
  BY <1>1, Invariance, PTL

\* A settled request has neither listener nor refocus prompt (popup.ts:86-89, 144, 174).
THEOREM SettledRequestsAreSilent == Spec => []SettledIsSilent
<1>1. IInv => SettledIsSilent
  BY DEF IInv
<1>2. QED
  BY <1>1, Invariance, PTL

\* Only the Continue of a prompt that outlived its block opens a second popup
\* (popup.ts:122-124).
THEOREM OnePopupAtATime == Spec => []OnePopup
<1>1. IInv => OnePopup
  <2> SUFFICES ASSUME IInv, ~doubled
               PROVE  ~(Cardinality({w \in Windows : IsOpen(w)}) > 1)
    BY DEF OnePopup
  <2>1. {w \in Windows : IsOpen(w)} \subseteq {popup}
    BY DEF IInv, KnowsItsPopup
  <2>2. IsFiniteSet({popup}) /\ Cardinality({popup}) = 1
    BY FS_Singleton
  <2>3. /\ Cardinality({w \in Windows : IsOpen(w)}) <= 1
        /\ Cardinality({w \in Windows : IsOpen(w)}) \in Nat
    BY <2>1, <2>2, FS_Subset, FS_CardinalityType
  <2>4. QED
    BY <2>3
<1>2. QED
  BY <1>1, Invariance, PTL

-----------------------------------------------------------------------------
(* The PromiEvent. *)

ListenerStep == (\E l \in Listeners : AddListener(l) \/ RemoveListener(l)) \/ RemoveAllListeners
ExecutorStep == Resolve \/ Reject \/ ExecutorReturns \/ ExecutorThrows

LEMMA NextSteps == PromiNext => ListenerStep \/ ExecutorStep \/ React \/ AwaitAnswers
BY DEF PromiNext, ListenerStep, ExecutorStep

\* What emit calls is registered for the event.
LEMMA CalledListens == \A event : Called(event) \subseteq {l \in Listeners : Event[l] = event}
BY DEF Called, On

LEMMA InitPromiIInv == PromiInit => PromiIInv
<1> SUFFICES ASSUME PromiInit PROVE PromiIInv
  OBVIOUS
<1>1. PromiTypeOK
  BY PromiEventAssumption DEF PromiInit, PromiTypeOK, Off
<1>2. InOrder /\ SettledAfterOutcome /\ ListenersAgree
  BY DEF PromiInit, InOrder, SettledAfterOutcome, ListenersAgree
<1>3. QED
  BY <1>1, <1>2 DEF PromiIInv

\* Listeners come and go: nothing is told or settled by that.
LEMMA ListenersKeepPromiIInv == PromiIInv /\ ListenerStep => PromiIInv'
<1> SUFFICES ASSUME PromiIInv, ListenerStep PROVE PromiIInv'
  OBVIOUS
<1>0. PromiTypeOK /\ InOrder /\ SettledAfterOutcome /\ ListenersAgree
  BY DEF PromiIInv
<1>1. UNCHANGED <<executor, promise, result, told, notified>>
  BY DEF ListenerStep, AddListener, RemoveListener, RemoveAllListeners
<1>2. clock' \in 0..MaxOn /\ rank' \in [Listeners -> 0..clock']
  <2>1. ASSUME NEW l \in Listeners, AddListener(l)
        PROVE  clock' \in 0..MaxOn /\ rank' \in [Listeners -> 0..clock']
    <3>1. clock \in 0..MaxOn /\ rank \in [Listeners -> 0..clock]
      BY <1>0 DEF PromiTypeOK
    <3>2. clock < MaxOn /\ clock' = clock + 1 /\ rank' = [rank EXCEPT ![l] = clock + 1]
      BY <2>1 DEF AddListener
    <3>3. clock' \in 0..MaxOn /\ 0..clock \subseteq 0..clock' /\ clock + 1 \in 0..clock'
      BY <3>1, <3>2, PromiEventAssumption
    <3>4. rank \in [Listeners -> 0..clock']
      BY <3>1, <3>3
    <3>5. QED
      BY <3>2, <3>3, <3>4
  <2>2. ASSUME NEW l \in Listeners, RemoveListener(l)
        PROVE  clock' \in 0..MaxOn /\ rank' \in [Listeners -> 0..clock']
    BY <1>0, <2>2, PromiEventAssumption DEF RemoveListener, PromiTypeOK, Off
  <2>3. ASSUME RemoveAllListeners
        PROVE  clock' \in 0..MaxOn /\ rank' \in [Listeners -> 0..clock']
    BY <1>0, <2>3, PromiEventAssumption DEF RemoveAllListeners, PromiTypeOK, Off
  <2>4. QED
    BY <2>1, <2>2, <2>3 DEF ListenerStep
<1>3. PromiTypeOK'
  BY <1>0, <1>1, <1>2 DEF PromiTypeOK
<1>4. InOrder' /\ SettledAfterOutcome' /\ ListenersAgree'
  BY <1>0, <1>1 DEF InOrder, SettledAfterOutcome, ListenersAgree
<1>5. QED
  BY <1>3, <1>4 DEF PromiIInv

\* The executor settles its promise once.
LEMMA ExecutorKeepsPromiIInv == PromiIInv /\ ExecutorStep => PromiIInv'
<1> SUFFICES ASSUME PromiIInv, ExecutorStep PROVE PromiIInv'
  OBVIOUS
<1>0. PromiTypeOK /\ InOrder /\ SettledAfterOutcome /\ ListenersAgree
  BY DEF PromiIInv
<1>1. UNCHANGED <<rank, clock, result, told, notified>> /\ executor' \in {"running", "over"}
  BY <1>0 DEF ExecutorStep, Resolve, Reject, ExecutorReturns, ExecutorThrows, PromiTypeOK
<1>2. /\ promise # "pending" => promise' = promise
      /\ promise' \in {"pending", "resolved", "rejected"}
  BY <1>0 DEF ExecutorStep, Resolve, Reject, ExecutorReturns, ExecutorThrows, Settled, PromiTypeOK
<1>3. PromiTypeOK'
  BY <1>0, <1>1, <1>2 DEF PromiTypeOK
<1>4. InOrder'
  BY <1>0, <1>1, <1>2 DEF InOrder
<1>5. SettledAfterOutcome'
  BY <1>0, <1>1 DEF SettledAfterOutcome
<1>6. ListenersAgree'
  BY <1>0, <1>1, <1>2 DEF ListenersAgree, InOrder
<1>7. QED
  BY <1>3, <1>4, <1>5, <1>6 DEF PromiIInv

\* The reaction tells of the outcome the executor's promise has.
LEMMA ReactKeepsPromiIInv == PromiIInv /\ React => PromiIInv'
<1> SUFFICES ASSUME PromiIInv, React PROVE PromiIInv'
  OBVIOUS
<1>0. PromiTypeOK /\ InOrder /\ SettledAfterOutcome /\ ListenersAgree
  BY DEF PromiIInv
<1>1. UNCHANGED <<executor, promise, rank, clock, told>>
  BY DEF React
<1>2. PICK event \in {"done", "error"} :
        /\ event = IF promise = "resolved" THEN "done" ELSE "error"
        /\ Emits(event) /\ result' = Passes(event)
  BY DEF React
<1>3. promise \in {"resolved", "rejected"} /\ result = "pending" /\ told = "nothing" /\ notified = {}
  BY <1>0 DEF React, PromiTypeOK, InOrder, Outcomes
<1>4. result' \in {promise, "listener_error"}
  BY <1>2 DEF Passes
<1>5. \A l \in notified' : l \in Listeners /\ Event[l] \in {event, "settled"}
  BY <1>2, <1>3, CalledListens DEF Emits
<1>6. PromiTypeOK'
  BY <1>0, <1>1, <1>3, <1>4, <1>5 DEF PromiTypeOK, Outcomes
<1>7. InOrder'
  BY <1>1, <1>3, <1>4 DEF InOrder
<1>8. SettledAfterOutcome'
  <2>1. CASE Throws(event)
    <3>1. notified' = Called(event)
      BY <1>2, <1>3, <2>1 DEF Emits
    <3>2. QED
      BY <3>1, CalledListens DEF SettledAfterOutcome
  <2>2. CASE ~Throws(event)
    <3>1. notified' = Called(event) \cup Called("settled")
      BY <1>2, <1>3, <2>2 DEF Emits
    <3>2. QED
      BY <2>2, <3>1, CalledListens DEF SettledAfterOutcome, Throws
  <2>3. QED
    BY <2>1, <2>2
<1>9. ListenersAgree'
  BY <1>1, <1>2, <1>3, <1>5 DEF ListenersAgree
<1>10. QED
  BY <1>6, <1>7, <1>8, <1>9 DEF PromiIInv

\* The await gives on what the reaction has settled.
LEMMA AwaitKeepsPromiIInv == PromiIInv /\ AwaitAnswers => PromiIInv'
<1> SUFFICES ASSUME PromiIInv, AwaitAnswers PROVE PromiIInv'
  OBVIOUS
<1>0. PromiTypeOK /\ InOrder /\ SettledAfterOutcome /\ ListenersAgree
  BY DEF PromiIInv
<1>1. /\ UNCHANGED <<executor, promise, rank, clock, result, notified>>
      /\ result # "pending" /\ told' = result
  BY DEF AwaitAnswers
<1>2. result \in Outcomes
  BY <1>0, <1>1 DEF PromiTypeOK
<1>3. PromiTypeOK' /\ InOrder' /\ SettledAfterOutcome'
  BY <1>0, <1>1, <1>2 DEF PromiTypeOK, InOrder, SettledAfterOutcome, Outcomes
<1>4. ListenersAgree'
  BY <1>0, <1>1, <1>2 DEF ListenersAgree, InOrder, Outcomes
<1>5. QED
  BY <1>3, <1>4 DEF PromiIInv

\* Every step keeps PromiIInv.
LEMMA StepIInv == PromiIInv /\ [PromiNext]_promiVars => PromiIInv'
<1>1. PromiIInv /\ UNCHANGED promiVars => PromiIInv'
  BY DEF PromiIInv, PromiTypeOK, InOrder, SettledAfterOutcome, ListenersAgree, promiVars
<1>2. QED
  BY <1>1, NextSteps, ListenersKeepPromiIInv, ExecutorKeepsPromiIInv, ReactKeepsPromiIInv, AwaitKeepsPromiIInv

\* PromiIInv is inductive: listeners come and go, the executor settles once, the reaction runs
\* once, and the caller is answered after it.
THEOREM PromiInvariance == PromiSpec => []PromiIInv
BY InitPromiIInv, StepIInv, PTL DEF PromiSpec

\* Every variable keeps to its type.
THEOREM PromiTypes == PromiSpec => []PromiTypeOK
<1>1. PromiIInv => PromiTypeOK
  BY DEF PromiIInv
<1>2. QED
  BY <1>1, PromiInvariance, PTL

\* Whatever the executor does, listeners and caller are told of one outcome.
THEOREM OneOutcome == PromiSpec => []ListenersAgree
<1>1. PromiIInv => ListenersAgree
  BY DEF PromiIInv
<1>2. QED
  BY <1>1, PromiInvariance, PTL

\* A completion listener that throws keeps `settled` from being told, and no default event is
\* told once the caller's await has been answered.
THEOREM EventsThenAwait == PromiSpec => EventsInOrder
<1>1. PromiIInv /\ [PromiNext]_promiVars => SettledAfterOutcome'
  BY StepIInv DEF PromiIInv
<1>2. PromiIInv /\ [PromiNext]_promiVars =>
        [SettledAfterOutcome' /\ (told # "nothing" => UNCHANGED notified)]_promiVars
  <2>1. PromiIInv /\ React => told = "nothing"
    BY DEF PromiIInv, PromiTypeOK, Outcomes, InOrder, React
  <2>2. ListenerStep \/ ExecutorStep \/ AwaitAnswers => UNCHANGED notified
    BY DEF ListenerStep, AddListener, RemoveListener, RemoveAllListeners,
           ExecutorStep, Resolve, Reject, ExecutorReturns, ExecutorThrows, AwaitAnswers
  <2>3. QED
    BY <1>1, <2>1, <2>2, NextSteps
<1>3. QED
  BY <1>2, PromiInvariance, PTL DEF PromiSpec, EventsInOrder

-----------------------------------------------------------------------------
(* Refinement. *)

\* A settled promise stays as it is, and who has been told of something has been.
LEMMA Advances ==
  PromiIInv /\ [PromiNext]_promiVars => /\ promise # "pending" => promise' = promise
                        /\ notified \subseteq notified'
<1>1. PromiIInv /\ React => promise' = promise /\ notified \subseteq notified'
  BY DEF React, Emits
<1>2. ListenerStep \/ AwaitAnswers => UNCHANGED <<promise, notified>>
  BY DEF ListenerStep, AddListener, RemoveListener, RemoveAllListeners, AwaitAnswers
<1>3. ExecutorStep => UNCHANGED notified /\ (promise # "pending" => promise' = promise)
  BY DEF ExecutorStep, Resolve, Reject, ExecutorReturns, ExecutorThrows, Settled
<1>4. UNCHANGED promiVars => UNCHANGED <<promise, notified>>
  BY DEF promiVars
<1>5. QED
  BY <1>1, <1>2, <1>3, <1>4, NextSteps

\* A PromiEvent is a promise: it settles once, resolves only if its executor resolved, and
\* rejects only because the executor did or because a listener threw.
THEOREM Refinement == PromiSpec => ImplementsAwait
<1>1. PromiInit => AbstractAwait!Init
  BY DEF PromiInit, AbstractAwait!Init
<1>2. PromiIInv /\ [PromiNext]_promiVars => [AbstractAwait!Next]_(AbstractAwait!awaitVars)
  <2> SUFFICES ASSUME PromiIInv, [PromiNext]_promiVars
               PROVE  AbstractAwait!Advance
                      /\ (AbstractAwait!Resolve \/ AbstractAwait!Reject \/ UNCHANGED result)
    BY DEF AbstractAwait!Next
  <2>1. AbstractAwait!Advance
    BY Advances DEF AbstractAwait!Advance
  <2>2. CASE React
    <3>1. PICK event \in {"done", "error"} : Emits(event) /\ result' = Passes(event)
      BY <2>2 DEF React
    <3>2. result = "pending" /\ promise' = promise /\ promise \in {"resolved", "rejected"}
      BY <2>2 DEF React, PromiIInv, PromiTypeOK
    <3>3. CASE result' = "listener_error"
      <4>1. Throws(event) \/ Throws("settled")
        BY <3>1, <3>2, <3>3 DEF Passes
      <4>2. notified' \cap Throwing # {}
        BY <3>1, <4>1 DEF Emits, Throws
      <4>3. QED
        BY <2>1, <3>2, <3>3, <4>2 DEF AbstractAwait!Reject
    <3>4. CASE result' = promise
      BY <2>1, <3>2, <3>4 DEF AbstractAwait!Reject, AbstractAwait!Resolve
    <3>5. QED
      BY <3>1, <3>3, <3>4 DEF Passes
  <2>3. CASE ~React
    <3>1. UNCHANGED result
      BY <2>3, NextSteps DEF ListenerStep, AddListener, RemoveListener, RemoveAllListeners,
         ExecutorStep, Resolve, Reject, ExecutorReturns, ExecutorThrows, AwaitAnswers, promiVars
    <3>2. QED
      BY <2>1, <3>1
  <2>4. QED
    BY <2>2, <2>3
<1>3. QED
  BY <1>1, <1>2, PromiInvariance, PTL DEF PromiSpec, ImplementsAwait, AbstractAwait!Spec
=============================================================================
