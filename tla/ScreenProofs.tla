----------------------------- MODULE ScreenProofs -----------------------------
(***************************************************************************)
(* The invariants of the screen, for any number of boxes, messages and      *)
(* touches, all modes of a box and all places of a finger.                  *)
(***************************************************************************)
EXTENDS Screen, TLAPS

Windows == {"alert", "keyboard", "screensaver"}

\* Each window is displayed at most once.
Stack(s) ==
    /\ s \in Seq(Windows)
    /\ \A i, j \in 1..Len(s) : s[i] = s[j] => i = j

Boxes == [mode : Modes, seq : 0..MaxBoxes, timed : BOOLEAN] \cup {NoBox}
Alerts == [mode : Modes \cup {-1}, seq : 0..MaxBoxes, gotMode : BOOLEAN, timed : BOOLEAN]
Contents ==
    [kind : {"empty", "alert", "simple", "response"}, buttons : Modes \cup {-1, 1},
     timed : BOOLEAN, mode : Modes \cup {-1}, seq : 0..MaxBoxes]
Messages ==
    [kind : {"none", "poll", "push"}, part : {"idle", "begun", "status", "whole", "response"},
     box : Boxes]

Types ==
    /\ printer \in [box : Boxes, shown : 0..MaxBoxes] /\ rx \in Messages
    /\ currentAlert \in Alerts /\ lastAlertSeq \in 0..MaxBoxes /\ answer \in -1..MaxBoxes

\* Numbers grow from the box shown last to the one received, the one being told of and the
\* printer's.
Numbered ==
    /\ lastAlertSeq <= currentAlert.seq /\ currentAlert.seq <= printer.shown
    /\ rx.box # NoBox => currentAlert.seq <= rx.box.seq
    /\ rx.box.seq <= printer.shown
    /\ printer.box # NoBox => printer.box.seq = printer.shown

BoxTypes ==
    /\ alertMode \in Modes \cup {-1, 1} /\ displayingResponse \in BOOLEAN
    /\ alertTicks \in BOOLEAN /\ alertPopup \in Contents /\ swept \in BOOLEAN

\* Only an alert has a button that answers it.
ButtonsOfKind == alertPopup.kind = "alert" \/ alertPopup.buttons \in {-1, 1}

BoxInv ==
    /\ BoxTypes /\ Stack(popups) /\ ScreensaverIsKnown
    /\ BoxIsOfMode /\ TimerIsOfBox /\ WaitingBoxIsThere /\ ButtonsOfKind

ScreenInv == Types /\ Numbered /\ BoxInv /\ ScreensaverOnlyIdle
-----------------------------------------------------------------------------
(* The stack of windows.                                                    *)

LEMMA SetPopupStack ==
    ASSUME NEW s, Stack(s), NEW p \in Windows
    PROVE  /\ Stack(SetPopup(s, p))
           /\ \A q : IsPopupActive(SetPopup(s, p), q) <=> q = p \/ IsPopupActive(s, q)
<1>1. CASE IsPopupActive(s, p)  BY <1>1 DEF SetPopup
<1>2. CASE ~IsPopupActive(s, p)
  <2>1. s \in Seq(Windows) /\ Len(s) \in Nat  BY DEF Stack
  <2>2. PICK st : st = Append(s, p)  OBVIOUS
  <2>3. /\ st \in Seq(Windows) /\ Len(st) = Len(s) + 1 /\ st[Len(s) + 1] = p
        /\ \A i \in 1..Len(s) : st[i] = s[i]
    BY <2>1, <2>2
  <2>4. SetPopup(s, p) = st  BY <1>2, <2>2 DEF SetPopup
  <2>5. \A i \in 1..Len(s) : s[i] # p  BY <1>2 DEF IsPopupActive
  <2>6. \A i \in 1..Len(st) : i \in 1..Len(s) \/ i = Len(s) + 1  BY <2>1, <2>3
  <2>7. \A i, j \in 1..Len(st) : st[i] = st[j] => i = j
    BY <2>3, <2>5, <2>6 DEF Stack
  <2>8. Len(s) + 1 \in 1..Len(st) /\ \A i \in 1..Len(s) : i \in 1..Len(st)  BY <2>1, <2>3
  <2>9. \A q : IsPopupActive(st, q) <=> q = p \/ IsPopupActive(s, q)
    BY <2>3, <2>6, <2>8 DEF IsPopupActive
  <2> QED  BY <2>3, <2>4, <2>7, <2>9 DEF Stack
<1> QED  BY <1>1, <1>2

LEMMA ClearPopupStack ==
    ASSUME NEW s, Stack(s)
    PROVE  /\ Stack(ClearPopup(s))
           /\ \A q : IsPopupActive(ClearPopup(s), q)
                        <=> IsPopupActive(s, q) /\ (s = <<>> \/ q # OnTop(s))
<1>1. CASE s = <<>>  BY <1>1 DEF ClearPopup
<1>2. CASE s # <<>>
  <2>1. s \in Seq(Windows) /\ Len(s) \in Nat /\ Len(s) >= 1
    BY <1>2 DEF Stack
  <2>2. PICK st : st = SubSeq(s, 1, Len(s) - 1)  OBVIOUS
  <2>3. /\ st \in Seq(Windows) /\ Len(st) = Len(s) - 1
        /\ \A i \in 1..Len(st) : st[i] = s[i] /\ i \in 1..Len(s)
    <3>1. Len(s) - 1 \in 0..Len(s) /\ Len(s) - 1 \in Nat  BY <2>1
    <3>2. st = [i \in 1..(Len(s) - 1) |-> s[i]]  BY <2>1, <2>2, <3>1
    <3>3. \A i \in 1..(Len(s) - 1) : i \in 1..Len(s) /\ s[i] \in Windows
      BY <2>1
    <3>4. st \in Seq(Windows) /\ Len(st) = Len(s) - 1  BY <3>1, <3>2, <3>3
    <3> QED  BY <3>2, <3>3, <3>4
  <2>4. ClearPopup(s) = st  BY <1>2, <2>2 DEF ClearPopup
  <2>5. \A i, j \in 1..Len(st) : st[i] = st[j] => i = j  BY <2>3 DEF Stack
  <2>6. OnTop(s) = s[Len(s)] /\ Len(s) \in 1..Len(s)  BY <1>2, <2>1 DEF OnTop
  <2>7. \A i \in 1..Len(s) : i = Len(s) \/ i \in 1..Len(st)  BY <2>1, <2>3
  <2>8. \A i \in 1..Len(st) : i # Len(s)  BY <2>1, <2>3
  <2>9. ASSUME NEW q
        PROVE  IsPopupActive(st, q) <=> IsPopupActive(s, q) /\ q # OnTop(s)
    <3>1. ASSUME IsPopupActive(st, q)  PROVE IsPopupActive(s, q) /\ q # OnTop(s)
      <4>1. PICK i \in 1..Len(st) : st[i] = q  BY <3>1 DEF IsPopupActive
      <4>2. i \in 1..Len(s) /\ s[i] = q  BY <2>3, <4>1
      <4>3. s[i] # s[Len(s)]  BY <2>6, <2>8, <4>2 DEF Stack
      <4> QED  BY <2>6, <4>2, <4>3 DEF IsPopupActive
    <3>2. ASSUME IsPopupActive(s, q), q # OnTop(s)  PROVE IsPopupActive(st, q)
      <4>1. PICK i \in 1..Len(s) : s[i] = q  BY <3>2 DEF IsPopupActive
      <4>2. i \in 1..Len(st)  BY <2>6, <2>7, <3>2, <4>1
      <4> QED  BY <2>3, <4>1, <4>2 DEF IsPopupActive
    <3> QED  BY <3>1, <3>2
  <2> QED  BY <1>2, <2>3, <2>4, <2>5, <2>9 DEF Stack
<1> QED  BY <1>1, <1>2

LEMMA OnTopIsActive ==
    ASSUME NEW s, Stack(s), OnTop(s) \in Windows
    PROVE  s # <<>> /\ IsPopupActive(s, OnTop(s))
<1>1. s \in Seq(Windows) /\ Len(s) \in Nat  BY DEF Stack
<1>2. s # <<>>  BY DEF OnTop, Windows
<1>3. Len(s) \in 1..Len(s)  BY <1>1, <1>2
<1> QED  BY <1>2, <1>3 DEF OnTop, IsPopupActive

LEMMA ClearThisPopupStack ==
    ASSUME NEW s, Stack(s), NEW p \in Windows
    PROVE  /\ Stack(ClearThisPopup(s, p))
           /\ \A q : q # p => (IsPopupActive(ClearThisPopup(s, p), q) <=> IsPopupActive(s, q))
           /\ IsPopupActive(ClearThisPopup(s, p), p) <=> IsPopupActive(s, p) /\ OnTop(s) # p
<1>1. CASE OnTop(s) = p
  <2>1. s # <<>>  BY <1>1, OnTopIsActive
  <2> QED  BY <1>1, <2>1, ClearPopupStack DEF ClearThisPopup
<1>2. CASE OnTop(s) # p  BY <1>2 DEF ClearThisPopup
<1> QED  BY <1>1, <1>2

LEMMA EmptyStack == Stack(<<>>) /\ \A q : ~IsPopupActive(<<>>, q)
BY DEF Stack, IsPopupActive
-----------------------------------------------------------------------------
(* The box.                                                                 *)

\* What is displayed of alerts and responses changes with nothing else of BoxInv.
LEMMA ProcessAlertKeeps ==
    ASSUME BoxInv, NEW a \in Alerts, a.mode # -1, ProcessAlert(a), UNCHANGED screensaverActive
    PROVE  BoxInv'
<1>1. a.mode \in Modes /\ a.mode \in 0..7
  BY ScreenAssumption DEF Alerts, AllModes
<1>2. BoxTypes'
  BY <1>1 DEF ProcessAlert, BoxInv, BoxTypes, Contents, Alerts, AlertTicks
<1>3. /\ Stack(popups') /\ IsPopupActive(popups', "alert")
      /\ IsPopupActive(popups', "screensaver") => IsPopupActive(popups, "screensaver")
  BY SetPopupStack DEF ProcessAlert, BoxInv, Windows
<1>4. BoxIsOfMode' /\ TimerIsOfBox' /\ ButtonsOfKind'
  BY <1>1 DEF ProcessAlert, AlertTicks, BoxIsOfMode, TimerIsOfBox, ButtonsOfKind
<1> QED  BY <1>2, <1>3, <1>4 DEF BoxInv, ScreensaverIsKnown, WaitingBoxIsThere

LEMMA SetTextKeeps ==
    ASSUME BoxInv, NEW kind \in {"simple", "response"}, NEW timed \in BOOLEAN,
           SetText(kind, timed), UNCHANGED screensaverActive,
           alertMode' \in {-1, 1}, alertMode' = 1 => ~displayingResponse',
           displayingResponse' \in BOOLEAN, displayingResponse' => kind = "response"
    PROVE  BoxInv'
<1>1. /\ alertPopup' = [alertPopup EXCEPT !.kind = kind, !.buttons = 1, !.timed = timed]
      /\ popups' = SetPopup(popups, "alert") /\ swept' = FALSE /\ alertTicks' = timed
  BY DEF SetText
<1>2. BoxTypes'
  BY <1>1 DEF BoxInv, BoxTypes, Contents
<1>3. /\ Stack(popups') /\ IsPopupActive(popups', "alert")
      /\ IsPopupActive(popups', "screensaver") => IsPopupActive(popups, "screensaver")
  BY <1>1, SetPopupStack DEF BoxInv, Windows
<1>4. alertPopup'.kind = kind /\ alertPopup'.buttons = 1 /\ alertPopup'.timed = timed
  BY <1>1 DEF BoxInv, BoxTypes, Contents
<1>5. BoxIsOfMode' /\ TimerIsOfBox' /\ ButtonsOfKind'
  BY <1>1, <1>4 DEF BoxIsOfMode, TimerIsOfBox, ButtonsOfKind
<1> QED  BY <1>2, <1>3, <1>5 DEF BoxInv, ScreensaverIsKnown, WaitingBoxIsThere

LEMMA RemoveBoxKeeps ==
    ASSUME BoxInv, currentAlert \in Alerts, RemoveBox, UNCHANGED screensaverActive,
           displayingResponse' \in {displayingResponse, FALSE}
    PROVE  /\ BoxInv'
           /\ currentAlert' \in Alerts /\ currentAlert'.seq = currentAlert.seq
<1>1. /\ alertTicks' = FALSE /\ popups' = ClearThisPopup(popups, "alert") /\ alertMode' = -1
      /\ UNCHANGED <<alertPopup, swept>>
      /\ currentAlert' = [NoAlert EXCEPT !.seq = currentAlert.seq, !.timed = currentAlert.timed]
  BY DEF RemoveBox
<1>2. currentAlert' \in Alerts /\ currentAlert'.seq = currentAlert.seq
  BY <1>1 DEF Alerts, NoAlert
<1>3. BoxTypes'
  BY <1>1 DEF BoxInv, BoxTypes
<1>4. /\ Stack(popups')
      /\ IsPopupActive(popups', "screensaver") => IsPopupActive(popups, "screensaver")
  BY <1>1, ClearThisPopupStack DEF BoxInv, Windows
<1>5. displayingResponse' => displayingResponse  OBVIOUS
<1>6. BoxIsOfMode'  BY <1>1, <1>5 DEF BoxInv, BoxIsOfMode
<1>7. TimerIsOfBox' /\ ButtonsOfKind' /\ WaitingBoxIsThere'
  BY <1>1 DEF BoxInv, TimerIsOfBox, ButtonsOfKind, WaitingBoxIsThere
<1> QED  BY <1>2, <1>3, <1>4, <1>6, <1>7 DEF BoxInv, ScreensaverIsKnown

LEMMA BoxUnchanged ==
    ASSUME BoxInv, UNCHANGED <<alert, popups, screensaverActive>>
    PROVE  BoxInv'
BY DEF alert, BoxInv, BoxTypes, ScreensaverIsKnown, BoxIsOfMode, TimerIsOfBox,
       WaitingBoxIsThere, ButtonsOfKind

\* Whatever clears the box or leaves it alone.
LEMMA ClearingKeeps ==
    ASSUME BoxInv, currentAlert \in Alerts, UNCHANGED screensaverActive,
           ClearAlert \/ ClearAlertOrResponse
    PROVE  /\ BoxInv'
           /\ currentAlert' \in Alerts /\ currentAlert'.seq = currentAlert.seq
<1>1. CASE RemoveBox /\ displayingResponse' \in {displayingResponse, FALSE}
  BY <1>1, RemoveBoxKeeps
<1>2. CASE UNCHANGED <<alert, popups, currentAlert>>
  BY <1>2, BoxUnchanged
<1> QED  BY <1>1, <1>2 DEF ClearAlert, ClearAlertOrResponse

\* All popups are removed.
LEMMA SweepKeeps ==
    ASSUME BoxInv, ClearAllPopups,
           UNCHANGED <<alertMode, displayingResponse, alertTicks, alertPopup, screensaverActive>>
    PROVE  BoxInv'
<1>1. popups' = <<>> /\ swept' = TRUE  BY DEF ClearAllPopups
<1>2. Stack(popups') /\ ~IsPopupActive(popups', "screensaver")  BY <1>1, EmptyStack
<1> QED
  BY <1>1, <1>2 DEF BoxInv, BoxTypes, ScreensaverIsKnown, BoxIsOfMode, TimerIsOfBox,
                    WaitingBoxIsThere, ButtonsOfKind

LEMMA SimpleAlertKeeps ==
    ASSUME BoxInv, ProcessSimpleAlert, UNCHANGED screensaverActive
    PROVE  BoxInv'
<1>1. CASE alertMode < 2
  BY <1>1, SetTextKeeps DEF ProcessSimpleAlert
<1>2. CASE UNCHANGED <<alert, popups>>
  BY <1>2, BoxUnchanged
<1> QED  BY <1>1, <1>2 DEF ProcessSimpleAlert

LEMMA ResponseKeeps ==
    ASSUME BoxInv, NEW isError \in BOOLEAN, NEW onPage \in BOOLEAN,
           NewResponseReceived(isError, onPage), UNCHANGED screensaverActive
    PROVE  BoxInv'
<1>1. CASE alertMode < 2 /\ onPage
  <2>1. SetText("response", ~isError) /\ alertMode' = -1 /\ displayingResponse' = TRUE
    BY <1>1 DEF NewResponseReceived
  <2>2. PICK timed \in BOOLEAN : timed = ~isError  OBVIOUS
  <2>3. SetText("response", timed)  BY <2>1, <2>2 DEF SetText
  <2>4. alertMode' \in {-1, 1} /\ alertMode' # 1  BY <2>1
  <2>5. displayingResponse' \in BOOLEAN  BY <2>1
  <2> QED  BY <2>3, <2>4, <2>5, SetTextKeeps
<1>2. CASE UNCHANGED <<alert, popups>>
  BY <1>2, BoxUnchanged
<1> QED  BY <1>1, <1>2 DEF NewResponseReceived

\* Windows come and go around a box that stays as it is.
LEMMA WindowsKeep ==
    ASSUME BoxInv, UNCHANGED alert, Stack(popups'),
           IsPopupActive(popups, "alert") /\ alertMode >= 2 => IsPopupActive(popups', "alert"),
           ScreensaverIsKnown'
    PROVE  BoxInv'
BY DEF alert, BoxInv, BoxTypes, BoxIsOfMode, TimerIsOfBox, WaitingBoxIsThere, ButtonsOfKind
-----------------------------------------------------------------------------
(* The printer and what is received: everything that happens at the stage   *)
(* "input" and leaves it.                                                   *)

LEMMA NoBoxOrMessage == NoBox \in Boxes /\ Idle \in Messages /\ Idle.box = NoBox /\ NoBox.seq = 0
BY DEF NoBox, Boxes, Idle, Messages

\* Outside the screensaver's stage nothing can break ScreensaverOnlyIdle.
LEMMA NotAtPress ==
    ASSUME stage' # "press"
    PROVE  ScreensaverOnlyIdle'
BY DEF ScreensaverOnlyIdle

LEMMA PrinterShowsKeeps ==
    ASSUME ScreenInv, PrinterShows
    PROVE  ScreenInv'
<1>1. PICK m \in Modes, t \in BOOLEAN :
        printer' = [box |-> [mode |-> m, seq |-> printer.shown + 1, timed |-> t],
                    shown |-> printer.shown + 1]
  BY DEF PrinterShows
<1>2. /\ printer.shown \in 0..MaxBoxes /\ printer.shown < MaxBoxes /\ MaxBoxes \in Nat
      /\ currentAlert.seq \in 0..MaxBoxes
  BY ScreenAssumption DEF PrinterShows, ScreenInv, Types, Alerts
<1>3. printer.shown + 1 \in 0..MaxBoxes  BY <1>2
<1>4. /\ printer'.box \in Boxes /\ printer'.shown = printer.shown + 1
      /\ printer'.box.seq = printer'.shown
      /\ printer' \in [box : Boxes, shown : 0..MaxBoxes]
  BY <1>1, <1>3 DEF Boxes
<1>5. UNCHANGED <<answer, rx, currentAlert, lastAlertSeq, alert, popups, screensaverActive>>
      /\ rx = Idle /\ stage' = "input"
  BY DEF PrinterShows, saver
<1>6. Types'  BY <1>4, <1>5 DEF ScreenInv, Types
<1>7. Numbered'
  BY <1>2, <1>4, <1>5, NoBoxOrMessage DEF ScreenInv, Numbered
<1>8. BoxInv'  BY <1>5, BoxUnchanged DEF ScreenInv
<1>9. ScreensaverOnlyIdle'  BY <1>5, NotAtPress
<1> QED  BY <1>6, <1>7, <1>8, <1>9 DEF ScreenInv

LEMMA PrinterWithdrawsKeeps ==
    ASSUME ScreenInv, PrinterWithdraws
    PROVE  ScreenInv'
<1>1. /\ printer' = [printer EXCEPT !.box = NoBox]
      /\ UNCHANGED <<answer, rx, currentAlert, lastAlertSeq, alert, popups, screensaverActive>>
      /\ rx = Idle /\ stage' = "input"
  BY DEF PrinterWithdraws, saver
<1>2. printer' \in [box : Boxes, shown : 0..MaxBoxes] /\ printer'.box = NoBox
      /\ printer'.shown = printer.shown
  BY <1>1, NoBoxOrMessage DEF ScreenInv, Types
<1>3. Types'  BY <1>1, <1>2 DEF ScreenInv, Types
<1>4. Numbered'  BY <1>1, <1>2 DEF ScreenInv, Numbered
<1>5. BoxInv'  BY <1>1, BoxUnchanged DEF ScreenInv
<1>6. ScreensaverOnlyIdle'  BY <1>1, NotAtPress
<1> QED  BY <1>3, <1>4, <1>5, <1>6 DEF ScreenInv

LEMMA StartReceivedMessageKeeps ==
    ASSUME ScreenInv, StartReceivedMessage
    PROVE  ScreenInv'
<1>1. /\ rx' \in {[kind |-> "poll", part |-> "begun", box |-> printer.box],
                  [kind |-> "push", part |-> "begun", box |-> NoBox]}
      /\ currentAlert' = [NoAlert EXCEPT !.seq = currentAlert.seq, !.timed = currentAlert.timed]
      /\ UNCHANGED <<printer, answer, lastAlertSeq, alert, popups, screensaverActive>>
      /\ stage' = "input"
  BY DEF StartReceivedMessage, saver
<1>2. /\ rx' \in Messages /\ rx'.box \in {printer.box, NoBox}
  BY <1>1, NoBoxOrMessage DEF ScreenInv, Types, Messages
<1>3. currentAlert' \in Alerts /\ currentAlert'.seq = currentAlert.seq
  BY <1>1 DEF ScreenInv, Types, Alerts, NoAlert
<1>4. Types'  BY <1>1, <1>2, <1>3 DEF ScreenInv, Types
<1>5. printer.shown \in Nat  BY ScreenAssumption DEF ScreenInv, Types
<1>6. Numbered'
  <2>1. CASE rx'.box = NoBox
    BY <2>1, <1>1, <1>3, <1>5, NoBoxOrMessage DEF ScreenInv, Numbered
  <2>2. CASE rx'.box = printer.box /\ printer.box # NoBox
    BY <2>2, <1>1, <1>3, <1>5 DEF ScreenInv, Numbered
  <2> QED  BY <1>2, <2>1, <2>2
<1>7. BoxInv'  BY <1>1, BoxUnchanged DEF ScreenInv
<1>8. ScreensaverOnlyIdle'  BY <1>1, NotAtPress
<1> QED  BY <1>4, <1>6, <1>7, <1>8 DEF ScreenInv

\* Nothing of the numbers changes but how far a message has come.
LEMMA PartOfMessage ==
    ASSUME ScreenInv, UNCHANGED <<printer, answer, lastAlertSeq>>,
           rx' \in Messages, rx'.box = rx.box,
           currentAlert' \in Alerts, currentAlert'.seq = currentAlert.seq
    PROVE  Types' /\ Numbered'
<1>1. Types'  BY NoBoxOrMessage DEF ScreenInv, Types
<1>2. printer.shown \in Nat  BY ScreenAssumption DEF ScreenInv, Types
<1>3. Numbered'  BY <1>2, NoBoxOrMessage DEF ScreenInv, Numbered
<1> QED  BY <1>1, <1>3

\* A message ends, whole or not.
LEMMA MessageEnds ==
    ASSUME ScreenInv, UNCHANGED <<printer, answer, lastAlertSeq>>, rx' = Idle,
           currentAlert' \in Alerts, currentAlert'.seq = currentAlert.seq,
           BoxInv', stage' = "input"
    PROVE  ScreenInv'
<1>1. Types'  BY NoBoxOrMessage DEF ScreenInv, Types
<1>2. printer.shown \in Nat  BY ScreenAssumption DEF ScreenInv, Types
<1>3. Numbered'  BY <1>2, NoBoxOrMessage DEF ScreenInv, Numbered
<1>4. ScreensaverOnlyIdle'  BY NotAtPress
<1> QED  BY <1>1, <1>3, <1>4 DEF ScreenInv

LEMMA SetStatusKeeps ==
    ASSUME BoxInv, NEW new, SetStatus(new),
           UNCHANGED <<alertMode, displayingResponse, alertTicks, alertPopup, screensaverActive>>
    PROVE  BoxInv'
<1>1. CASE ClearAllPopups  BY <1>1, SweepKeeps
<1>2. CASE UNCHANGED <<popups, swept>>  BY <1>2, BoxUnchanged DEF alert
<1> QED  BY <1>1, <1>2 DEF SetStatus, ChangeStatus

LEMMA ReceiveStatusKeeps ==
    ASSUME ScreenInv, ReceiveStatus
    PROVE  ScreenInv'
<1>1. PICK new \in {"idle", "printing"} : SetStatus(new)  BY DEF ReceiveStatus
<1>2. /\ rx' = [rx EXCEPT !.part = "status"] /\ stage' = "input"
      /\ UNCHANGED <<printer, answer, currentAlert, lastAlertSeq, alertMode,
                     displayingResponse, alertTicks, alertPopup, screensaverActive>>
  BY DEF ReceiveStatus
<1>3. rx' \in Messages /\ rx'.box = rx.box
  BY <1>2 DEF ScreenInv, Types, Messages
<1>4. Types' /\ Numbered'
  <2>1. currentAlert' \in Alerts  BY <1>2 DEF ScreenInv, Types
  <2> QED  BY <1>2, <1>3, <2>1, PartOfMessage
<1>5. BoxInv'  BY <1>1, <1>2, SetStatusKeeps DEF ScreenInv
<1> QED  BY <1>2, <1>4, <1>5, NotAtPress DEF ScreenInv

LEMMA ReceiveMessageBoxKeeps ==
    ASSUME ScreenInv, ReceiveMessageBox
    PROVE  ScreenInv'
<1>1. /\ rx' = [rx EXCEPT !.part = "whole"] /\ stage' = "input"
      /\ UNCHANGED <<printer, answer, lastAlertSeq, screensaverActive>>
  BY DEF ReceiveMessageBox, saver
<1>2. rx' \in Messages /\ rx'.box = rx.box /\ rx.box \in Boxes
  BY <1>1 DEF ScreenInv, Types, Messages
<1>3. CASE ClearAlert
  <2>1. BoxInv' /\ currentAlert' \in Alerts /\ currentAlert'.seq = currentAlert.seq
    BY <1>1, <1>3, ClearingKeeps DEF ScreenInv, Types
  <2> QED  BY <1>1, <1>2, <2>1, PartOfMessage, NotAtPress DEF ScreenInv
<1>4. CASE /\ currentAlert' = [mode |-> rx.box.mode, gotMode |-> TRUE, timed |-> rx.box.timed,
                               seq |-> IF rx.box = NoBox THEN currentAlert.seq ELSE rx.box.seq]
           /\ UNCHANGED <<alert, popups>>
  <2>1. rx.box.mode \in Modes \cup {-1} /\ rx.box.timed \in BOOLEAN /\ rx.box.seq \in 0..MaxBoxes
    <3>1. CASE rx.box = NoBox  BY <3>1, ScreenAssumption DEF NoBox
    <3>2. CASE rx.box # NoBox  BY <1>2, <3>2 DEF Boxes
    <3> QED  BY <3>1, <3>2
  <2>2. currentAlert.seq \in 0..MaxBoxes /\ lastAlertSeq \in 0..MaxBoxes
        /\ printer.shown \in 0..MaxBoxes
    BY DEF ScreenInv, Types, Alerts
  <2>3. currentAlert' \in Alerts
    BY <1>4, <2>1, <2>2 DEF Alerts
  <2>4. /\ rx.box = NoBox => currentAlert'.seq = currentAlert.seq
        /\ rx.box # NoBox => currentAlert'.seq = rx.box.seq
    BY <1>4
  <2>5. Types'  BY <1>1, <1>2, <2>3 DEF ScreenInv, Types
  <2>6. Numbered'
    BY <1>1, <1>2, <2>1, <2>2, <2>4 DEF ScreenInv, Numbered
  <2>7. BoxInv'  BY <1>1, <1>4, BoxUnchanged DEF ScreenInv
  <2> QED  BY <1>1, <2>5, <2>6, <2>7, NotAtPress DEF ScreenInv
<1> QED  BY <1>3, <1>4 DEF ReceiveMessageBox

LEMMA ReceivePushMessageKeeps ==
    ASSUME ScreenInv, ReceivePushMessage
    PROVE  ScreenInv'
<1>1. /\ rx' = [rx EXCEPT !.part = "whole"] /\ stage' = "input"
      /\ UNCHANGED <<printer, answer, lastAlertSeq, screensaverActive>>
  BY DEF ReceivePushMessage, saver
<1>2. rx' \in Messages /\ rx'.box = rx.box
  BY <1>1 DEF ScreenInv, Types, Messages
<1>3. BoxInv' /\ currentAlert' \in Alerts /\ currentAlert'.seq = currentAlert.seq
  <2>1. CASE ProcessSimpleAlert /\ UNCHANGED currentAlert
    BY <1>1, <2>1, SimpleAlertKeeps DEF ScreenInv, Types
  <2>2. CASE ClearAlert
    BY <1>1, <2>2, ClearingKeeps DEF ScreenInv, Types
  <2> QED  BY <2>1, <2>2 DEF ReceivePushMessage
<1> QED  BY <1>1, <1>2, <1>3, PartOfMessage, NotAtPress DEF ScreenInv

LEMMA ReceiveResponseKeeps ==
    ASSUME ScreenInv, ReceiveResponse
    PROVE  ScreenInv'
<1>1. /\ rx' = [rx EXCEPT !.part = "response"] /\ stage' = "input"
      /\ UNCHANGED <<printer, answer, currentAlert, lastAlertSeq, alert, popups,
                     screensaverActive>>
  BY DEF ReceiveResponse, saver
<1>2. rx' \in Messages /\ rx'.box = rx.box
  BY <1>1 DEF ScreenInv, Types, Messages
<1>3. BoxInv'  BY <1>1, BoxUnchanged DEF ScreenInv
<1>4. currentAlert' \in Alerts  BY <1>1 DEF ScreenInv, Types
<1> QED  BY <1>1, <1>2, <1>3, <1>4, PartOfMessage, NotAtPress DEF ScreenInv

LEMMA MessageIsCutOffKeeps ==
    ASSUME ScreenInv, MessageIsCutOff
    PROVE  ScreenInv'
<1>1. /\ rx' = Idle /\ stage' = "input"
      /\ UNCHANGED <<printer, answer, currentAlert, lastAlertSeq, alert, popups,
                     screensaverActive>>
  BY DEF MessageIsCutOff, saver
<1>2. BoxInv'  BY <1>1, BoxUnchanged DEF ScreenInv
<1>3. currentAlert' \in Alerts  BY <1>1 DEF ScreenInv, Types
<1> QED  BY <1>1, <1>2, <1>3, MessageEnds

LEMMA EndReceivedMessageKeeps ==
    ASSUME ScreenInv, EndReceivedMessage
    PROVE  ScreenInv'
<1>1. /\ rx' = Idle /\ stage' = "input" /\ UNCHANGED <<printer, answer, screensaverActive>>
  BY DEF EndReceivedMessage, saver
<1>2. CASE /\ \E isError, onPage \in BOOLEAN : NewResponseReceived(isError, onPage)
           /\ UNCHANGED <<currentAlert, lastAlertSeq>>
  <2>1. BoxInv'  BY <1>1, <1>2, ResponseKeeps DEF ScreenInv
  <2>2. currentAlert' \in Alerts  BY <1>2 DEF ScreenInv, Types
  <2> QED  BY <1>1, <1>2, <2>1, <2>2, MessageEnds
<1>3. CASE ClearAlert /\ UNCHANGED lastAlertSeq
  <2>1. BoxInv' /\ currentAlert' \in Alerts /\ currentAlert'.seq = currentAlert.seq
    BY <1>1, <1>3, ClearingKeeps DEF ScreenInv, Types
  <2> QED  BY <1>1, <1>3, <2>1, MessageEnds
<1>4. CASE /\ NewAlert /\ ProcessAlert(currentAlert) /\ lastAlertSeq' = currentAlert.seq
           /\ UNCHANGED currentAlert
  <2>1. currentAlert \in Alerts /\ currentAlert.mode # -1
    BY <1>4 DEF NewAlert, ScreenInv, Types
  <2>2. BoxInv'  BY <1>1, <1>4, <2>1, ProcessAlertKeeps DEF ScreenInv
  <2>3. currentAlert.seq \in 0..MaxBoxes /\ printer.shown \in 0..MaxBoxes
    BY <2>1 DEF Alerts, ScreenInv, Types
  <2>4. Types'  BY <1>1, <1>4, <2>3, NoBoxOrMessage DEF ScreenInv, Types
  <2>5. Numbered'  BY <1>1, <1>4, <2>3, NoBoxOrMessage DEF ScreenInv, Numbered
  <2> QED  BY <1>1, <2>2, <2>4, <2>5, NotAtPress DEF ScreenInv
<1>5. CASE UNCHANGED <<alert, popups, currentAlert, lastAlertSeq>>
  <2>1. BoxInv'  BY <1>1, <1>5, BoxUnchanged DEF ScreenInv
  <2>2. currentAlert' \in Alerts  BY <1>5 DEF ScreenInv, Types
  <2> QED  BY <1>1, <1>5, <2>1, <2>2, MessageEnds
<1> QED  BY <1>2, <1>3, <1>4, <1>5 DEF EndReceivedMessage

LEMMA ReconnectKeeps ==
    ASSUME ScreenInv, Reconnect
    PROVE  ScreenInv'
<1>1. /\ rx = Idle /\ stage' = "input"
      /\ UNCHANGED <<printer, answer, rx, currentAlert, lastAlertSeq, alertMode,
                     displayingResponse, alertTicks, alertPopup, screensaverActive>>
  BY DEF Reconnect
<1>2. BoxInv'  BY <1>1, SetStatusKeeps DEF Reconnect, ScreenInv
<1>3. currentAlert' \in Alerts  BY <1>1 DEF ScreenInv, Types
<1> QED  BY <1>1, <1>2, <1>3, MessageEnds

\* The finger moves, or time passes.
LEMMA NothingOfTheScreen ==
    ASSUME ScreenInv, FingerDown \/ FingerUp \/ TimePasses
    PROVE  ScreenInv'
<1>1. /\ UNCHANGED <<printer, answer, rx, currentAlert, lastAlertSeq, alert, popups,
                     screensaverActive>>
      /\ stage' = "input"
  BY DEF FingerDown, FingerUp, TimePasses, saver
<1>2. BoxInv'  BY <1>1, BoxUnchanged DEF ScreenInv
<1>3. Types' /\ Numbered'  BY <1>1 DEF ScreenInv, Types, Numbered
<1> QED  BY <1>1, <1>2, <1>3, NotAtPress DEF ScreenInv
-----------------------------------------------------------------------------
(* The stages of the main loop.                                             *)

\* Only the screensaver's stage leads to that where a touch is handled.
LEMMA SpinKeeps ==
    ASSUME ScreenInv, Spin
    PROVE  ScreenInv'
<1>1. /\ stage' = "saver"
      /\ UNCHANGED <<printer, answer, rx, lastAlertSeq, screensaverActive>>
  BY DEF Spin, saver
<1>2. BoxInv' /\ currentAlert' \in Alerts /\ currentAlert'.seq = currentAlert.seq
  <2>1. CASE ClearAlertOrResponse
    BY <1>1, <2>1, ClearingKeeps DEF ScreenInv, Types
  <2>2. CASE UNCHANGED <<alert, popups, currentAlert>>
    BY <1>1, <2>2, BoxUnchanged DEF ScreenInv, Types
  <2> QED  BY <2>1, <2>2 DEF Spin
<1>3. Types'  BY <1>1, <1>2 DEF ScreenInv, Types
<1>4. Numbered'  BY <1>1, <1>2 DEF ScreenInv, Numbered
<1> QED  BY <1>1, <1>2, <1>3, <1>4, NotAtPress DEF ScreenInv

LEMMA ScreensaverKeeps ==
    ASSUME ScreenInv, Screensaver
    PROVE  ScreenInv'
<1>1. /\ UNCHANGED <<printer, answer, rx, currentAlert, lastAlertSeq, alert, status>>
      /\ IF idle' /\ IdleStatus THEN ActivateScreensaver ELSE DeactivateScreensaver
  BY DEF Screensaver
<1>2. Types' /\ Numbered'  BY <1>1 DEF ScreenInv, Types, Numbered
<1>3. Stack(popups) /\ ScreensaverIsKnown  BY DEF ScreenInv, BoxInv
<1>4. /\ Stack(popups') /\ ScreensaverIsKnown'
      /\ IsPopupActive(popups, "alert") => IsPopupActive(popups', "alert")
      /\ OnTop(popups') = "screensaver" => idle' /\ IdleStatus
  <2>1. CASE screensaverActive' = TRUE /\ popups' = SetPopup(popups, "screensaver")
             /\ idle' /\ IdleStatus
    BY <1>3, <2>1, SetPopupStack DEF Windows, ScreensaverIsKnown
  <2>2. CASE screensaverActive' = FALSE /\ popups' = ClearThisPopup(popups, "screensaver")
             /\ (IsPopupActive(popups, "screensaver") => OnTop(popups) = "screensaver")
    <3>1. /\ Stack(popups') /\ ~IsPopupActive(popups', "screensaver")
          /\ IsPopupActive(popups, "alert") => IsPopupActive(popups', "alert")
      BY <1>3, <2>2, ClearThisPopupStack DEF Windows
    <3>2. OnTop(popups') # "screensaver"  BY <3>1, OnTopIsActive DEF Windows
    <3> QED  BY <3>1, <3>2 DEF ScreensaverIsKnown
  <2>3. CASE /\ UNCHANGED <<screensaverActive, popups>>
             /\ \/ idle' /\ IdleStatus
                \/ ~screensaverActive
                \/ OnTop(popups) # "screensaver"
    <3>1. OnTop(popups) = "screensaver" => screensaverActive
      BY <1>3, OnTopIsActive DEF Windows, ScreensaverIsKnown
    <3> QED  BY <1>3, <2>3, <3>1 DEF ScreensaverIsKnown
  <2> QED  BY <1>1, <2>1, <2>2, <2>3 DEF ActivateScreensaver, DeactivateScreensaver
<1>5. BoxInv'  BY <1>1, <1>4, WindowsKeep DEF ScreenInv
<1>6. ScreensaverOnlyIdle'  BY <1>1, <1>4 DEF ScreensaverOnlyIdle, IdleStatus
<1> QED  BY <1>2, <1>5, <1>6 DEF ScreenInv

\* A button of the box, in terms of its contents.
LEMMA ButtonOfWindow ==
    ASSUME NEW place
    PROVE  /\ ButtonAt(place) \in {"evOkAlert", "evCloseAlert", "evChoiceAlert", "evEditAlert"}
                => OnTop(popups) = "alert" /\ alertPopup.buttons \in 2..7
           /\ ButtonAt(place) = "evCancel"
                => \/ OnTop(popups) = "alert" /\ alertPopup.buttons = 1
                   \/ OnTop(popups) = "keyboard"
<1>1. CASE OnTop(popups) = "alert"
  <2>1. ButtonAt(place) = BoxButton(place, alertPopup.buttons)  BY <1>1 DEF ButtonAt
  <2>2. /\ BoxButton(place, alertPopup.buttons)
              \in {"evOkAlert", "evCloseAlert", "evChoiceAlert", "evEditAlert"}
              => alertPopup.buttons \in 2..7
        /\ BoxButton(place, alertPopup.buttons) = "evCancel" => alertPopup.buttons = 1
    BY DEF BoxButton
  <2> QED  BY <1>1, <2>1, <2>2
<1>2. CASE OnTop(popups) = "keyboard"
  BY <1>2 DEF ButtonAt
<1>3. CASE OnTop(popups) \notin {"alert", "keyboard"}
  BY <1>3 DEF ButtonAt
<1> QED  BY <1>1, <1>2, <1>3

LEMMA PressKeeps ==
    ASSUME ScreenInv, NEW place, Press(ButtonAt(place))
    PROVE  BoxInv' /\ answer' \in -1..MaxBoxes
<1>1. PICK ev : ev = ButtonAt(place)  OBVIOUS
<1>2. /\ Press(ev) /\ UNCHANGED <<alert, screensaverActive>>
  BY <1>1 DEF Press
<1>3. answer' \in -1..MaxBoxes
  <2>1. answer' \in {alertPopup.seq, -1, answer}  BY <1>2 DEF Press
  <2>2. alertPopup.seq \in 0..MaxBoxes /\ answer \in -1..MaxBoxes /\ MaxBoxes \in Nat
    BY ScreenAssumption DEF ScreenInv, Types, BoxInv, BoxTypes, Contents
  <2> QED  BY <2>1, <2>2
<1>4. Stack(popups) /\ BoxIsOfMode /\ ScreensaverIsKnown  BY DEF ScreenInv, BoxInv
<1>5. /\ Stack(popups')
      /\ IsPopupActive(popups, "alert") /\ alertMode >= 2 => IsPopupActive(popups', "alert")
      /\ IsPopupActive(popups', "screensaver") => IsPopupActive(popups, "screensaver")
  <2>1. CASE ev = "evCancel"
    <3>1. popups' = ClearPopup(popups)  BY <1>2, <2>1 DEF Press
    <3>2. \/ OnTop(popups) = "alert" /\ alertPopup.buttons = 1
          \/ OnTop(popups) = "keyboard"
      BY <1>1, <2>1, ButtonOfWindow
    <3>3. alertMode \in Modes \cup {-1, 1} /\ Modes \subseteq 0..7
      BY ScreenAssumption DEF ScreenInv, BoxInv, BoxTypes, AllModes
    <3>4. alertMode >= 2 => OnTop(popups) = "keyboard"
      BY <1>4, <3>2, <3>3 DEF BoxIsOfMode
    <3> QED  BY <1>4, <3>1, <3>4, ClearPopupStack
  <2>2. CASE ev = "evEditAlert"
    BY <1>2, <1>4, <2>2, SetPopupStack DEF Press, Windows
  <2>3. CASE ev = "evSendKeyboardCommand"
    BY <1>2, <1>4, <2>3, ClearThisPopupStack DEF Press, Windows
  <2>4. CASE popups' = popups
    BY <1>4, <2>4
  <2> QED  BY <1>2, <2>1, <2>2, <2>3, <2>4 DEF Press
<1>6. ScreensaverIsKnown'  BY <1>2, <1>4, <1>5 DEF ScreensaverIsKnown
<1>7. BoxInv'  BY <1>2, <1>5, <1>6, WindowsKeep DEF ScreenInv
<1> QED  BY <1>3, <1>7

LEMMA HandleTouchKeeps ==
    ASSUME ScreenInv, HandleTouch
    PROVE  ScreenInv'
<1>1. stage' = "input" /\ UNCHANGED <<printer, rx, lastAlertSeq>>
  BY DEF HandleTouch
<1>2. /\ BoxInv' /\ answer' \in -1..MaxBoxes
      /\ currentAlert' \in Alerts /\ currentAlert'.seq = currentAlert.seq
  <2>1. CASE Release(ButtonAt(event.place))
    <3>1. UNCHANGED <<answer, screensaverActive>>  BY <2>1 DEF Release, saver
    <3>2. CASE ClearAlertOrResponse
      BY <3>1, <3>2, ClearingKeeps DEF ScreenInv, Types
    <3>3. CASE UNCHANGED <<alert, popups, currentAlert>>
      BY <3>1, <3>3, BoxUnchanged DEF ScreenInv, Types
    <3> QED  BY <2>1, <3>2, <3>3 DEF Release
  <2>2. CASE Press(ButtonAt(event.place))
    <3>1. UNCHANGED currentAlert  BY <2>2 DEF Press
    <3> QED  BY <2>2, <3>1, PressKeeps DEF ScreenInv, Types
  <2> QED  BY <2>1, <2>2 DEF HandleTouch
<1>3. Types'  BY <1>1, <1>2 DEF ScreenInv, Types
<1>4. Numbered'  BY <1>1, <1>2 DEF ScreenInv, Numbered
<1> QED  BY <1>1, <1>2, <1>3, <1>4, NotAtPress DEF ScreenInv
-----------------------------------------------------------------------------
(* The invariant.                                                           *)

LEMMA InitScreenInv == Init => ScreenInv
<1> SUFFICES ASSUME Init PROVE ScreenInv  OBVIOUS
<1>1. MaxBoxes \in Nat /\ 0 \in 0..MaxBoxes  BY ScreenAssumption
<1>2. currentAlert \in Alerts /\ currentAlert.seq = 0
  BY <1>1 DEF Init, NoAlert, Alerts
<1>3. Types  BY <1>1, <1>2, NoBoxOrMessage DEF Init, Types
<1>4. printer.shown = 0 /\ printer.box = NoBox /\ rx.box = NoBox
  BY NoBoxOrMessage DEF Init
<1>5. Numbered  BY <1>2, <1>4, NoBoxOrMessage DEF Init, Numbered
<1>6. BoxInv
  <2>1. BoxTypes  BY <1>1 DEF Init, BoxTypes, Contents
  <2>2. Stack(popups) /\ ~IsPopupActive(popups, "screensaver")  BY EmptyStack DEF Init
  <2> QED  BY <2>1, <2>2 DEF Init, BoxInv, ScreensaverIsKnown, BoxIsOfMode, TimerIsOfBox,
                             WaitingBoxIsThere, ButtonsOfKind
<1>7. ScreensaverOnlyIdle  BY DEF Init, ScreensaverOnlyIdle
<1> QED  BY <1>3, <1>5, <1>6, <1>7 DEF ScreenInv

LEMMA NextScreenInv == ScreenInv /\ [Next]_vars => ScreenInv'
<1> SUFFICES ASSUME ScreenInv, [Next]_vars PROVE ScreenInv'  OBVIOUS
<1>1. CASE PrinterShows  BY <1>1, PrinterShowsKeeps
<1>2. CASE PrinterWithdraws  BY <1>2, PrinterWithdrawsKeeps
<1>3. CASE StartReceivedMessage  BY <1>3, StartReceivedMessageKeeps
<1>4. CASE ReceiveStatus  BY <1>4, ReceiveStatusKeeps
<1>5. CASE ReceiveMessageBox  BY <1>5, ReceiveMessageBoxKeeps
<1>6. CASE ReceivePushMessage  BY <1>6, ReceivePushMessageKeeps
<1>7. CASE ReceiveResponse  BY <1>7, ReceiveResponseKeeps
<1>8. CASE EndReceivedMessage  BY <1>8, EndReceivedMessageKeeps
<1>9. CASE MessageIsCutOff  BY <1>9, MessageIsCutOffKeeps
<1>10. CASE Spin  BY <1>10, SpinKeeps
<1>11. CASE Screensaver  BY <1>11, ScreensaverKeeps
<1>12. CASE HandleTouch  BY <1>12, HandleTouchKeeps
<1>13. CASE Reconnect  BY <1>13, ReconnectKeeps
<1>14. CASE FingerDown \/ FingerUp \/ TimePasses  BY <1>14, NothingOfTheScreen
<1>15. CASE UNCHANGED vars
  <2>1. UNCHANGED <<printer, answer, rx, currentAlert, lastAlertSeq, alert, popups,
                    screensaverActive, idle, status, stage>>
    BY <1>15 DEF vars, saver
  <2>2. BoxInv'  BY <2>1, BoxUnchanged DEF ScreenInv
  <2>3. Types' /\ Numbered' /\ ScreensaverOnlyIdle'
    BY <2>1 DEF ScreenInv, Types, Numbered, ScreensaverOnlyIdle
  <2> QED  BY <2>2, <2>3 DEF ScreenInv
<1> QED
  BY <1>1, <1>2, <1>3, <1>4, <1>5, <1>6, <1>7, <1>8, <1>9, <1>10, <1>11, <1>12, <1>13,
     <1>14, <1>15 DEF Next, Receive

LEMMA ScreenInvariant == Spec => []ScreenInv
<1> QED  BY InitScreenInv, NextScreenInv, PTL DEF Spec
-----------------------------------------------------------------------------
(* The properties.                                                          *)

\* The variables keep their types, whatever is received and wherever the screen is
\* touched (src/UI/UserInterface.cpp, src/PanelDue.cpp).
THEOREM ScreenTypes == Spec => []TypeOK
<1>1. ScreenInv => TypeOK
  <2> SUFFICES ASSUME ScreenInv PROVE TypeOK  OBVIOUS
  <2>1. \A i \in 1..Len(popups) : popups[i] \in {"alert", "keyboard", "screensaver"}
    BY DEF ScreenInv, BoxInv, Stack, Windows
  <2>2. alertPopup.kind \in {"empty", "alert", "simple", "response"}
    BY DEF ScreenInv, BoxInv, BoxTypes, Contents
  <2> QED  BY <2>1, <2>2 DEF ScreenInv, Types, BoxInv, BoxTypes, TypeOK
<1> QED  BY <1>1, ScreenInvariant, PTL

\* UserInterface.cpp's alertMode and displayingResponse say what the box shows, however
\* alerts, their texts and responses follow upon each other.
THEOREM BoxMode == Spec => []BoxIsOfMode
<1>1. ScreenInv => BoxIsOfMode  BY DEF ScreenInv, BoxInv
<1> QED  BY <1>1, ScreenInvariant, PTL

\* The timeout that UI::Spin waits for was set with the box that is shown, one that needs
\* no answer.
THEOREM TimerBelongs == Spec => []TimerIsOfBox
<1>1. ScreenInv => TimerIsOfBox  BY DEF ScreenInv, BoxInv
<1> QED  BY <1>1, ScreenInvariant, PTL

\* A box that waits for an answer is displayed until it is answered, cleared or swept
\* away with all popups: no button, window or screensaver removes it otherwise.
THEOREM WaitingBox == Spec => []WaitingBoxIsThere
<1>1. ScreenInv => WaitingBoxIsThere  BY DEF ScreenInv, BoxInv
<1> QED  BY <1>1, ScreenInvariant, PTL

\* DeactivateScreensaver forgets the screensaver only as it goes: it is never displayed
\* without the main loop knowing it.
THEOREM KnownScreensaver == Spec => []ScreensaverIsKnown
<1>1. ScreenInv => ScreensaverIsKnown  BY DEF ScreenInv, BoxInv
<1> QED  BY <1>1, ScreenInvariant, PTL

\* When the main loop handles a touch the screensaver is on top only if the touch before
\* is long ago and the printer idle.
THEOREM IdleScreensaver == Spec => []ScreensaverOnlyIdle
<1>1. ScreenInv => ScreensaverOnlyIdle  BY DEF ScreenInv
<1> QED  BY <1>1, ScreenInvariant, PTL

\* EndReceivedMessage shows an alert only if its number is above that of the last one
\* shown, although every answer tells of the printer's box again.
THEOREM BoxOnce == Spec => EachBoxOnce
<1>1. ASSUME ScreenInv, [Next]_vars
      PROVE  [alertMode' >= 0 /\ alertMode' # alertMode /\ alertPopup'.kind = "alert"
                => alertPopup'.seq > lastAlertSeq]_vars
  <2> SUFFICES ASSUME alertMode' >= 0, alertMode' # alertMode, alertPopup'.kind = "alert"
               PROVE  alertPopup'.seq > lastAlertSeq
    OBVIOUS
  <2>1. EndReceivedMessage \/ ReceivePushMessage
    BY <1>1 DEF Next, Receive, vars, alert, PrinterShows, PrinterWithdraws,
                StartReceivedMessage, ReceiveStatus, ReceiveMessageBox, ReceiveResponse,
                MessageIsCutOff, Spin, Screensaver, HandleTouch, Press, Release, Reconnect,
                FingerDown, FingerUp, TimePasses, ClearAlert, ClearAlertOrResponse, RemoveBox
  <2>2. alertPopup \in Contents /\ lastAlertSeq \in 0..MaxBoxes /\ currentAlert \in Alerts
    BY <1>1 DEF ScreenInv, Types, BoxInv, BoxTypes
  <2>3. ASSUME NEW kind, NEW timed, SetText(kind, timed)  PROVE alertPopup'.kind = kind
    BY <2>2, <2>3 DEF SetText, Contents
  <2>4. ~ReceivePushMessage
    <3>1. ~ProcessSimpleAlert
      <4>1. \A kind, timed : SetText(kind, timed) => alertPopup'.kind = kind  BY <2>3
      <4> QED  BY <4>1 DEF ProcessSimpleAlert, alert
    <3>2. ~ClearAlert  BY DEF ClearAlert, RemoveBox, alert
    <3> QED  BY <3>1, <3>2 DEF ReceivePushMessage
  <2>5. NewAlert /\ ProcessAlert(currentAlert)
    BY <2>1, <2>3, <2>4 DEF EndReceivedMessage, NewResponseReceived, ClearAlert, RemoveBox,
                            alert
  <2>6. alertPopup'.seq = currentAlert.seq  BY <2>5 DEF ProcessAlert
  <2> QED  BY <1>1, <2>2, <2>5, <2>6 DEF NewAlert, ScreenInv, Numbered, Alerts
<1> QED  BY <1>1, ScreenInvariant, PTL DEF Spec, EachBoxOnce

\* An M292 that ProcessTouch sends bears the number of the alert that is shown, on top,
\* whatever has been shown in the same popup since.
THEOREM AnswerBelongs == Spec => AnswerIsForBox
<1>1. ASSUME ScreenInv, [Next]_vars
      PROVE  [answer' > 0 /\ answer' # answer
                => alertPopup.kind = "alert" /\ answer' = alertPopup.seq
                   /\ OnTop(popups) = "alert"]_vars
  <2> SUFFICES ASSUME answer' > 0, answer' # answer
               PROVE  alertPopup.kind = "alert" /\ answer' = alertPopup.seq
                      /\ OnTop(popups) = "alert"
    OBVIOUS
  <2>1. HandleTouch
    BY <1>1 DEF Next, Receive, vars, PrinterShows, PrinterWithdraws,
                StartReceivedMessage, ReceiveStatus, ReceiveMessageBox, ReceiveResponse,
                ReceivePushMessage, EndReceivedMessage, MessageIsCutOff, Spin, Screensaver,
                Reconnect, FingerDown, FingerUp, TimePasses
  <2>2. PICK ev : ev = ButtonAt(event.place) /\ Press(ev)
    BY <2>1 DEF HandleTouch, Release
  <2>3. ev \in {"evOkAlert", "evChoiceAlert"} /\ answer' = alertPopup.seq
    BY <2>2 DEF Press
  <2>4. OnTop(popups) = "alert" /\ alertPopup.buttons \in 2..7
    BY <2>2, <2>3, ButtonOfWindow
  <2>5. alertPopup.kind = "alert"
    BY <1>1, <2>4 DEF ScreenInv, BoxInv, ButtonsOfKind
  <2> QED  BY <2>3, <2>4, <2>5
<1> QED  BY <1>1, ScreenInvariant, PTL DEF Spec, AnswerIsForBox
=============================================================================
