-------------------------------- MODULE Screen --------------------------------
(***************************************************************************)
(* What is on the screen without the user having asked for it: the box for  *)
(* alerts and responses, and the screensaver; and how the user's finger     *)
(* gets through to the box (src/PanelDue.cpp: the messages' start and end,  *)
(* the main loop; src/UI/UserInterface.cpp: alerts, touches;                *)
(* src/UI/Popup.cpp: the box).                                              *)
(*                                                                         *)
(* The main loop passes through its stages in order: it reads what the      *)
(* printer sent, perhaps half a message; times out the box and reads the    *)
(* touch panel; sees to the screensaver; handles the touch.                 *)
(* The printer shows one box at a time, numbered, until it is answered or   *)
(* withdrawn; every poll's answer tells of the box there was when it was    *)
(* written.  Time is left out except for what is due.  The backlight, which *)
(* only follows the same conditions, is left out too.                       *)
(***************************************************************************)
EXTENDS Integers, Sequences, PopupStack

CONSTANTS
    Modes,        \* of the printer's boxes, a subset of AllModes
    Places,       \* where the finger goes down, a subset of AllPlaces
    MaxBoxes,     \* bound: boxes the printer shows
    MaxMessages,  \* bound: messages received
    MaxTouches    \* bound: how often the finger goes down

\* Info, InfoClose, InfoConfirm, ConfirmCancel, Choices, NumberInt, NumberFloat, Text.
AllModes == 0..7

\* Where a button of the box is, or of the keyboard.
AllPlaces == {"close", "ok", "cancel", "choice", "value"}

ASSUME ScreenAssumption ==
    /\ Modes \subseteq AllModes /\ Places \subseteq AllPlaces
    /\ MaxBoxes \in Nat /\ MaxMessages \in Nat /\ MaxTouches \in Nat

VARIABLES
    printer,                 \* the printer's box and how many it has shown
    answer,                  \* number in the last M292 sent; -1 if it had none
    rx,                      \* how far the message being received has come
    currentAlert, lastAlertSeq,
    alertMode, displayingResponse, alertTicks,
    alertPopup,              \* what the box shows; mode and seq of the last alert
    popups,                  \* windows displayed
    swept,                   \* all popups were removed since the box was filled
    screensaverActive,
    idle,                    \* the last action was as long ago as the screensaver takes
    status,
    finger, event, touched,  \* the finger; the touch as the main loop sees it
    stage,                   \* of the main loop
    messages, touches        \* how many there have been

alert == <<alertMode, displayingResponse, alertTicks, alertPopup, swept>>
touch == <<finger, event, touched, touches>>
saver == <<screensaverActive, idle>>
vars == <<printer, answer, rx, currentAlert, lastAlertSeq, alert, popups, saver, status,
          touch, stage, messages>>

NoBox == [mode |-> -1, seq |-> 0, timed |-> FALSE]
NoAlert == [mode |-> -1, seq |-> 0, gotMode |-> FALSE, timed |-> FALSE]
Untouched == [state |-> "released", place |-> "none"]
Idle == [kind |-> "none", part |-> "idle", box |-> NoBox]

Init ==
    /\ printer = [box |-> NoBox, shown |-> 0] /\ answer = 0
    /\ rx = Idle /\ currentAlert = NoAlert /\ lastAlertSeq = 0
    /\ alertMode = -1 /\ displayingResponse = FALSE /\ alertTicks = FALSE
    /\ alertPopup = [kind |-> "empty", buttons |-> -1, timed |-> FALSE, mode |-> -1, seq |-> 0]
    /\ popups = <<>> /\ swept = FALSE
    /\ screensaverActive = FALSE /\ idle = FALSE /\ status = "connecting"
    /\ finger = "up" /\ event = Untouched /\ touched = FALSE
    /\ stage = "input" /\ messages = 0 /\ touches = 0

-----------------------------------------------------------------------------
(* The box.                                                                 *)

\* Mutant: the timer of the box before goes on.
AlertTicksKept(a) == a.timed \/ alertTicks

\* Only a box that needs no answer has a timeout.
AlertTicks(a) == a.mode < 2 /\ a.timed

ProcessAlert(a) ==
    /\ alertPopup' = [kind |-> "alert", buttons |-> a.mode, timed |-> a.timed,
                      mode |-> a.mode, seq |-> a.seq]
    /\ popups' = SetPopup(popups, "alert") /\ swept' = FALSE
    /\ alertMode' = a.mode /\ displayingResponse' = FALSE
    /\ alertTicks' = AlertTicks(a)

\* The box is removed only if it is on top.
RemoveBox ==
    /\ alertTicks' = FALSE /\ popups' = ClearThisPopup(popups, "alert")
    /\ currentAlert' = [NoAlert EXCEPT !.seq = currentAlert.seq, !.timed = currentAlert.timed]
    /\ alertMode' = -1
    /\ UNCHANGED <<alertPopup, swept>>

ClearAlert ==
    IF alertMode >= 0 THEN RemoveBox /\ UNCHANGED displayingResponse
    ELSE UNCHANGED <<alert, popups, currentAlert>>

ClearAlertOrResponse ==
    IF alertMode >= 0 \/ displayingResponse THEN RemoveBox /\ displayingResponse' = FALSE
    ELSE UNCHANGED <<alert, popups, currentAlert>>

\* Mutant: the buttons of the last alert stay as well.
SetTextOnly(kind, timed) ==
    /\ alertPopup' = [alertPopup EXCEPT !.kind = kind, !.timed = timed]
    /\ popups' = SetPopup(popups, "alert") /\ swept' = FALSE
    /\ alertTicks' = timed

\* A text in the box, with a button to close it; the mode and number of the last alert stay.
SetText(kind, timed) ==
    /\ alertPopup' = [alertPopup EXCEPT !.kind = kind, !.buttons = 1, !.timed = timed]
    /\ popups' = SetPopup(popups, "alert") /\ swept' = FALSE
    /\ alertTicks' = timed

\* Mutant: what was a response still counts as one.
ProcessSimpleAlertAfter ==
    IF alertMode < 2 THEN SetText("simple", FALSE) /\ alertMode' = 1 /\ UNCHANGED displayingResponse
    ELSE UNCHANGED <<alert, popups>>

ProcessSimpleAlert ==
    IF alertMode < 2 THEN SetText("simple", FALSE) /\ alertMode' = 1 /\ displayingResponse' = FALSE
    ELSE UNCHANGED <<alert, popups>>

\* A response is shown unless a box needs an answer, or the page is one where it is not.
NewResponseReceived(isError, onPage) ==
    IF alertMode < 2 /\ onPage
    THEN SetText("response", ~isError) /\ alertMode' = -1 /\ displayingResponse' = TRUE
    ELSE UNCHANGED <<alert, popups>>

ClearAllPopups == popups' = <<>> /\ swept' = TRUE

-----------------------------------------------------------------------------
(* The printer, and what is received from it.                               *)

\* M291: the box replaces the one there is.
PrinterShows ==
    /\ stage = "input" /\ rx = Idle /\ printer.shown < MaxBoxes
    /\ \E m \in Modes, t \in BOOLEAN :
         /\ t => m < 2
         /\ printer' = [box |-> [mode |-> m, seq |-> printer.shown + 1, timed |-> t],
                        shown |-> printer.shown + 1]
    /\ UNCHANGED <<answer, rx, currentAlert, lastAlertSeq, alert, popups, saver, status,
                   touch, stage, messages>>

\* It is answered, or times out, or is withdrawn.
PrinterWithdraws ==
    /\ stage = "input" /\ rx = Idle /\ printer.box # NoBox
    /\ printer.box.mode < 2 \/ answer \in {printer.box.seq, -1}
    /\ printer' = [printer EXCEPT !.box = NoBox]
    /\ UNCHANGED <<answer, rx, currentAlert, lastAlertSeq, alert, popups, saver, status,
                   touch, stage, messages>>

\* The answer to a poll begins, written when the printer's box was this one; or a message
\* that was not asked for.
StartReceivedMessage ==
    /\ stage = "input" /\ rx = Idle
    /\ messages < MaxMessages /\ messages' = messages + 1
    /\ rx' \in {[kind |-> "poll", part |-> "begun", box |-> printer.box],
               [kind |-> "push", part |-> "begun", box |-> NoBox]}
    /\ currentAlert' = [NoAlert EXCEPT !.seq = currentAlert.seq, !.timed = currentAlert.timed]
    /\ UNCHANGED <<printer, answer, lastAlertSeq, alert, popups, saver, status, touch, stage>>

\* Silence, a job's beginning, by a change of page, and its end remove all popups.
ChangeStatus(new) ==
    IF status = "connecting" /\ new = "idle" THEN UNCHANGED <<popups, swept>> ELSE ClearAllPopups

SetStatus(new) ==
    /\ new # status /\ status' = new /\ idle' = FALSE
    /\ ChangeStatus(new)

ReceiveStatus ==
    /\ stage = "input" /\ rx.kind = "poll" /\ rx.part = "begun"
    /\ rx' = [rx EXCEPT !.part = "status"]
    /\ \E new \in {"idle", "printing"} : SetStatus(new)
    /\ UNCHANGED <<printer, answer, currentAlert, lastAlertSeq, alertMode, displayingResponse,
                   alertTicks, alertPopup, screensaverActive, touch, stage, messages>>

\* The fields of state.messageBox; null, or a mode that is none, if there is no box.
ReceiveMessageBox ==
    /\ stage = "input" /\ rx.kind = "poll" /\ rx.part \in {"begun", "status"}
    /\ rx' = [rx EXCEPT !.part = "whole"]
    /\ \/ rx.box = NoBox /\ ClearAlert
       \/ /\ currentAlert' = [mode |-> rx.box.mode, gotMode |-> TRUE, timed |-> rx.box.timed,
                               seq |-> IF rx.box = NoBox THEN currentAlert.seq ELSE rx.box.seq]
          /\ UNCHANGED <<alert, popups>>
    /\ UNCHANGED <<printer, answer, lastAlertSeq, saver, status, touch, stage, messages>>

\* A message field: an alert without a title, or nothing, which clears one.
ReceivePushMessage ==
    /\ stage = "input" /\ rx.kind = "push" /\ rx.part = "begun"
    /\ rx' = [rx EXCEPT !.part = "whole"]
    /\ \/ ProcessSimpleAlert /\ UNCHANGED currentAlert
       \/ ClearAlert
    /\ UNCHANGED <<printer, answer, lastAlertSeq, saver, status, touch, stage, messages>>

\* A resp field, shown at the message's end.
ReceiveResponse ==
    /\ stage = "input" /\ rx.kind = "push" /\ rx.part = "begun"
    /\ rx' = [rx EXCEPT !.part = "response"]
    /\ UNCHANGED <<printer, answer, currentAlert, lastAlertSeq, alert, popups, saver, status,
                   touch, stage, messages>>

\* Mutant: a box is new with every poll.
NewAlertAlways == currentAlert.mode # -1

\* A box, or what has arrived of it, whose number is not that of the last one.
NewAlert == currentAlert.mode # -1 /\ currentAlert.seq # lastAlertSeq

EndReceivedMessage ==
    /\ stage = "input" /\ rx.part \in {"whole", "response"} /\ rx' = Idle
    /\ IF rx.part = "response"
       THEN /\ \E isError, onPage \in BOOLEAN : NewResponseReceived(isError, onPage)
            /\ UNCHANGED <<currentAlert, lastAlertSeq>>
       ELSE IF currentAlert.gotMode /\ currentAlert.mode = -1
       THEN ClearAlert /\ UNCHANGED lastAlertSeq
       ELSE IF NewAlert
       THEN /\ ProcessAlert(currentAlert) /\ lastAlertSeq' = currentAlert.seq
            /\ UNCHANGED currentAlert
       ELSE UNCHANGED <<alert, popups, currentAlert, lastAlertSeq>>
    /\ UNCHANGED <<printer, answer, saver, status, touch, stage, messages>>

\* The rest of a message is lost: its end never comes.
MessageIsCutOff ==
    /\ stage = "input" /\ rx # Idle /\ rx' = Idle
    /\ UNCHANGED <<printer, answer, currentAlert, lastAlertSeq, alert, popups, saver, status,
                   touch, stage, messages>>

-----------------------------------------------------------------------------
(* The stages of the main loop.                                             *)

\* A finger that has just come down counts at once; that it stays, which counts as another
\* press, or has gone, after a while.  Where it was last seen is where it is released.
ReadTouch ==
    \/ /\ finger # "up" /\ touched' = TRUE
       /\ event' = [state |-> "pressed", place |-> finger]
    \/ /\ finger = "up" /\ event.state # "released" /\ touched' = TRUE
       /\ event' = [event EXCEPT !.state = "released"]
    \/ /\ finger = "up" \/ event.state # "released"
       /\ touched' = FALSE /\ UNCHANGED event

\* The input is read.  A box with a timeout may have reached it; the touch is read.
Spin ==
    /\ stage = "input" /\ stage' = "saver" /\ ReadTouch
    /\ \/ alertTicks /\ ClearAlertOrResponse
       \/ UNCHANGED <<alert, popups, currentAlert>>
    /\ UNCHANGED <<printer, answer, rx, lastAlertSeq, saver, status, finger, touches, messages>>

\* Mutant: it is forgotten.
DeactivateScreensaverAlways ==
    screensaverActive' = FALSE /\ popups' = ClearThisPopup(popups, "screensaver")

\* While something lies above the screensaver, it stays and is not forgotten.
DeactivateScreensaver ==
    IF screensaverActive /\ (IsPopupActive(popups, "screensaver")
                                => OnTop(popups) = "screensaver")
    THEN screensaverActive' = FALSE /\ popups' = ClearThisPopup(popups, "screensaver")
    ELSE UNCHANGED <<screensaverActive, popups>>

\* Not while the message received last had a box to confirm.
ActivateScreensaver ==
    IF currentAlert.mode \in {2, 3} \/ screensaverActive
    THEN UNCHANGED <<screensaverActive, popups>>
    ELSE screensaverActive' = TRUE /\ popups' = SetPopup(popups, "screensaver")

\* Mutant: a job that begins does not end it.
IdleStatusToo == status # "connecting"

IdleStatus == status = "idle"

Screensaver ==
    /\ stage = "saver" /\ stage' = (IF touched THEN "press" ELSE "input") /\ touched' = FALSE
    /\ idle' = (idle /\ ~NewAlert)
    /\ IF idle' /\ IdleStatus THEN ActivateScreensaver ELSE DeactivateScreensaver
    /\ UNCHANGED <<printer, answer, rx, currentAlert, lastAlertSeq, alert, status, finger,
                   event, touches, messages>>

\* AlertPopup::Set: the button of the box at a place.  A box that asks for something is
\* taken to have a button to cancel it, as most have.
BoxButton(place, mode) ==
    CASE place = "close" /\ mode = 1 -> "evCancel"
      [] place = "ok" /\ mode \in {2, 3, 5, 6, 7} -> "evOkAlert"
      [] place = "cancel" /\ mode \in 3..7 -> "evCloseAlert"
      [] place = "choice" /\ mode = 4 -> "evChoiceAlert"
      [] place = "value" /\ mode \in {5, 6, 7} -> "evEditAlert"
      [] OTHER -> "evNull"

\* Mutant: every popup has a button to close it.
ButtonAtClosing(place) ==
    IF place = "close" THEN "evCancel" ELSE BoxButton(place, alertPopup.buttons)

\* FindEvent: the button at a place, in the window on top.
ButtonAt(place) ==
    CASE OnTop(popups) = "alert" -> BoxButton(place, alertPopup.buttons)
      [] OnTop(popups) = "keyboard" /\ place = "ok" -> "evSendKeyboardCommand"
      [] OnTop(popups) = "keyboard" /\ place = "close" -> "evCancel"
      [] OTHER -> "evNull"

\* ProcessTouch: M292 bears the number of the alert, if its mode is one to answer so;
\* cancelling bears none.
Press(ev) ==
    /\ answer' = CASE ev = "evOkAlert" /\ alertPopup.mode \in {2, 3, 5, 6, 7} -> alertPopup.seq
                   [] ev = "evChoiceAlert" /\ alertPopup.mode = 4 -> alertPopup.seq
                   [] ev = "evCloseAlert" -> -1
                   [] OTHER -> answer
    /\ popups' = CASE ev = "evCancel" -> ClearPopup(popups)
                   [] ev = "evEditAlert" -> SetPopup(popups, "keyboard")
                   [] ev = "evSendKeyboardCommand" -> ClearThisPopup(popups, "keyboard")
                   [] OTHER -> popups
    /\ idle' = FALSE
    /\ UNCHANGED <<alert, currentAlert, screensaverActive>>

\* ProcessRelease: the box goes when the button that answered it is released.
Release(ev) ==
    /\ IF ev \in {"evOkAlert", "evCloseAlert", "evChoiceAlert"} THEN ClearAlertOrResponse
       ELSE UNCHANGED <<alert, popups, currentAlert>>
    /\ UNCHANGED <<answer, saver>>

HandleTouch ==
    /\ stage = "press" /\ stage' = "input"
    /\ IF event.state = "released"
       THEN Release(ButtonAt(event.place)) /\ event' = Untouched
       ELSE Press(ButtonAt(event.place)) /\ UNCHANGED event
    /\ UNCHANGED <<printer, rx, lastAlertSeq, status, finger, touched, touches, messages>>

\* The printer has not answered for too long.
Reconnect ==
    /\ stage = "input" /\ rx = Idle /\ SetStatus("connecting")
    /\ UNCHANGED <<printer, answer, rx, currentAlert, lastAlertSeq, alertMode, displayingResponse,
                   alertTicks, alertPopup, screensaverActive, touch, stage, messages>>

-----------------------------------------------------------------------------
FingerDown ==
    /\ stage = "input" /\ finger = "up" /\ touches < MaxTouches /\ touches' = touches + 1
    /\ finger' \in Places
    /\ UNCHANGED <<printer, answer, rx, currentAlert, lastAlertSeq, alert, popups, saver,
                   status, event, touched, stage, messages>>

FingerUp ==
    /\ stage = "input" /\ finger # "up" /\ finger' = "up"
    /\ UNCHANGED <<printer, answer, rx, currentAlert, lastAlertSeq, alert, popups, saver,
                   status, event, touched, touches, stage, messages>>

\* Nothing was touched for the screensaver's time.
TimePasses ==
    /\ stage = "input" /\ ~idle /\ idle' = TRUE
    /\ UNCHANGED <<printer, answer, rx, currentAlert, lastAlertSeq, alert, popups,
                   screensaverActive, status, touch, stage, messages>>

Receive ==
    \/ StartReceivedMessage \/ ReceiveStatus \/ ReceiveMessageBox \/ ReceivePushMessage
    \/ ReceiveResponse \/ EndReceivedMessage \/ MessageIsCutOff

Next ==
    \/ PrinterShows \/ PrinterWithdraws \/ Receive
    \/ Spin \/ Screensaver \/ HandleTouch \/ Reconnect
    \/ FingerDown \/ FingerUp \/ TimePasses

Spec == Init /\ [][Next]_vars

-----------------------------------------------------------------------------
(* Properties.                                                              *)

TypeOK ==
    /\ lastAlertSeq \in 0..MaxBoxes /\ answer \in -1..MaxBoxes
    /\ alertMode \in Modes \cup {-1, 1}
    /\ alertPopup.kind \in {"empty", "alert", "simple", "response"}
    /\ \A i \in 1..Len(popups) : popups[i] \in {"alert", "keyboard", "screensaver"}

\* What the panel takes the box to be is what the box shows, an alert of that mode or a
\* response, however they follow upon each other.
BoxIsOfMode ==
    /\ alertMode >= 0 => ~displayingResponse /\ alertPopup.buttons = alertMode
    /\ displayingResponse => alertPopup.kind = "response"

\* The timer that removes a box was set by the box that is shown, one that needs no
\* answer: a box that needs one is never removed because an earlier one's time is over.
TimerIsOfBox == alertTicks => alertPopup.timed /\ alertPopup.buttons < 2

\* A box that the panel takes to be waiting for an answer is displayed, though perhaps
\* under another window; only what removes all popups removes it unanswered.
WaitingBoxIsThere == alertMode >= 2 => IsPopupActive(popups, "alert") \/ swept

\* A box that has gone does not come back, although the printer goes on to tell of it
\* until it has the answer: those shown are newer and newer.
EachBoxOnce ==
    [][alertMode' >= 0 /\ alertMode' # alertMode /\ alertPopup'.kind = "alert"
         => alertPopup'.seq > lastAlertSeq]_vars

\* An answer bears the number of the box that is shown, whatever was shown in the same
\* popup since the printer's last box.
AnswerIsForBox ==
    [][answer' > 0 /\ answer' # answer
         => alertPopup.kind = "alert" /\ answer' = alertPopup.seq /\ OnTop(popups) = "alert"]_vars

\* The screensaver is never on the screen without the main loop knowing it, which would
\* leave a black window that has no button and that nothing removes.
ScreensaverIsKnown == IsPopupActive(popups, "screensaver") => screensaverActive

\* When a touch is handled the screensaver is on top only if the one before is long ago
\* and the printer idle, so that every further touch gets through to what is seen.
ScreensaverOnlyIdle ==
    stage = "press" /\ OnTop(popups) = "screensaver" => idle /\ status = "idle"
=============================================================================
