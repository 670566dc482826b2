------------------------------- MODULE Settings -------------------------------
(***************************************************************************)
(* The settings the panel keeps in flash (src/FlashData.cpp, SaveSettings,  *)
(* FactoryReset and CalibrateTouch of src/PanelDue.cpp, the Setup page of   *)
(* src/UI/UserInterface.cpp) and the buzzer a save waits for                *)
(* (src/Hardware/Buzzer.cpp, counted down by the tick interrupt).           *)
(*                                                                         *)
(* Of the settings there are three: how the display is turned, for which    *)
(* way of turning it the touch panel was calibrated, and any other.  What   *)
(* flash holds is settings or, with another magic number, nothing of use.   *)
(* Flash may fail to be read, erased or written, and the power may go at    *)
(* any time; that a write over what was not erased mixes the bits of both   *)
(* is left out.                                                             *)
(***************************************************************************)
EXTENDS Integers

CONSTANTS
    Values,       \* of the other settings; 0 is the default
    BeepTicks,    \* how long a beep lasts
    MaxFailures,  \* bound: accesses to flash that fail
    MaxPowerCuts, \* bound
    MaxTurns      \* bound: changes of a setting

VARIABLES
    flash,        \* what is kept
    nvData, savedNvData,
    page,         \* page displayed: "setup" or another
    step, then,   \* what the main loop is at, and is at after that
    beepTicksToGo, inBuzzer,
    failures, powerCuts, turns

ram == <<nvData, savedNvData, page, step, then>>
buzzer == <<beepTicksToGo, inBuzzer>>
bounds == <<failures, powerCuts, turns>>
settingsVars == <<flash, ram, buzzer, bounds>>

Turned == {"normal", "mirrored"}
SetDefaults == [magic |-> TRUE, lcd |-> "normal", touch |-> "none", value |-> 0]
SetInvalid(s) == [s EXCEPT !.magic = FALSE]
IsValid(s) == s.magic

\* What an access to flash finds or leaves, which may be a failure.
Attempt(done, failed) ==
    \/ done /\ UNCHANGED failures
    \/ failed /\ failures < MaxFailures /\ failures' = failures + 1

\* The constructor of nvData and savedNvData makes them valid.
Reset ==
    /\ nvData' = SetDefaults /\ savedNvData' = SetDefaults
    /\ page' = "other" /\ step' = "start" /\ then' = "run"
    /\ beepTicksToGo' = 0 /\ inBuzzer' = FALSE

SettingsInit ==
    /\ flash \in {SetInvalid(SetDefaults)} \cup
                 {[magic |-> TRUE, lcd |-> t, touch |-> t, value |-> 0] : t \in Turned}
    /\ nvData = SetDefaults /\ savedNvData = SetDefaults
    /\ page = "other" /\ step = "start" /\ then = "run"
    /\ beepTicksToGo = 0 /\ inBuzzer = FALSE
    /\ failures = 0 /\ powerCuts = 0 /\ turns = 0

Goto(s, t) == step' = s /\ then' = t

-----------------------------------------------------------------------------
(* The start.                                                               *)

\* Mutant: the magic number of the defaults is still there when the read fails.
LoadOver(s, ok) == IF ok THEN flash ELSE s

Load(s, ok) == IF ok THEN flash ELSE SetInvalid(s)

Start ==
    /\ step = "start"
    /\ \E ok \in BOOLEAN :
         /\ Attempt(ok, ~ok)
         /\ LET loaded == Load(nvData, ok)
            IN  IF IsValid(loaded)
                THEN nvData' = loaded /\ savedNvData' = loaded /\ Goto("run", "run")
                ELSE nvData' = SetDefaults /\ UNCHANGED savedNvData /\ Goto("calibrate", "save")
    /\ UNCHANGED <<flash, page, buzzer, powerCuts, turns>>

\* The user touches the spots.
CalibrateTouch ==
    /\ step = "calibrate" /\ nvData' = [nvData EXCEPT !.touch = nvData.lcd]
    /\ Goto("beep", then)
    /\ UNCHANGED <<flash, savedNvData, page, buzzer, bounds>>

-----------------------------------------------------------------------------
(* Saving.                                                                  *)

WaitForBuzzer ==
    /\ step = "save" /\ beepTicksToGo = 0
    /\ step' = "erase"
    /\ nvData' = (IF then = "factory" THEN SetInvalid(nvData) ELSE nvData)
    /\ UNCHANGED <<flash, savedNvData, page, then, buzzer, bounds>>

EraseFlash ==
    /\ step = "erase"
    /\ Attempt(flash' = SetInvalid(flash), UNCHANGED flash)
    /\ step' = "write"
    /\ UNCHANGED <<nvData, savedNvData, page, then, buzzer, powerCuts, turns>>

WriteFlash ==
    /\ step = "write"
    /\ Attempt(flash' = nvData, UNCHANGED flash)
    /\ step' = "written"
    /\ UNCHANGED <<nvData, savedNvData, page, then, buzzer, powerCuts, turns>>

\* Mutant: what should be in flash is taken for what is.
SavedCopy(ok) == nvData

Saved(ok) == Load(savedNvData, ok)

\* The end of SaveSettings, and of the save in FactoryReset.
AfterSave ==
    /\ step = "written"
    /\ IF then = "factory"
       THEN savedNvData' = nvData /\ UNCHANGED failures
       ELSE \E ok \in BOOLEAN : Attempt(ok, ~ok) /\ savedNvData' = Saved(ok)
    /\ CASE then = "factory" -> Goto("beep", "silence") /\ UNCHANGED page
         [] then = "leave" -> Goto("run", "run") /\ page' = "other"
         [] OTHER -> Goto(then, "run") /\ UNCHANGED page
    /\ UNCHANGED <<flash, nvData, buzzer, powerCuts, turns>>

ResetAfterSave ==
    /\ \/ step = "reset"
       \/ step = "silence" /\ beepTicksToGo = 0
    /\ Reset /\ UNCHANGED <<flash, bounds>>

-----------------------------------------------------------------------------
(* The buzzer.                                                              *)

\* Nothing happens at volume 0, which a touch may have and a factory reset has not.
Beep ==
    /\ step = "beep"
    /\ \/ step' = "sound" /\ inBuzzer' = TRUE /\ UNCHANGED then
       \/ then # "silence" /\ Goto(then, "run") /\ UNCHANGED inBuzzer
    /\ UNCHANGED <<flash, nvData, savedNvData, page, beepTicksToGo, bounds>>

\* Mutant: the tick interrupt is never told to go on.
BeepSoundsKept ==
    /\ step = "sound" /\ Goto(then, "run")
    /\ beepTicksToGo' = (IF beepTicksToGo = 0 THEN BeepTicks ELSE beepTicksToGo)
    /\ UNCHANGED <<flash, nvData, savedNvData, page, inBuzzer, bounds>>

\* A beep that still sounds is left as it is.
BeepSounds ==
    /\ step = "sound" /\ Goto(then, "run")
    /\ beepTicksToGo' = (IF beepTicksToGo = 0 THEN BeepTicks ELSE beepTicksToGo)
    /\ inBuzzer' = FALSE
    /\ UNCHANGED <<flash, nvData, savedNvData, page, bounds>>

Tick ==
    /\ ~inBuzzer /\ beepTicksToGo # 0 /\ beepTicksToGo' = beepTicksToGo - 1
    /\ UNCHANGED <<flash, ram, inBuzzer, bounds>>

-----------------------------------------------------------------------------
(* The user.  Every touch of a button beeps.                                *)

Turn == step = "run" /\ turns < MaxTurns /\ turns' = turns + 1

ShowSetup ==
    /\ step = "run" /\ page = "other" /\ page' = "setup" /\ Goto("beep", "run")
    /\ UNCHANGED <<flash, nvData, savedNvData, buzzer, bounds>>

\* A setting of the Setup page: kept once the page is left.
ChangeSetting ==
    /\ Turn /\ page = "setup" /\ Goto("beep", "run")
    /\ \E v \in Values : nvData' = [nvData EXCEPT !.value = v]
    /\ UNCHANGED <<flash, savedNvData, page, buzzer, failures, powerCuts>>

\* The orientation of the Z buttons (Setup page) and a column of the home page are saved
\* at once; so are language and colours, and the panel starts again if they have changed.
ChangeAndSave(after) ==
    /\ Turn /\ Goto("beep", after)
    /\ \E v \in Values : nvData' = [nvData EXCEPT !.value = v]
    /\ UNCHANGED <<flash, savedNvData, page, buzzer, failures, powerCuts>>

ChangeSaved == ChangeAndSave("saveRun")

ChangeColours == page = "setup" /\ ChangeAndSave("saveReset") /\ nvData'.value # nvData.value

\* MirrorDisplay or InvertDisplay, which leads to CalibrateTouch.
TurnDisplay ==
    /\ Turn /\ page = "setup" /\ Goto("beep", "turn")
    /\ \E t \in Turned \ {nvData.lcd} : nvData' = [nvData EXCEPT !.lcd = t]
    /\ UNCHANGED <<flash, savedNvData, page, buzzer, failures, powerCuts>>

FactoryReset ==
    /\ Turn /\ page = "setup" /\ Goto("beep", "saveFactory")
    /\ UNCHANGED <<flash, nvData, savedNvData, page, buzzer, failures, powerCuts>>

\* What a button does after its beep.
ButtonGoesOn ==
    /\ \/ step = "saveRun" /\ Goto("save", "run")
       \/ step = "saveReset" /\ Goto("save", "reset")
       \/ step = "saveFactory" /\ Goto("save", "factory")
       \/ step = "turn" /\ Goto("calibrate", "run")
    /\ UNCHANGED <<flash, nvData, savedNvData, page, buzzer, bounds>>

\* Mutant: a field the comparison leaves out.
IsSaveNeededValue == nvData.value # savedNvData.value

IsSaveNeeded == nvData # savedNvData

\* ChangePage: another page is touched, or a print has started.
LeaveSetup ==
    /\ step = "run" /\ page = "setup"
    /\ IF IsSaveNeeded THEN Goto("save", "leave") /\ UNCHANGED page
       ELSE Goto("run", "run") /\ page' = "other"
    /\ UNCHANGED <<flash, nvData, savedNvData, buzzer, bounds>>

\* The power goes, at any step, or the printer resets the panel.
PowerCut ==
    /\ powerCuts < MaxPowerCuts /\ powerCuts' = powerCuts + 1
    /\ Reset /\ UNCHANGED <<flash, failures, turns>>

MainLoop ==
    \/ Start \/ WaitForBuzzer \/ EraseFlash \/ WriteFlash \/ AfterSave \/ ResetAfterSave
    \/ Beep \/ BeepSounds \/ ButtonGoesOn

User ==
    \/ ShowSetup \/ ChangeSetting \/ ChangeSaved \/ ChangeColours \/ TurnDisplay
    \/ FactoryReset \/ CalibrateTouch \/ LeaveSetup

SettingsNext == MainLoop \/ User \/ Tick \/ PowerCut

\* The main loop goes on, and the tick interrupt comes every millisecond.
SettingsFairness == WF_settingsVars(MainLoop) /\ WF_settingsVars(Tick)

SettingsSpec == SettingsInit /\ [][SettingsNext]_settingsVars /\ SettingsFairness

-----------------------------------------------------------------------------
(* Properties.                                                              *)

\* The panel is never used with a calibration that was not made for the way its display
\* is turned, and flash holds none: neither the defaults nor a display turned back by a
\* loss of power between the turn and the save pass for calibrated.
CalibratedAsTurned ==
    /\ step = "run" => nvData.touch = nvData.lcd
    /\ IsValid(flash) => flash.touch = flash.lcd

\* Off the Setup page flash holds what is in use, unless an access to it has failed:
\* what the user changed is there after the next start.
KeptWhenLeft == step = "run" /\ page = "other" /\ failures = 0 => flash = nvData

\* If flash does not hold what is in use, because a save has failed or is still to come,
\* the panel knows, and leaving the Setup page saves again.
FailureIsKnown == step = "run" /\ savedNvData = nvData => flash = nvData

\* A save, which waits for the buzzer's interrupt, comes to an end.
SaveGoesOn == step = "save" ~> step \in {"run", "start"}
=============================================================================
