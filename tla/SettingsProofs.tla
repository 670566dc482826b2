---------------------------- MODULE SettingsProofs ----------------------------
(***************************************************************************)
(* The safety of the settings in flash, for all values of a setting and any *)
(* number of failures, losses of power and changes.                         *)
(***************************************************************************)
EXTENDS Settings, TLAPS

AnySettings ==
    [magic : BOOLEAN, lcd : Turned, touch : Turned \cup {"none"}, value : Values \cup {0}]

\* The buttons' beep, or the calibration, and then this.
GoesOnTo(a) == step \in {"calibrate", "beep", "sound"} /\ then = a

SettingsTypes ==
    /\ flash \in AnySettings /\ nvData \in AnySettings /\ savedNvData \in AnySettings
    /\ failures \in Nat
    /\ step = "calibrate" => then \in {"save", "run"}
    /\ step \in {"beep", "sound"}
         => then \in {"run", "turn", "save", "saveRun", "saveReset", "saveFactory", "silence"}
    /\ step \in {"save", "erase", "write", "written"}
         => then \in {"run", "leave", "reset", "factory"}

\* Only from a turn of the display until the touch panel is calibrated, which nothing but
\* a loss of power can prevent, what is in use is not calibrated.
Calibrated ==
    /\ nvData.touch = nvData.lcd \/ step \in {"start", "calibrate", "turn"} \/ GoesOnTo("turn")
    /\ IsValid(flash) => flash.touch = flash.lcd

\* Settings are invalidated in RAM only when they are about to be given up.
InvalidWhenGivenUp ==
    \/ IsValid(nvData)
    \/ step \in {"erase", "write", "written"} /\ then = "factory"
    \/ step = "silence" \/ GoesOnTo("silence")

\* Nothing is known of flash before the first save and during any.
SaveInProgress ==
    \/ step \in {"start", "save", "erase", "write", "written", "reset", "silence"}
    \/ GoesOnTo("save") \/ GoesOnTo("silence")

SavedIsFlash == SaveInProgress \/ savedNvData = flash \/ ~IsValid(savedNvData)

\* What has nothing more to save.
NothingToSave == step \in {"run", "turn"} \/ GoesOnTo("run") \/ GoesOnTo("turn")

Kept ==
    /\ failures = 0 /\ step = "written" => flash = nvData
    /\ failures = 0 /\ page = "other" /\ NothingToSave => flash = nvData
    /\ step = "turn" \/ GoesOnTo("turn") \/ (step = "calibrate" /\ then = "run")
         => page = "setup"

SettingsInv == SettingsTypes /\ Calibrated /\ InvalidWhenGivenUp /\ SavedIsFlash /\ Kept
-----------------------------------------------------------------------------
LEMMA SomeSettings ==
    /\ SetDefaults \in AnySettings /\ IsValid(SetDefaults)
    /\ \A s \in AnySettings :
         SetInvalid(s) \in AnySettings /\ ~IsValid(SetInvalid(s))
<1>1. SetDefaults \in AnySettings /\ IsValid(SetDefaults)
  BY DEF SetDefaults, AnySettings, Turned, IsValid
<1>2. ASSUME NEW s \in AnySettings
      PROVE  SetInvalid(s) \in AnySettings /\ ~IsValid(SetInvalid(s))
  BY DEF SetInvalid, AnySettings, IsValid
<1> QED  BY <1>1, <1>2

\* An access either does what it should or counts as a failure.
LEMMA AttemptCounts ==
    ASSUME failures \in Nat, NEW done, NEW failed, Attempt(done, failed)
    PROVE  /\ failures' \in Nat /\ (done \/ failed)
           /\ failures' = 0 => failures = 0 /\ done
BY DEF Attempt

\* Nothing has been changed, or it begins to be.
LEMMA ResetKeeps ==
    ASSUME SettingsInv, Reset, UNCHANGED <<flash, failures>>
    PROVE  SettingsInv'
<1>1. /\ nvData' = SetDefaults /\ savedNvData' = SetDefaults /\ step' = "start"
      /\ page' = "other"
  BY DEF Reset
<1>2. SettingsTypes'  BY <1>1, SomeSettings DEF SettingsInv, SettingsTypes
<1>3. Calibrated'  BY <1>1 DEF SettingsInv, Calibrated
<1>4. InvalidWhenGivenUp' /\ SavedIsFlash'
  BY <1>1, SomeSettings DEF InvalidWhenGivenUp, SavedIsFlash, SaveInProgress
<1>5. Kept'  BY <1>1 DEF Kept, NothingToSave, GoesOnTo
<1> QED  BY <1>2, <1>3, <1>4, <1>5 DEF SettingsInv

\* The beep of a button and what comes after it; the parts of a save that touch no flash.
LEMMA StepKeeps ==
    ASSUME SettingsInv,
           Beep \/ BeepSounds \/ ButtonGoesOn \/ CalibrateTouch \/ WaitForBuzzer
    PROVE  SettingsInv'
<1>1. UNCHANGED <<flash, savedNvData, page, failures>>
  BY DEF Beep, BeepSounds, ButtonGoesOn, CalibrateTouch, WaitForBuzzer, bounds
<1>2. CASE Beep \/ BeepSounds
  <2>1. /\ UNCHANGED nvData /\ step \in {"beep", "sound"}
        /\ \/ step' = "sound" /\ then' = then
           \/ step' = then /\ then' = "run"
    BY <1>2 DEF Beep, BeepSounds, Goto
  <2>2. SettingsTypes'  BY <1>1, <2>1 DEF SettingsInv, SettingsTypes
  <2>3. Calibrated'  BY <1>1, <2>1 DEF SettingsInv, Calibrated, GoesOnTo
  <2>4. InvalidWhenGivenUp'  BY <1>1, <2>1 DEF SettingsInv, InvalidWhenGivenUp, GoesOnTo
  <2>5. SavedIsFlash'
    BY <1>1, <2>1 DEF SettingsInv, SavedIsFlash, SaveInProgress, GoesOnTo
  <2>6. Kept'
    BY <1>1, <2>1 DEF SettingsInv, SettingsTypes, Kept, NothingToSave, GoesOnTo
  <2> QED  BY <2>2, <2>3, <2>4, <2>5, <2>6 DEF SettingsInv
<1>3. CASE ButtonGoesOn
  <2>1. /\ UNCHANGED nvData
        /\ \/ step \in {"saveRun", "saveReset", "saveFactory"} /\ step' = "save"
              /\ then' \in {"run", "reset", "factory"}
           \/ step = "turn" /\ step' = "calibrate" /\ then' = "run"
    BY <1>3 DEF ButtonGoesOn, Goto
  <2>2. SettingsTypes'  BY <1>1, <2>1 DEF SettingsInv, SettingsTypes
  <2>3. Calibrated'  BY <1>1, <2>1 DEF SettingsInv, Calibrated, GoesOnTo
  <2>4. InvalidWhenGivenUp'  BY <1>1, <2>1 DEF SettingsInv, InvalidWhenGivenUp, GoesOnTo
  <2>5. SavedIsFlash'
    BY <1>1, <2>1 DEF SettingsInv, SavedIsFlash, SaveInProgress, GoesOnTo
  <2>6. Kept'  BY <1>1, <2>1 DEF SettingsInv, Kept, NothingToSave, GoesOnTo
  <2> QED  BY <2>2, <2>3, <2>4, <2>5, <2>6 DEF SettingsInv
<1>4. CASE CalibrateTouch
  <2>1. /\ step = "calibrate" /\ step' = "beep" /\ then' = then
        /\ nvData' = [nvData EXCEPT !.touch = nvData.lcd]
    BY <1>4 DEF CalibrateTouch, Goto
  <2>2. /\ nvData' \in AnySettings /\ nvData'.touch = nvData'.lcd
        /\ IsValid(nvData') <=> IsValid(nvData)
    BY <2>1 DEF SettingsInv, SettingsTypes, AnySettings, IsValid
  <2>3. SettingsTypes'  BY <1>1, <2>1, <2>2 DEF SettingsInv, SettingsTypes
  <2>4. Calibrated'  BY <1>1, <2>2 DEF SettingsInv, Calibrated
  <2>5. InvalidWhenGivenUp'
    BY <1>1, <2>1, <2>2 DEF SettingsInv, InvalidWhenGivenUp, GoesOnTo
  <2>6. SavedIsFlash'
    BY <1>1, <2>1 DEF SettingsInv, SavedIsFlash, SaveInProgress, GoesOnTo
  <2>7. Kept'
    BY <1>1, <2>1 DEF SettingsInv, SettingsTypes, Kept, NothingToSave, GoesOnTo
  <2> QED  BY <2>3, <2>4, <2>5, <2>6, <2>7 DEF SettingsInv
<1>5. CASE WaitForBuzzer
  <2>1. /\ step = "save" /\ step' = "erase" /\ then' = then
        /\ nvData' \in {nvData, SetInvalid(nvData)}
        /\ nvData' = nvData \/ then = "factory"
    BY <1>5 DEF WaitForBuzzer
  <2>2. nvData' \in AnySettings /\ nvData'.touch = nvData.touch /\ nvData'.lcd = nvData.lcd
    BY <2>1 DEF SettingsInv, SettingsTypes, AnySettings, SetInvalid
  <2>3. SettingsTypes'  BY <1>1, <2>1, <2>2 DEF SettingsInv, SettingsTypes
  <2>4. Calibrated'  BY <1>1, <2>1, <2>2 DEF SettingsInv, Calibrated, GoesOnTo
  <2>5. InvalidWhenGivenUp'  BY <1>1, <2>1 DEF SettingsInv, InvalidWhenGivenUp, GoesOnTo
  <2>6. SavedIsFlash' /\ Kept'
    BY <1>1, <2>1 DEF SavedIsFlash, SaveInProgress, Kept, NothingToSave, GoesOnTo
  <2> QED  BY <2>3, <2>4, <2>5, <2>6 DEF SettingsInv
<1> QED  BY <1>2, <1>3, <1>4, <1>5

LEMMA StartKeeps ==
    ASSUME SettingsInv, Start
    PROVE  SettingsInv'
<1>1. UNCHANGED <<flash, page>> /\ step = "start"  BY DEF Start
<1>2. PICK ok \in BOOLEAN :
        /\ Attempt(ok, ~ok)
        /\ IF IsValid(Load(nvData, ok))
           THEN /\ nvData' = Load(nvData, ok) /\ savedNvData' = Load(nvData, ok)
                /\ Goto("run", "run")
           ELSE nvData' = SetDefaults /\ UNCHANGED savedNvData /\ Goto("calibrate", "save")
  BY DEF Start
<1>3. failures' \in Nat /\ (failures' = 0 => failures = 0)
  BY <1>2 DEF SettingsInv, SettingsTypes, Attempt
<1>4. CASE IsValid(Load(nvData, ok))
  <2>1. Load(nvData, ok) = flash /\ IsValid(flash)
    BY <1>4, SomeSettings DEF Load, SettingsInv, SettingsTypes
  <2>2. nvData' = flash /\ savedNvData' = flash /\ step' = "run"
    BY <1>2, <1>4, <2>1 DEF Goto
  <2>3. SettingsTypes'  BY <1>1, <1>3, <2>2 DEF SettingsInv, SettingsTypes
  <2>4. Calibrated'  BY <1>1, <2>1, <2>2 DEF SettingsInv, Calibrated
  <2>5. InvalidWhenGivenUp' /\ SavedIsFlash'
    BY <1>1, <2>1, <2>2 DEF InvalidWhenGivenUp, SavedIsFlash
  <2>6. Kept'  BY <1>1, <2>2 DEF Kept, NothingToSave, GoesOnTo
  <2> QED  BY <2>3, <2>4, <2>5, <2>6 DEF SettingsInv
<1>5. CASE ~IsValid(Load(nvData, ok))
  <2>1. /\ nvData' = SetDefaults /\ UNCHANGED savedNvData /\ step' = "calibrate"
        /\ then' = "save"
    BY <1>2, <1>5 DEF Goto
  <2>2. SettingsTypes'  BY <1>1, <1>3, <2>1, SomeSettings DEF SettingsInv, SettingsTypes
  <2>3. Calibrated'  BY <1>1, <2>1 DEF SettingsInv, Calibrated
  <2>4. InvalidWhenGivenUp' /\ SavedIsFlash'
    BY <2>1, SomeSettings DEF InvalidWhenGivenUp, SavedIsFlash, SaveInProgress, GoesOnTo
  <2>5. Kept'  BY <2>1 DEF Kept, NothingToSave, GoesOnTo
  <2> QED  BY <2>2, <2>3, <2>4, <2>5 DEF SettingsInv
<1> QED  BY <1>4, <1>5

\* Flash is erased and written.
LEMMA FlashKeeps ==
    ASSUME SettingsInv, EraseFlash \/ WriteFlash
    PROVE  SettingsInv'
<1>1. UNCHANGED <<nvData, savedNvData, page, then>>  BY DEF EraseFlash, WriteFlash
<1>2. CASE EraseFlash
  <2>1. /\ step = "erase" /\ step' = "write" /\ failures' \in Nat
        /\ flash' \in {flash, SetInvalid(flash)}
    BY <1>2 DEF EraseFlash, Attempt, SettingsInv, SettingsTypes
  <2>2. flash' \in AnySettings /\ (IsValid(flash') => flash' = flash)
    BY <2>1, SomeSettings DEF SettingsInv, SettingsTypes
  <2>3. SettingsTypes'  BY <1>1, <2>1, <2>2 DEF SettingsInv, SettingsTypes
  <2>4. Calibrated'  BY <1>1, <2>1, <2>2 DEF SettingsInv, Calibrated, GoesOnTo
  <2>5. InvalidWhenGivenUp'  BY <1>1, <2>1 DEF SettingsInv, InvalidWhenGivenUp, GoesOnTo
  <2>6. SavedIsFlash' /\ Kept'
    BY <2>1 DEF SavedIsFlash, SaveInProgress, Kept, NothingToSave, GoesOnTo
  <2> QED  BY <2>3, <2>4, <2>5, <2>6 DEF SettingsInv
<1>3. CASE WriteFlash
  <2>1. /\ step = "write" /\ step' = "written" /\ failures' \in Nat
        /\ flash' \in {flash, nvData} /\ (failures' = 0 => flash' = nvData)
    BY <1>3 DEF WriteFlash, Attempt, SettingsInv, SettingsTypes
  <2>2. SettingsTypes'  BY <1>1, <2>1 DEF SettingsInv, SettingsTypes
  <2>3. nvData.touch = nvData.lcd  BY <2>1 DEF SettingsInv, Calibrated, GoesOnTo
  <2>4. Calibrated'  BY <1>1, <2>1, <2>3 DEF SettingsInv, Calibrated
  <2>5. InvalidWhenGivenUp'  BY <1>1, <2>1 DEF SettingsInv, InvalidWhenGivenUp, GoesOnTo
  <2>6. SavedIsFlash' /\ Kept'
    BY <1>1, <2>1 DEF SavedIsFlash, SaveInProgress, Kept, NothingToSave, GoesOnTo
  <2> QED  BY <2>2, <2>4, <2>5, <2>6 DEF SettingsInv
<1> QED  BY <1>2, <1>3

\* The save ends; what is read back is what flash holds or, after a failure, invalid.
LEMMA AfterSaveKeeps ==
    ASSUME SettingsInv, AfterSave
    PROVE  SettingsInv'
<1>1. step = "written" /\ UNCHANGED <<flash, nvData>>  BY DEF AfterSave
<1>2. nvData.touch = nvData.lcd  BY <1>1 DEF SettingsInv, Calibrated, GoesOnTo
<1>3. Calibrated'  BY <1>1, <1>2 DEF SettingsInv, Calibrated
<1>4. CASE then = "factory"
  <2>1. /\ savedNvData' = nvData /\ UNCHANGED <<failures, page>>
        /\ step' = "beep" /\ then' = "silence"
    BY <1>4 DEF AfterSave, Goto
  <2>2. SettingsTypes'  BY <1>1, <2>1 DEF SettingsInv, SettingsTypes
  <2>3. InvalidWhenGivenUp' /\ SavedIsFlash' /\ Kept'
    BY <2>1 DEF InvalidWhenGivenUp, SavedIsFlash, SaveInProgress, Kept, NothingToSave, GoesOnTo
  <2> QED  BY <1>3, <2>2, <2>3 DEF SettingsInv
<1>5. CASE then # "factory"
  <2>1. PICK ok \in BOOLEAN : Attempt(ok, ~ok) /\ savedNvData' = Saved(ok)
    BY <1>5 DEF AfterSave
  <2>2. /\ failures' \in Nat /\ (failures' = 0 => failures = 0)
        /\ savedNvData' \in AnySettings
        /\ savedNvData' = flash \/ ~IsValid(savedNvData')
    BY <2>1, SomeSettings DEF Attempt, Saved, Load, SettingsInv, SettingsTypes
  <2>3. IsValid(nvData)  BY <1>1, <1>5 DEF SettingsInv, InvalidWhenGivenUp, GoesOnTo
  <2>4. failures' = 0 => flash' = nvData'
    BY <1>1, <2>2 DEF SettingsInv, Kept
  <2>5. then' = "run" /\ step' \in {"run", "reset"} /\ page' \in {page, "other"}
    BY <1>1, <1>5 DEF AfterSave, Goto, SettingsInv, SettingsTypes
  <2>6. SettingsTypes'  BY <1>1, <2>2, <2>5 DEF SettingsInv, SettingsTypes
  <2>7. InvalidWhenGivenUp' /\ SavedIsFlash'
    BY <1>1, <2>2, <2>3 DEF InvalidWhenGivenUp, SavedIsFlash
  <2>8. Kept'  BY <2>4, <2>5 DEF Kept, GoesOnTo
  <2> QED  BY <1>3, <2>6, <2>7, <2>8 DEF SettingsInv
<1> QED  BY <1>4, <1>5

\* The user changes a setting, or turns the display.
LEMMA ChangeKeeps ==
    ASSUME SettingsInv, ChangeSetting \/ ChangeSaved \/ ChangeColours \/ TurnDisplay
    PROVE  SettingsInv'
<1>1. /\ step = "run" /\ step' = "beep" /\ UNCHANGED <<flash, savedNvData, page, failures>>
      /\ \/ page = "setup" /\ then' \in {"run", "turn"}
         \/ then' \in {"saveRun", "saveReset"}
  BY DEF ChangeSetting, ChangeSaved, ChangeColours, ChangeAndSave, TurnDisplay, Turn, Goto
<1>2. /\ nvData' \in AnySettings /\ IsValid(nvData') = IsValid(nvData)
      /\ then' # "turn" => nvData'.touch = nvData.touch /\ nvData'.lcd = nvData.lcd
  <2>1. nvData \in AnySettings  BY DEF SettingsInv, SettingsTypes
  <2>2. CASE \E v \in Values : nvData' = [nvData EXCEPT !.value = v]
    BY <2>1, <2>2 DEF AnySettings, IsValid
  <2>3. CASE TurnDisplay
    BY <2>1, <2>3 DEF TurnDisplay, Goto, AnySettings, IsValid
  <2> QED  BY <2>2, <2>3 DEF ChangeSetting, ChangeSaved, ChangeColours, ChangeAndSave
<1>3. SettingsTypes'  BY <1>1, <1>2 DEF SettingsInv, SettingsTypes
<1>4. Calibrated'  BY <1>1, <1>2 DEF SettingsInv, Calibrated, GoesOnTo
<1>5. InvalidWhenGivenUp'  BY <1>1, <1>2 DEF SettingsInv, InvalidWhenGivenUp, GoesOnTo
<1>6. SavedIsFlash'  BY <1>1 DEF SettingsInv, SavedIsFlash, SaveInProgress, GoesOnTo
<1>7. Kept'  BY <1>1 DEF Kept, NothingToSave, GoesOnTo
<1> QED  BY <1>3, <1>4, <1>5, <1>6, <1>7 DEF SettingsInv

\* The user goes to the Setup page, resets to the defaults, or leaves the page: if what is
\* in use is what was read back from flash, flash holds it.
LEMMA PageKeeps ==
    ASSUME SettingsInv, ShowSetup \/ FactoryReset \/ LeaveSetup
    PROVE  SettingsInv'
<1>1. step = "run" /\ UNCHANGED <<flash, nvData, savedNvData, failures>>
  BY DEF ShowSetup, FactoryReset, LeaveSetup, Turn, bounds
<1>2. \/ step' = "beep" /\ then' \in {"run", "saveFactory"} /\ page' = "setup"
      \/ step' = "save" /\ then' = "leave" /\ page' = "setup"
      \/ step' = "run" /\ nvData = savedNvData
  BY DEF ShowSetup, FactoryReset, LeaveSetup, IsSaveNeeded, Goto
<1>3. IsValid(nvData)  BY <1>1 DEF SettingsInv, InvalidWhenGivenUp, GoesOnTo
<1>4. savedNvData = flash \/ ~IsValid(savedNvData)
  BY <1>1 DEF SettingsInv, SavedIsFlash, SaveInProgress, GoesOnTo
<1>5. SettingsTypes'  BY <1>1, <1>2 DEF SettingsInv, SettingsTypes
<1>6. Calibrated'  BY <1>1 DEF SettingsInv, Calibrated, GoesOnTo
<1>7. InvalidWhenGivenUp' /\ SavedIsFlash'
  BY <1>1, <1>3, <1>4 DEF InvalidWhenGivenUp, SavedIsFlash
<1>8. Kept'  BY <1>1, <1>2, <1>3, <1>4 DEF Kept, NothingToSave, GoesOnTo
<1> QED  BY <1>5, <1>6, <1>7, <1>8 DEF SettingsInv
-----------------------------------------------------------------------------
(* The invariant.                                                           *)

LEMMA InitSettingsInv == SettingsInit => SettingsInv
<1> SUFFICES ASSUME SettingsInit PROVE SettingsInv  OBVIOUS
<1>1. flash \in AnySettings /\ (IsValid(flash) => flash.touch = flash.lcd)
  <2>1. CASE flash = SetInvalid(SetDefaults)  BY <2>1, SomeSettings
  <2>2. CASE \E t \in Turned : flash = [magic |-> TRUE, lcd |-> t, touch |-> t, value |-> 0]
    BY <2>2 DEF AnySettings, Turned
  <2> QED  BY <2>1, <2>2 DEF SettingsInit
<1>2. SettingsTypes  BY <1>1, SomeSettings DEF SettingsInit, SettingsTypes
<1>3. Calibrated  BY <1>1 DEF SettingsInit, Calibrated
<1>4. InvalidWhenGivenUp /\ SavedIsFlash
  BY SomeSettings DEF SettingsInit, InvalidWhenGivenUp, SavedIsFlash, SaveInProgress
<1>5. Kept  BY DEF SettingsInit, Kept, NothingToSave, GoesOnTo
<1> QED  BY <1>2, <1>3, <1>4, <1>5 DEF SettingsInv

LEMMA NextSettingsInv == SettingsInv /\ [SettingsNext]_settingsVars => SettingsInv'
<1> SUFFICES ASSUME SettingsInv, [SettingsNext]_settingsVars PROVE SettingsInv'  OBVIOUS
<1>1. CASE Start  BY <1>1, StartKeeps
<1>2. CASE Beep \/ BeepSounds \/ ButtonGoesOn \/ CalibrateTouch \/ WaitForBuzzer
  BY <1>2, StepKeeps
<1>3. CASE EraseFlash \/ WriteFlash  BY <1>3, FlashKeeps
<1>4. CASE AfterSave  BY <1>4, AfterSaveKeeps
<1>5. CASE ResetAfterSave \/ PowerCut
  BY <1>5, ResetKeeps DEF ResetAfterSave, PowerCut, bounds
<1>6. CASE ChangeSetting \/ ChangeSaved \/ ChangeColours \/ TurnDisplay
  BY <1>6, ChangeKeeps
<1>7. CASE ShowSetup \/ FactoryReset \/ LeaveSetup  BY <1>7, PageKeeps
<1>8. CASE UNCHANGED <<flash, ram, bounds>>
  <2>1. UNCHANGED <<flash, nvData, savedNvData, page, step, then, failures>>
    BY <1>8 DEF ram, bounds
  <2> QED
    BY <2>1 DEF SettingsInv, SettingsTypes, Calibrated, InvalidWhenGivenUp, SavedIsFlash,
                SaveInProgress, Kept, NothingToSave, GoesOnTo
<1> QED
  BY <1>1, <1>2, <1>3, <1>4, <1>5, <1>6, <1>7, <1>8
     DEF SettingsNext, MainLoop, User, Tick, settingsVars

LEMMA SettingsInvariant == SettingsSpec => []SettingsInv
<1> QED  BY InitSettingsInv, NextSettingsInv, PTL DEF SettingsSpec
-----------------------------------------------------------------------------
(* The properties.                                                          *)

\* Whatever fails and whenever the power goes, the panel is used, and its settings are
\* kept, only with a calibration made for the way its display is turned (CalibrateTouch,
\* SaveSettings and main of src/PanelDue.cpp).
THEOREM CalibrationFits == SettingsSpec => []CalibratedAsTurned
<1>1. SettingsInv => CalibratedAsTurned
  BY DEF SettingsInv, Calibrated, GoesOnTo, CalibratedAsTurned
<1> QED  BY <1>1, SettingsInvariant, PTL

\* Unless an access to flash fails, flash holds what is in use whenever the Setup page has
\* been left (ChangePage of src/UI/UserInterface.cpp).
THEOREM SettingsKept == SettingsSpec => []KeptWhenLeft
<1>1. SettingsInv => KeptWhenLeft
  BY DEF SettingsInv, Kept, NothingToSave, KeptWhenLeft
<1> QED  BY <1>1, SettingsInvariant, PTL

\* The copy that IsSaveNeeded compares with is what flash holds or worth nothing, so a save
\* that failed is made up for when the Setup page is left (SaveSettings).
THEOREM FailureNoticed == SettingsSpec => []FailureIsKnown
<1>1. SettingsInv => FailureIsKnown
  BY DEF SettingsInv, InvalidWhenGivenUp, SavedIsFlash, SaveInProgress, GoesOnTo,
         FailureIsKnown
<1> QED  BY <1>1, SettingsInvariant, PTL
=============================================================================
