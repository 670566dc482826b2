SPECIFICATION Spec
CONSTANTS
    Modes = {1, 5}
    Places = {"close", "ok", "value"}
    MaxBoxes = 2
    MaxMessages = 3
    MaxTouches = 2
CHECK_DEADLOCK FALSE
INVARIANTS BoxIsOfMode TimerIsOfBox WaitingBoxIsThere ScreensaverIsKnown ScreensaverOnlyIdle
PROPERTIES EachBoxOnce AnswerIsForBox
