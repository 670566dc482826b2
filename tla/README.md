# PanelDue CICHR in TLA+

PanelDue is a touch screen for 3D printers that run RepRapFirmware (RRF). The
firmware is one main loop (`src/src/PanelDue.cpp`, `main`) and two interrupt
handlers that share data with it: the UART's and the system tick's. The loop
parses what has arrived on the serial line, handles touches, redraws, and sends
the next request. There is no operating system and no thread, so what is hard is
the *protocol*: a request is sent without knowing whether it arrives; its answer
comes hundreds of iterations later, after another request, damaged or never; the
user acts in between, and the printer may restart.

This directory holds a model of that protocol and of the components that take
part in it, the TLC runs that check the model on small instances, and theorems
about it that TLAPS proves for every value of the constants.

Contents: 1 Inventory - 2 Modules - 3 Runs - 4 Bounds - 5 Fairness - 6 Proofs -
7 Where the code and its documents disagree - 8 What is not modelled - 9 Plan.

Paths below are relative to `src/src/` unless they begin with `src/`.

## 1. Inventory

### 1.1 Components

| Component | Source | State it keeps | Operations |
|---|---|---|---|
| Printer polling | `PanelDue.cpp` 536-660, 940-1066, 2748-2835 | `seqs` (an entry per key of the object model: state, last number), `currentReqSeq`, `currentRespSeq`, `outOfBuffers`, `initialized`, `status`, `remoteUpTime`, `lastPollTime`, `lastResponseTime`, the mask, counter and query of output names | `GetNextSeq`, `UpdateSeq`, `ResetSeqs`, `Reconnect`, the callbacks of a response, the communication part of `main` |
| Serial receiver | `Hardware/SerialIo.cpp` 249-253, 557-562, 917-977 | `rxBuffer`, `nextIn`, `nextOut`, `inError` | `receiveChar`, `receiveError`, the interrupt handler, the reading end of `CheckInput` |
| JSON parser | `Hardware/SerialIo.cpp` 255-915 | the state of the character machine, field name and value, array indices | `CheckInput` and the callbacks it makes |
| Serial transmitter | `Hardware/SerialIo.cpp` 120-245 | line number, checksum | `SendChar`, `Sendf`, `SendFilename` |
| File and macro lists | `FileManager.cpp`, `RequestTimer.cpp`, `UI/UserInterface.cpp` | two file sets, three lists of names they share, the listing being received, two request timers, `currentFile` | the callbacks of a listing, `Reload`, `Scroll`, `RequestSubdir`, `RequestParentDir`, `NextCard`, the buttons of the popups |
| Popup windows | `UI/Display.cpp` 266-371 | the stack of windows over the main window | `SetPopup`, `ClearPopup`, `IsPopupActive`, `FindEvent` |
| Alerts, responses, screensaver | `UI/UserInterface.cpp` 2951-2990, 3540-3640, 3772-3815, 4740-4777, `UI/Popup.cpp`, `PanelDue.cpp` 890-956, 1040-1084, 2628-2713 | `currentAlert`, `lastAlertSeq`, `alertMode`, `alertTicks`, `displayingResponse`, the fields of the box, `lastActionTime`, `screensaverActive` | `ProcessAlert`, `ClearAlert`, `ProcessSimpleAlert`, `NewResponseReceived`, the buttons of the box, `ActivateScreensaver`, `CanDimDisplay` |
| Thumbnails | `PanelDue.cpp` 1086-1140, 2130-2260, 2763-2770, `Library/Thumbnail.cpp` | state of the download, offset of the next chunk, file name | header, chunk, next request, end |
| Object model lists | `ObjectModel/*` | sorted lists of tools, beds, chambers, axes, spindles | get or create, iterate, remove from an index on |
| Message log | `UI/MessageLog.cpp`, `PanelDue.cpp` 1040-1072, 1993-2018 | a ring of rows, the response kept until its message ends, the numbers of messages | begin, save, display, append, split into rows |
| Settings | `FlashData.cpp`, `Hardware/FlashStorage.cpp` | `nvData`, the copy saved, a magic word | load, save, is a save needed |
| Buzzer, backlight | `Hardware/Buzzer.cpp`, `Hardware/Backlight.cpp` | `beepTicksToGo`, `inBuzzer`, dimmed or not | `Beep`, the tick's part, `SetState` |
| Touch | `PanelDue.cpp` 2585-2712, `Hardware/UTouch.cpp`, `Hardware/RotaryEncoder.cpp` | pressed, repeated or released, when last | `read`, calibration |
| Pages and fields | `UI/UserInterface.cpp`, `UI/Popup.cpp`, `UI/Display.cpp` | what is shown | layout and refresh |
| Display driver | `Hardware/UTFT.cpp` | the panel's registers | drawing |
| Board support | `Hardware/SysTick.cpp`, `Reset.cpp`, `Mem.cpp`, `OneBitPort.cpp` | the millisecond clock | - |

`src/ASF` is vendored, `Fonts` and `Icons` are generated, `src/Tools`,
`src/preview` and `src/SplashScreens` are not part of the firmware.

### 1.2 How they interact

```
   UART interrupt --ring--> CheckInput --callbacks--> polling   (seqs, status, names)
                                               |----> FileManager (a listing)
                                               |----> alerts, message log, lists of the model
   touch -----> FindEvent -----> UI handlers --+----> FileManager, popups, commands to the printer
   main loop --> communication section --requests--> Serial transmitter --> printer
                     ^ FileManager::ProcessTimers, thumbnail state
```

Everything but the arrow on the top left runs in the main loop, one call after
the other. The ring is the only state that two contexts write (with the tick's
counters: the clock and `beepTicksToGo`). The coupling between the components of
the main loop is through shared variables that outlive a call: `currentRespSeq`
is set by one callback and used by another one a message later; `currentFile`
points into a list that the callbacks of a listing may refill;
`gpOutNameQueryInFlight` says what an answer that carries no identification means.

### 1.3 What is hard, and what makes each component correct

| Component | Hard behaviour | Correct when |
|---|---|---|
| Polling | answers late, crossed, lost, damaged, out of buffers; restart of the printer with sequence numbers that begin again; Setup page silent for any time; attributing an answer | an entry marked Ok is really shown as announced; requests do not pile up; whatever happened, in the end the current model is shown; names belong to their output |
| Receiver | interrupt at every step of `CheckInput`; `nextOut` not volatile; full ring; overrun; a newline lost | only ends of lines are lost; two lines are never joined; reception resumes |
| File lists | pieces of a listing between touches; the answer to an earlier request; a cut-off listing; `currentFile` into reused storage; timer against late answer | a list shown is whole and of its directory; lists in use are not refilled; the file confirmed is the file touched; what was chosen is shown in the end |
| Popups, alerts, screensaver | removal of "the popup on top" when another came to lie on it; status changes that remove all of them; one window for boxes and responses; a box replaced as it is answered | a box shows what the panel takes it to be, once; its timer is its own; an answer bears its number; no black window stays |
| Thumbnails | the popup closed, an error or another header during a download | a download ends; chunks belong to the file shown, in order |
| Parser | characters received with an error, field names too long, nesting too deep | a message reported as ended had no error; array indices agree with the brackets |
| Object model lists | gaps, shorter arrays, answers cut off, a full list; more heaters than columns | what is known is what was told; each column belongs to one thing there is |
| Settings, buzzer | flash that fails, power lost between erase and write or before the calibration; a save that waits for an interrupt | a calibration is of the way the display is turned; what is changed is kept, or the panel knows it is not; a save ends |
| Pages and fields | a temperature under way is kept in its field only, which the printer's reports update and lay out anew | Set sends what the user chose, to the heater touched |
| Message log | a message cut off after its response; a text that needs all rows; splitting at the width | what is displayed is the end of what was told, whole messages only, nothing lost or repeated |

`PROJECT.json` lists 40 single hazards at their lines, with the properties that
would catch each or the reason why none does yet.

## 2. Modules

| Module | Models | Uses |
|---|---|---|
| `PollLoop` | the main loop as the client of the printer | - |
| `PollLoopProofs` | theorems about it | `PollLoop`, `TLAPS` |
| `LineQueue` | what the receiver promises: a lossy queue of characters (abstract) | `TLAPS` |
| `SerialRx` | the receive ring, interrupt handler against `CheckInput` | refines `LineQueue` |
| `SerialRxProofs` | the refinement, for every ring | `SerialRx`, `LineQueue` |
| `PopupStack` | the stack of popups, as operators | - |
| `FileManager` | file and macro lists, request timers, their popups | `PopupStack` |
| `FileManagerProofs` | theorems about it | `FileManager`, `TLAPS` |
| `JsonParser` | the character machine of `CheckInput`, with the renaming by its callback | - |
| `JsonParserProofs` | theorems about it | `JsonParser`, `TLAPS` |
| `Screen` | boxes, responses, the screensaver and the touch that answers | `PopupStack` |
| `ScreenProofs` | theorems about it | `Screen`, `TLAPS` |
| `Thumbnail` | the download of a print file's preview | - |
| `ObjectModel` | the lists of beds, chambers and tools, and their columns | - |
| `Settings` | settings in flash, saves, the buzzer | - |
| `SettingsProofs` | theorems about it | `Settings`, `TLAPS` |
| `MessageLog` | the ring of rows and the response being received | - |
| `Adjust` | the field of a temperature while the user changes it | - |
| `Parts` | five of these side by side | `Settings`, `Thumbnail`, `ObjectModel`, `MessageLog`, `Adjust` |
| `PartsProofs` | theorems about the preview, the lists and the temperatures | `Parts`, `TLAPS` |

Every definition that models code is listed in `PROJECT.json` ("map") with the
lines it translates. A definition preceded by the comment "Mutant:" is not part
of the model: it is the definition below it with a plausible bug, and the
property it breaks is named in `PROJECT.json` ("mutants").

### 2.1 PollLoop

*State.* `seqState`, `lastSeq` are the columns of the table `seqs`, an entry a
number in table order, 0 the null pointer; `currentReqSeq`, `currentRespSeq`,
`outOfBuffers`, `initialized`, `status` are the variables of that name;
`remoteBoot` stands for `remoteUpTime`, of which the code only asks whether it
went back; `gpMask`, `gpInFlight`, `gpCounter`, `gpName` are
`gpOutNameRequestMask`, `gpOutNameQueryInFlight`, `gpOutLivePollCounter` and the
labels of the outputs. `setupTab` and `side` are what the loop asks the user
interface and FileManager. `stage` says how far the parser is in the message at
the head of `resp`. `ver` and `boot` are the printer's; `got` is a history
variable: the version received last of each key.

*Messages.* `req` and `resp` are the two directions of the line, each a FIFO. A
response carries what was true when the printer wrote it. `ReceiveKey`,
`ReceiveSeqs`, `ReceiveDetail`, `ReceiveState`, `ReceiveResp`, `ReceiveOther` and
`EndReceivedMessage` are the callbacks in the order in which they occur in a
message, so that any other step of the loop (a timeout, a poll, a touch) comes
between them, as it does in the code when the line is slower than the loop.
`ParserErrorEncountered` and `AbandonLine` are the two ways a damaged message
ends: with a callback and without.

*The loop.* `PollThumbnail`, `PollSeq`, `PollIdle` (with `QueryName`,
`QueryFiles` or `QueryLive`), `RequestTimeout` and `ResponseTimeout` are the
branches of the communication section, with the conditions of its `if`s in their
guards. `GetNextSeq` both returns an entry and changes the table: `IsNextSeq`
and `SkippedErrors` are its two effects, used together in `PollSeq` and
`PollIdle`.

*Time.* The timeouts are sums of two intervals (`printerPollInterval` +
`printerResponseTimeout`), so the model counts whole such periods: `pollAge`
since `lastPollTime` (0, or 1 for "one or more"), `respAge` since
`lastResponseTime` (0 to 3, Reconnect at 3). `answered` is the comparison
`lastResponseTime >= lastPollTime`. `Tick` lets a period go by; with `Late =
FALSE` it may only do so when nothing is on the line, which is a printer that
answers within a period. The wrap of the clock after 49 days is not modelled here
(section 8).

*Faults.* `LineFault` loses a request with its answer, or makes the answer
garbled (the parser notices), cut off (the receiver dropped its end) or `"err":-1`
(the printer ran out of buffers, with or without the key). `Reboot` forgets what
the printer had received and starts its versions again.

### 2.2 SerialRx and LineQueue

`SerialRx` has the ring itself and `receiveChar` with `receiveError`, as one
atomic `UART_Handler` (it is an interrupt), against three steps of `CheckInput`:
the test of the indices, the load of the character and the store of `nextOut`.
`nextOut` is not volatile, so the compiler may store it before the load; the
model takes load and store in either order. A character is a record of what the
properties need: is it a newline, did the UART flag an error with it, was the
character sent just before it kept.

`LineQueue` is the promise: a queue that loses ends of lines only. Losing may
happen at any time and is a nondeterministic choice there; after it everything is
lost up to the next newline. The mapping (`Queue` in SerialRx) takes the unread
indices of the ring for the queue, beginning with the index `CheckInput` holds as
long as it has not loaded it.

### 2.3 FileManager and PopupStack

*State.* `set["files"]` and `set["macros"]` are the objects `gcodeFilesList` and
`macroFilesList` with their fields and the state of their `RequestTimer`;
`lists` is `fileIndices` and the storage it points to, three of each;
`newFileList`, `fileDirectoryName`, `errorCode` belong to the listing being
received; `currentFile` is a pointer into a list: `intact` becomes false when that
list is reused. `popups` is the stack, of the four windows the component shows.

*Messages.* `asked` are the directories requested and not yet answered, in order.
A listing arrives as `StartReceivedMessage`, `ReceiveDirectoryName`,
`BeginReceivingFiles`, `ReceiveFile`..., `ReceiveErrorCode`,
`EndReceivedMessage`, in the order of RRF's reply to `M20 S3`, with every action
of the user possible in between. Any other message may be received between two
listings. `MessageIsCutOff` is a listing whose end never arrives.

*User.* `Display`, `RequestSubdir`, `RequestParentDir`, `Scroll`, `NextCard`,
`SelectFile`, `PrintFile`, `DeleteFile`, `Yes`, `Cancel` are touches of a button of
the window on top (`Touch`); a touch is possible only where the button is
(`buttons`). `RefreshMacrosList`, `StatusClearsPopups` and
`FirmwareFeaturesChanged` come from elsewhere in the program. The code keeps
"what to confirm" in `eventToConfirm`, which the model need not: the only
confirmation it has is that of a deletion.

### 2.4 JsonParser

*State.* `state`, `fieldId`, `fieldVal`, `arrayIndices`, `arrayDepth` are the
variables of `SerialIo.cpp` 278-285. A name is a sequence of pieces, one for each
character but for the two names that matter ("key", "result"); of a value the model
keeps its length. `keyed` is whether PanelDue's `currentRespSeq` is set: it decides
what `ProcessReceivedValue` does to the name. `called` is the last callback for a
message as a whole. `open`, `owed` and `dropped` are history variables: the stack of
brackets an ordinary parser would keep (with the number of elements of each, the
arrays it is in and the name its members are reported under), the scalars begun and
not yet reported, and whether the name of an open object was taken away.

*Steps.* One character a step, `CheckInput(c)`; the actions are the states of the
machine, in the order of the `switch`. A newline, in any state, is `Newline`. `c` is
taken from one character of each kind the code tells apart ("0" for a digit, "a" for
a letter, "control" for what is less than a space). Brackets, braces and the comma are
spelled out ("lbrace"), as the prover does not read them in a string.

*The renaming.* The parser passes its own `fieldId` by reference
(`fieldId.GetRef()`, 331), and the callback replaces "result" in it by the key of the
response, or removes it with the character behind (`PanelDue.cpp` 1168-1189). So the
parser continues with a changed name, in the middle of the brackets whose marks are in it.
`Renamed` is that change; the reader's stack is renamed with it.

*Environment.* `Sent` leaves out lines that RRF does not send: a member "key" or "result"
below the top level, a name that goes on after these words, an array as the
"result" of a reply without a key; and it bounds the number of elements of an array. Any other
sequence of characters is allowed, well formed or not.

### 2.5 Screen

*State.* `currentAlert` is what has been received of a box since the message began,
`lastAlertSeq` the number of the box shown last; `alertMode`, `displayingResponse`,
`alertTicks` (is there a timeout) are the variables of `UserInterface.cpp`;
`alertPopup` is the window: what it shows, which buttons (by mode), and the
`mode` and `seq` an answer is made from. `popups` is the stack of three windows:
the box, the keyboard, the screensaver. `swept` and `alertPopup.timed` are history
variables, `idle` stands for the time since `lastActionTime`.

*Stages.* `stage` goes round as the main loop does: `"input"` (any part of a message
may be received, the printer and the finger may change), `Spin` (timeout of the box,
touch read), `Screensaver`, `HandleTouch`. Nothing is received between the touch being
read and its being handled; only the screensaver comes between. But a finger stays
down over many rounds, and a touch is released in another round than pressed.

*The printer* shows one box at a time and tells of it in the answer to a poll, as it
was when the answer was written, until it is answered, closed by its timeout or
replaced. A message is cut off anywhere: then its end is not processed, while
`currentAlert` keeps what came, until the next message begins.

*Left out.* Portrait mode, which shows no box; the backlight; the buttons that
jog axes in a box; the status values other than connecting, idle and printing (of the
others each behaves as one of these).

### 2.6 Thumbnail

`thumbnailCurrent`, `filenameCurrent` and `thumbnailData` are the code's. A chunk is
a record of file, size of the thumbnail and number, and stands for its offset as well.
`decoded` is what the decoder has had, `drawn` what was drawn in the popup.
`thumbnailNew` exists only while an element of `thumbnails` is received and is the
`Context` that `ReceiveThumbnail` may copy. Whether a chunk that does not follow the
last is drawn or refused is open, as it depends on the bytes. The printer answers
in order; the popup may be opened, closed and opened again at any time, and messages
about other things come in between. `alone` and `faulty` are history.

### 2.7 ObjectModel

`known` holds the lists, each a function from index to heaters and column, which
is a sorted list without duplicates by its form: `GetOrCreate` sorts after each addition
and finds before it adds. What is left to go wrong is *which* elements are there
and which columns they have. An answer's elements come one by one (`ReceiveHeater`; `ReceiveTool` and
`ReceiveNumber` for a tool, whose standby temperatures may create it late), the end of an array removes what is beyond, and
`AllToolsSeen` gives out the columns in its order: first bed, tools, first chamber,
other beds, other chambers. `told` is history: what a whole answer said last.

### 2.8 Settings

The steps of the main loop that lead to a save are actions: touch, beep,
`WaitForBuzzer`, `EraseFlash`, `WriteFlash`, read back (`AfterSave`), then what the
button does next (`then`). The tick interrupt comes between any two of them, and
`Beep` is two steps, with `inBuzzer` set between them. `PowerCut` is possible at every
step; a restart loads what flash holds. `lcd` is how the display is turned, `touch`
the orientation the calibration was made for (`"none"`: not yet).
The loop `while (Buzzer::Noisy())` is `WaitForBuzzer`'s guard.

### 2.9 MessageLog

*Splitting.* A text is a sequence of characters: narrow, wide, space, comma. `Low` is the
binary search of `FindSplitPoint`, `SplitBack` its way back to a space or comma, `RowsOf`
the loop of `AppendMessage` with its end at the last row there is; all three are recursive
functions. The split point may be 0, when not even one character has room to spare, and then
an empty row is used up, as in the code.

*Receiving.* `ReceiveResponse` and `ReceiveSeq` come in either order and may be missing; the
number is either new or that of the last message. `MessageIsCutOff` leaves `newMessage` as it
is. `AppendOwn` is any message of the panel itself, between any two callbacks: it is
appended directly and does not touch `newMessage`. `said` and `logged` are history: the
response of this message, and every text that ought to have been logged.

### 2.10 Adjust

*State.* `fields` is the row of buttons `activeTemps`: what each one's event is of, and its
value. While the user changes a value it is kept nowhere else, and `UpdateField` leaves that
field alone (`fieldBeingAdjusted`). `temps` and `slots` are what the panel knows of each tool.

*Steps.* `Adjusting`, `AdjustInt` and `SetInt` are the touches of the field, of + or -, and of
Set, which reads the tool and heater from the field again (`SetTool`). Between any two of them
the printer tells of a temperature (`UpdateBedTemp`, `UpdateToolTemp`), a tool goes
(`RemoveTool`), the columns are given out anew (`ColumnsAreGivenOut`), another window comes
to lie on the popup, or all popups go (`StatusClearsPopups`). The columns are those of
ObjectModel in a simpler form: one bed, no chambers. `sent`, `chosen` and `relaid` are history.

### 2.11 Parts

The five modules share no state, with each other or, in what they model, with the
rest. `Parts` chooses one at the start and lets it run, so one run explores the union
of their states. It extends `Settings`, so the theorems of `SettingsProofs` are about the
very properties the run checks, and has instances of the others. This is not a composition and claims none: interactions of the panel's
parts are in `PollLoop`, `FileManager` and `Screen`.

## 3. Runs

To repeat a run: `tlc -config <run>.cfg <module>`. A run that passes finishes
without an error; a run marked "violation" ends with a counterexample, which is
its result (section 7).

| Run | Module | Checks | States | Shows |
|---|---|---|---|---|
| `PollFaults` | PollLoop | TypeOK, RequestsAreFew, Converges, ConvergesFully | 355k | any one fault (lost, garbled, cut off, out of buffers) and a restart, at any moment, and changes of the model at any moment |
| `PollUser` | PollLoop | OkMeansFetched, Converges | 929k | a command, a file or thumbnail request or a visit to the Setup page, with changes of the model and a restart |
| `PollNames` | PollLoop | NamesAreOwn, NamesLearned | 37k | two outputs asked for one after the other, two damaged or lost lines |
| `PollNamesReply` | PollLoop | NamesAreOwn | violation | a user's command while a name is asked for |
| `SerialRx` | SerialRx | Contiguous, IsLineQueue, Resumes | 17k | every interleaving of the interrupt with `CheckInput` |
| `Files` | FileManager | TypeOK, ListsApart, ListIsOfPath, SelectedIsIntact, ScrollSensible, UpHasParent | 785k | three touches at any moment, two requests under way, one fault or event |
| `FilesPatient` | FileManager | ChosenIsShown | 54k | the timer repeats what was lost |
| `JsonParser` | JsonParser | TypeOK, PathIsNesting, IndicesCount, ReportedOnce, EndsWhole | 366k | every sequence of characters, one of each kind, in names and nestings that fit and that do not |
| `Screen` | Screen | BoxIsOfMode, TimerIsOfBox, WaitingBoxIsThere, ScreensaverIsKnown, ScreensaverOnlyIdle, EachBoxOnce, AnswerIsForBox | 6.5M | two boxes, three messages, two touches, in every order with time, status and cut off messages |
| `Parts` | Parts | PictureIsOfFile, DownloadEnds, ListIsTold, ColumnsAreOfElements, CalibratedAsTurned, KeptWhenLeft, FailureIsKnown, LogIsTold, SetIsChosen, SaveGoesOn | 1.0M | previews of two files with a fault; three answers about beds, chambers and tools; settings with failures of flash and losses of power; two messages and the panel's own in a log of three rows; two temperatures set while the printer tells of temperatures, tools and columns |
| `FilesRequest` | FileManager | RequestIsMade | violation | the answer to an earlier request stops the timer of a later one |
| `FilesInfo` | FileManager | InfoIsOfFile | violation | the popup of a file and the file selected come apart |

What the properties say:

- `OkMeansFetched`: an entry of `seqs` is Ok only when its model was received in
  full, and is at least as new as the number announced for it. Nothing in
  `EndReceivedMessage` compares numbers; the property holds because the line is
  FIFO and `UpdateSeq` marks the entry again on *any* difference. The key
  `"state"` is left out: its live fields alone make it Ok.
- `Converges`, `ConvergesFully`: in the end the panel is initialized and shows the
  printer's current model. The second includes `"state"`, which needs a line that
  loses nothing and a printer that does not restart: a request timeout polls
  `K"state" F"f"`, a live subset, and its answer marks the entry Ok.
- `RequestsAreFew`: with a printer that answers in time, one request or response is
  on the line, and at most one more for each restart of the printer (`Reconnect` sets
  `lastPollTime` to 0, so the request timeout may follow a poll at once) and each thing
  the user did, whose commands are sent at any time. The run reaches two after a restart;
  the user's share is in the theorem, the run has no user. A printer that answers merely late
  (`Late`) is outside: there each timeout sends one more. What that must not do is in
  `OkMeansFetched`, whose theorem is for late answers too.
- `NamesAreOwn`, `NamesLearned`: an output is labelled with its own name, and in
  the end each one is.
- `IsLineQueue`: the ring implements the abstract queue; `Contiguous`: the parser
  never sees two pieces of lines joined; `Resumes`: reception resumes after any
  error.
- `ListsApart`: three lists are enough for two file sets and a listing on its way,
  and what is shown is not overwritten. `ListIsOfPath`: a list shown is whole and
  of the path it is shown under, by which its files are printed and deleted.
  `SelectedIsIntact`: the file the popup acts on is the one touched, although
  `currentFile` points into reused storage. `ScrollSensible`: a list that has
  names shows some. `UpHasParent`: `RequestParentDir` always finds a directory to
  leave. `ChosenIsShown`: what was asked for is shown in the end, or refused.
- `PathIsNesting`: without a stack the parser comes back from every bracket to the name
  it left, also when the callback has renamed it meanwhile; a value is reported
  under the name of the brackets it is in. `IndicesCount`: the indices reported are
  the numbers of elements before it. `ReportedOnce`: each scalar is reported
  exactly once. `EndsWhole`: `EndReceivedMessage` is called for the last bracket of
  a message and for no other, with one exception, below.
- `BoxIsOfMode`, `TimerIsOfBox`: one window and one timer serve boxes, simple messages
  and responses, and never act for one on behalf of another; a box that needs
  an answer is not timed out. `WaitingBoxIsThere`: while the panel takes a box to
  be waiting it is in the stack, though perhaps covered, unless all popups were
  removed. `EachBoxOnce`: polls repeat the box until it is answered; it is shown
  once. `AnswerIsForBox`: M292 bears the number of the box on the screen, whatever
  used the window in between. `ScreensaverIsKnown`, `ScreensaverOnlyIdle`: the black
  window is never there without the flag that removes it, and a touch ends it
  before the next is handled.
- `PictureIsOfFile`: chunks are drawn in order, once, in their own file's popup;
  `DownloadEnds`: closing, errors and other headers never leave a download
  waiting, unless an answer was lost (below).
- `ListIsTold`: after a whole answer the lists are what it said, in spite of earlier
  answers cut off. `ColumnsAreOfElements`: the columns in use are covered by what
  there is, none is used twice where there are enough.
- `CalibratedAsTurned`: no step, failure or loss of power leads to a panel in use
  with a calibration for another orientation. `KeptWhenLeft`, `FailureIsKnown`: off the
  Setup page flash holds what is in use, or the panel knows that it does not and
  saves when the page is left. `SaveGoesOn`: the wait for the buzzer ends.
- `LogIsTold`: read from the oldest row to the newest, the log is the end of everything told,
  but for the spaces at splits: nothing lost or repeated between two rows or where the ring
  wraps, no part of a message that was cut off. Of a text that needs all rows there are, the
  end is truncated, and this is all that is ever missing.
- `SetIsChosen`: what Set sends is the value the user gave, for the heater whose field was
  touched, whatever the printer has told of it meanwhile, and nothing for a tool that has
  gone; unless the columns were given out anew under the popup (below).

Each property has a mutant that breaks it; the mutants are plausible bugs of the
code it is about (a table not reset, a list of the wrong set, a counter not put
back, an index not wrapped).

Observations made with these models that are not runs of their own:

- With a restart of the printer, `NamesLearned` does not hold: after `Reconnect`
  two requests may be outstanding, the answer to the second makes the loop poll
  on while the lost answer of the first was a name, and `gpOutNameQueryInFlight`
  stays set; while polls are answered no request timeout clears it.
- In the same way an `"err":-1` instead of a name (`PanelDue.cpp` 2045) leaves the
  query in flight, and no further name is asked for (2791) until a request times
  out. `PollNames` therefore has no fault `"oob"`.
- `ParserErrorEncountered` (2357) puts the entry in error but keeps
  `currentRespSeq`. A message without a key comes next only if a command of the
  user brings one; then the same entry is marked Ok although its model was
  garbled, and is not asked for again until its number changes. So `Converges`
  is for damaged lines (`PollFaults`) or for the user (`PollUser`), not for both
  at once, and `OkMeansFetched` for lines that damage nothing.
- One lost request makes the loop initialize with `"state"` known in part (2833
  against the comment at 2782, "we will have work all seqs once").
- `FileManager.hpp` 46 gives `RequestParentDir` the precondition `IsInSubdir()`.
  After a change of card (`FileManager.cpp` 287) the Up button of the former list
  stays until a listing arrives, so the function is called outside it; `UpHasParent`
  is what saves the call: the path it works on still has a directory to leave.
- The exception of `EndsWhole`: in a reply without a key the callback takes "result:"
  out of the name, so that the bracket that closes the object "result" leaves no name
  and ends the message one bracket early. What follows it in the line is ignored. This is
  harmless as long as "result" is the last member, as it is in RRF's replies.
- An array "result" that is empty is never renamed, as no value is reported in it:
  `ProcessArrayEnd` gets `result^` and the lists of tools and spindles are not pruned when
  the last of them is removed (`PanelDue.cpp` 2300-2320).
- The comment at `SerialIo.cpp` 256 ("We don't allow nested objects or nested arrays,
  so we don't need a state stack") describes an earlier parser: both are allowed
  now, and the marks in the name are the stack.
- A finger held on OK while the printer replaces its box: at the release
  (`UserInterface.cpp` 3772-3815) the button is looked for again, in the new box, which
  is removed without an answer. The printer goes on to tell of it, but `lastAlertSeq`
  keeps it from being shown again. In the same way a change of status that removes
  all popups leaves a box unanswered that is never shown again, and `Reconnect` does not
  reset `lastAlertSeq`.
- The condition that keeps the screensaver off while a box has to be confirmed
  (`PanelDue.cpp` 892) tests `currentAlert`, which every message resets at its start:
  it hardly ever holds when the timeout is reached. A new box counts as an action (2631) only
  while its message is half received, because its end sets `lastAlertSeq`. So a box that
  arrives under the screensaver may wait there for a touch.
- `ClearAlert` with the keyboard on top leaves the box's window in the stack with
  `alertMode = -1`, and a response whose time is over under the screensaver stays
  without a timer, until it is touched. A value typed for one box goes into the box
  that replaced it.
- A lost answer to M36.1 leaves `DataWait` until the header of a larger thumbnail
  arrives, so `DownloadEnds` excludes it. A message cut off after its data lets the
  next message's end decode the chunk and ask for the same one again.
- Opening file B during A's download draws a chunk of A in B's popup, or asks for B
  at an offset of A: hence `alone` in `PictureIsOfFile`.
- When there are more heaters than columns, an element that finds no column left
  keeps the one it had (`UserInterface.cpp` 5277, 5290: the iteration ends), so that two
  elements share it until there is room; hence the condition of `ColumnsAreOfElements`.
- `FindSplitPoint` compares the whole text with the `width` it is given, but searches with
  `messageTextWidth` (`UI/MessageLog.cpp` 226). `UI/Popup.cpp` 36 and 40 call it with the
  width of the alert's popup: a line of an alert is then split where it would be in the log.
- A row that is split within a character of several bytes (the limit of `MaxCharsPerRow`
  counts bytes, and so does the binary search) leaves `numContinuationBytesLeft` of
  `Hardware/UTFT.cpp` 1949-2011 set, which `setTextPos` does not reset: the first character
  printed or measured afterwards is taken for a damaged one and becomes a box.
- The character read with an overrun is stored before the error is noted
  (`Hardware/SerialIo.cpp` 968-976): if it is the closing brace, a message that lost
  characters just before it ends as a whole one.
- A list that is full of elements that have gone refuses a new one, as the old are
  removed only at the end of the array; the next answer finds room.
- `AllToolsSeen` (`UI/UserInterface.cpp` 5172-5303) gives every field an event and the value 0
  anew, the one being adjusted too, against the comment at 581 ("provided it isn't the one
  being adjusted"). If it runs under the popup, Set sends 0, or the temperature of another
  heater: hence `relaid` in `SetIsChosen`.
- `ChangeStatus` removes the popup of a temperature (2714) and leaves `fieldBeingAdjusted`
  valid, so that this field is not updated any more until another is adjusted. Off the Setup page
  a touch outside the popup does nothing (4783): Set is the only way to leave it.
- Set for the column of a heater that has gone creates that heater again (`Tool::UpdateTemp`),
  beyond those the tool has, which are then sent without it. `AdjustInt` and `SetInt` use the
  spindle of the field without asking whether it is still there (3996, 4074).
- An error reply to a listing of the macros that `UpdateGeometry` asked for displays the popup
  of the macros, which nobody opened (`FileManager.cpp` 162), and the short list of macros is
  then made from a set that has no list any more (98).

## 4. Bounds

Every bound is a constant of its module and every counter it caps is named with
it. They are chosen so that each case below happens and TLC finishes in minutes.

| Constant | Value | Why it is enough |
|---|---|---|
| `N` | 2 | one entry with the special role of `"state"`, and one before or after it in the table; what distinguishes a third is the place in the round only, and the theorems hold for every `N` |
| `MaxVer`, `MaxBoot` | 2 | a number that changes, and one that goes back with a restart |
| `MaxLine` | 2 | one request too many; by `RequestsAreFew` more happens only after two restarts, or a restart and the user |
| `MaxFaults` | 1, 2 | one fault anywhere; two for names, where one request hides another |
| `MaxUser` | 1, 3, 4 | each kind of command; for files: open, choose, act |
| `LivePollPeriod` | 2 (5 in the code) | a poll of each kind; `OkIsFetched` is for every period |
| `Outputs` | 0 to 2 | lowest output first, the other next |
| `R` | 3 (8192 in the code) | empty, half full, full, and the wrap between; theorem for every `R >= 2` |
| `Rows`, `Columns` | 1 | a list of two names needs scrolling |
| `DirSize`, `MaxFiles` | 1, 2 | an empty directory, one that is full, one that shrinks below the offset |
| `NumVolumes` | 2 | card 0, whose root is special, and another |
| `MaxDepth` | 2 | the root of a set, and a directory in it |
| `MaxAsked` | 1, 2 | 1: the printer answers within the 8 s of the request timer; 2: it does not, and answers cross choices |
| `MaxId` | 5 (150 in the code) | "result" and two brackets with names of their own, or a name too long for what follows |
| `MaxVal` | 2 (1028) | a value of one character, a full one, and one too long |
| `MaxArrayNesting` | 2 (6) | an array in an array, and one too many |
| `MaxElements` | 2 | indices 0, 1 and 2, at both depths |
| `Modes`, `Places` | `{1, 5}`; close, ok, value | a box that times out or is closed, and one with every kind of button but Cancel and a choice, with the keyboard over it; with Cancel as well (9.8M states) the properties hold too |
| `MaxBoxes`, `MaxMessages`, `MaxTouches` | 2, 3, 2 | a box replaced, told of twice, or followed by a response; a touch held over both, and one after it |
| `Files`, `Sizes`, `Chunks`, `MaxOpens` | 2 each | a header that replaces another; a chunk with a next one and the last; a file reopened, or another |
| `MaxSlots` | 2 (5 or 12) | full lists and columns, with more elements than both; three columns, and tools without heaters, were checked while the module was written (1.5M and 2.2M states) |
| `FieldTools`, `FieldSlots`, `MaxHeaters` | 2 tools, 4, 3 | one tool of two heaters, one of one, and the bed: all columns in use; a heater more than there are columns, and one more than a tool may have |
| `MaxTemp`, `MaxChoices`, `MaxChanges` | 2 | a value between both limits; a field adjusted after another; two reports under one popup |
| `Beds`, `Chambers`, `Tools` | 2, 1, 3 indices | a gap before, between and after |
| `MaxAnswers`, `MaxToggles`, `MaxDamaged` | 3, 1, 1 | whole, cut off, whole again |
| `Rows`, `RowChars`, `RowWidth` | 3, 5, 6 | in the log: a text of one row, of two, and of all; a row full by its number of characters, and by its width |
| `Characters` | wide, space | what a text is split at and what it is not; narrow characters come in the panel's own messages, and a comma was checked while the module was written |
| `MaxTold`, `MaxReceived` | 7, 2 | the ring wraps; a message after one cut off |
| `MaxFailures`, `MaxPowerCuts`, `MaxTurns` | 2, 2, 3 | a save that fails after one cut short; a turn, a change, and one more |

`PrinterStatuses` is `{"idle"}` in the runs: the status `"connecting"`, set by the
panel itself, already makes `OkToSend` false. While a printer is busy for ever no
name and no list is asked for, by intention. `Late = FALSE` in the runs; an answer
later than a period is covered by the theorems, which hold for `Late = TRUE` too.

## 5. Fairness

- **PollLoop** (`FairSpec`): weak fairness of `CheckInput`, `Poll`,
  `RequestTimeout`, `ResponseTimeout` and `LineFallsQuiet` - the main loop goes
  round for ever and visits each of them in every round; of `Tick` - time passes;
  of `PrinterAnswers` - the printer answers what has reached it. Nothing is
  assumed of the user, of the model, of restarts, nor that faults stop, except
  by their bound. `Converges` assumes that the user leaves the Setup page again
  and again, as the loop polls nothing there (`PanelDue.cpp` 2748).
- **SerialRx** (`FairSpec`): weak fairness of `CheckInput`, as above, and of the
  arrival of an undamaged newline. `Resumes` also assumes that from some time on
  the characters kept have no errors.
- **FileManager** (`FairSpec`): weak fairness of the progress of a listing that has
  begun, strong fairness of its beginning (other messages come in between), and
  strong fairness of each `ProcessTimer` (the loop polls them in a fixed order, the
  macros' first, at moments at which the line is free). `ChosenIsShown` further
  assumes a user who waits for the listing (`Patient`) and a printer that answers
  within 8 s (`MaxAsked = 1`); section 7 shows why each is needed.

- **Parts**: weak fairness of `RequestChunk` and `ReceiveMessage` - the main loop
  goes round, and the printer answers what it received; of `MainLoop` in Settings,
  for the same reason (what the user does, the calibration included, is not
  fair); and of `Tick`, as the system tick interrupts the main loop every millisecond.
  ObjectModel, MessageLog and Adjust state safety only.
- **Screen** states safety only and needs none.

Deadlock is not checked where the model may stop for its bounds alone
(FileManager, Screen, Parts); PollLoop and SerialRx run for ever and are checked for it.

## 6. Proofs

`tlapm <module>.tla` checks every proof. Nothing is assumed but the named
assumptions on the constants (`ConstantsAssumption`, `LateAssumption`,
`RAssumption`, `FileAssumption`, `ParserAssumption`, `ScreenAssumption`, `PreviewAssumption`,
`IndexAssumption`, `FieldAssumption`, `PartsAssumption`, `LogAssumption`), which TLC evaluates in the
runs, and what the third column says.

| Theorem | Module | States |
|---|---|---|
| `TypeCorrect` | PollLoopProofs | `Spec => []TypeOK` |
| `OkIsFetched` | PollLoopProofs | `Spec => []OkMeansFetched`, where `FaultKinds` has no damages |
| `RequestsStayFew` | PollLoopProofs | `Spec => []RequestsAreFew`, where `~Late` |
| `NamesAreTheirs` | PollLoopProofs | `Spec => []NamesAreOwn`, where `~Late`, the printer starts once and nobody else sends commands |
| `QueueIsContiguous` | LineQueue | `LQSpec => []Contiguous` |
| `RingTypes` | SerialRxProofs | `Spec => []TypeOK` |
| `RingIsQueue` | SerialRxProofs | `Spec => IsLineQueue` |
| `RingIsContiguous` | SerialRxProofs | `Spec => []Contiguous` |
| `TypeCorrect` | FileManagerProofs | `Spec => []TypeOK` |
| `ListsStayApart` | FileManagerProofs | `Spec => []ListsApart` |
| `ListsAreOfPaths` | FileManagerProofs | `Spec => []ListIsOfPath` |
| `SelectedStaysIntact` | FileManagerProofs | `Spec => []SelectedIsIntact` |
| `UpAlwaysHasParent` | FileManagerProofs | `Spec => []UpHasParent` |
| `ScrollStaysSensible` | FileManagerProofs | `Spec => []ScrollSensible` |
| `TypesOfTheParser` | JsonParserProofs | `Spec => []TypeOK` |
| `NamesFollowTheBrackets` | JsonParserProofs | `Spec => []PathIsNesting` |
| `IndicesFollowTheArrays` | JsonParserProofs | `Spec => []IndicesCount` |
| `ValuesAreReportedOnce` | JsonParserProofs | `Spec => []ReportedOnce` |
| `MessagesEndWhole` | JsonParserProofs | `Spec => []EndsWhole` |
| `ScreenTypes` | ScreenProofs | `Spec => []TypeOK` |
| `BoxMode` | ScreenProofs | `Spec => []BoxIsOfMode` |
| `TimerBelongs` | ScreenProofs | `Spec => []TimerIsOfBox` |
| `WaitingBox` | ScreenProofs | `Spec => []WaitingBoxIsThere` |
| `KnownScreensaver` | ScreenProofs | `Spec => []ScreensaverIsKnown` |
| `IdleScreensaver` | ScreenProofs | `Spec => []ScreensaverOnlyIdle` |
| `BoxOnce` | ScreenProofs | `Spec => EachBoxOnce` |
| `AnswerBelongs` | ScreenProofs | `Spec => AnswerIsForBox` |
| `CalibrationFits` | SettingsProofs | `SettingsSpec => []CalibratedAsTurned` |
| `SettingsKept` | SettingsProofs | `SettingsSpec => []KeptWhenLeft` |
| `FailureNoticed` | SettingsProofs | `SettingsSpec => []FailureIsKnown` |
| `PictureIsAlwaysOfFile` | PartsProofs | `PartsSpec => []PictureIsOfFile` |
| `ListIsAlwaysTold` | PartsProofs | `PartsSpec => []ListIsTold` |
| `ColumnsAreAlwaysOfElements` | PartsProofs | `PartsSpec => []ColumnsAreOfElements` |
| `SetIsAlwaysChosen` | PartsProofs | `PartsSpec => []SetIsChosen` |
| `LogIsAlwaysTold` | PartsProofs | `PartsSpec => []LogIsTold` |

**Polling.** `TypeOK` is inductive. `OkMeansFetched` is not: that what arrives is
new enough depends on the messages still on the line and on those already
parsed. `OkInv` adds

- `Shapes`: live messages name no key, and nothing is damaged;
- `InOrder`: the messages on the line are in the order of their versions, between
  what was parsed last and what the printer has now (this is the FIFO line);
- `Announced`: a number announced is not newer than anything still to come, so
  that whatever is received next is at least as new;
- `FirstAnnounced`: before the first uptime, numbers are those of the message
  being parsed, and their entries are not Ok;
- `Attributed`: while a message is being parsed, `currentRespSeq` is its own key,
  and before its end the model has been taken from it. This is what damage
  breaks (`currentRespSeq` survives a garbled message), and why the theorem
  excludes it. Lost messages, late and crossed answers, answers out of buffers
  and restarts are included, for every table and every number of faults.

The proof has a lemma for each kind of step: steps of the loop that only send
(`LoopSteps`), steps of the printer and the line, the callbacks, a restart.

`RequestsAreFew` is not inductive: it does not say when the loop may send. `FewInv` counts that
in. `Due` is what is on the line and one more if the loop may send without waiting further
(`MaySend`: it has been answered, has waited, or is on the Setup page); `Paid` is one for
each life of the printer the panel has taken notice of (`remoteBoot`) and for each thing the
user did; and `Due <= Paid`. Sending turns permission into a message, an answer the
other way round, so both leave `Due` as it is or lower; off the Setup page a period goes by only
with an idle line (this is `~Late`), which is `Due <= 1`; and when `Reconnect` gives permission, the uptime has
gone back, and `Paid` rises. That it rises, and never falls, needs the rest: responses arrive in
the order of the printer's lives, none before the one seen (`LivesInOrder`). Faults only
take messages away, so their number does not matter.

`AloneInv` is about a printer that answers in time, has not restarted, and is talked to by the
panel alone. There the line is idle whenever the loop may send, so a query for a name on the line
or its reply is for the output that `gpOutNameQueryInFlight` says, or none is in
flight: `NamesAreOwn`. The theorem assumes all of this, as a name once
wrong stays; without these hypotheses the run `PollNamesReply` refutes it.

**Receiver.** `RingIsQueue` is a refinement: every step of the interrupt handler
is `Arrive`, the load is `Parse`, the test and the store are stutters. The queue
under the mapping is the unread part of the ring, and the lemmas say how it
changes when an index at either end moves, with the wrap. `RingIsContiguous`
then follows from `QueueIsContiguous`, which is proved for the abstract queue
alone: after a lost or flagged character the receiver is waiting (`Watchful`),
so the next one kept is a newline.

**File lists.** One invariant, `FilesInv`, for all five. Besides the types it
has: no window is on the stack twice, and the popup of a file is above the list
it is from (`Stacked`: why that list cannot be touched meanwhile);
`Received`: what is known of the listing at each piece, and that the list it
goes to is in nobody's use; `Apart`; and the three properties themselves, which
need one another: the file selected is intact because the list in use is not
refilled, its directory is the current one because lists are of their paths. One
lemma per action.
`ScrollSensible` is inductive together with `FilesInv`: a list on its way is one that nobody
shows, so a list shown changes only where `FileListUpdated` puts the offset right, and scrolling
by a column stays within it.

**Parser.** One invariant for all five properties, for names, values and nestings of any length and any
characters. The reader's brackets are in the one string the parser keeps:

- `PathsNest`: the paths of the open brackets are prefixes of one another and of the name, each with
  its own mark at its end, but for the message itself and a "result" whose name was taken away;
- `MarksAreBrackets`: there are no other marks, and within an array no names. This is why
  `RemoveLastId`, which looks for the last mark, finds the bracket that is open;
- `NamesAreFirst`: a name that the callback replaces is the first part of the name and ends at its first
  mark, so that replacing it changes every path in the same way (`Renamed`) and removing it takes
  one bracket away;
- `DepthsCount`: the depth of a bracket is the number of arrays it is in, so each open array has an index
  of its own;
- what each state of the machine says of the end of the name, of the last value and of what is owed.

The lemmas say what each change of the name does to these (a character more, a mark, the last part
removed, the renaming), then there is one for each state of the machine.

**Screen.** `ScreenInv`, for any number of boxes, messages and touches, all modes and
all places. The properties that are invariants are its conjuncts, and it adds

- `Stack`: each window is displayed at most once, so that removing it once removes it;
- `Numbered`: numbers grow from the box shown last (`lastAlertSeq`) to the one being
  received (`currentAlert`), the one the message tells of and the printer's. It makes
  `NewAlert`, which compares with `#`, mean "newer": hence `BoxOnce`;
- `ButtonsOfKind`: only an alert has a button that answers; a response put into the
  same window takes the buttons away. With the definition of `ButtonAt` this gives
  `AnswerBelongs`.

The lemmas first say what the operations on the stack and on the box keep
(`WindowsKeep`, `ClearingKeeps`, `SetTextKeeps`), then there is one for each action.
Removing "the popup on top" (`evCancel`) does no harm to a box that waits because such a
box has no button for it: that is `BoxIsOfMode` used in the proof of `WaitingBoxIsThere`.

**Settings.** One invariant, `SettingsInv`, for all three, for any number of failures, losses
of power and changes. It says of each step of the main loop what is known there:

- `Calibrated`: what is in use is calibrated for the way it turns the display, except from a
  turn until the calibration that follows it, and flash holds nothing valid that is not;
- `InvalidWhenGivenUp`: settings in use are invalid only on the way out of a factory reset,
  so that no save writes them for use at the next start by any other way;
- `SavedIsFlash`: before the first save and during any, nothing is known of the copy
  that decides whether to save; otherwise it is what flash holds, or invalid;
- `Kept`: unless an access to flash failed, flash holds what is in use after a save
  and wherever nothing is left to save off the Setup page, where no turn begins.

**Preview.** `PreviewInv` says that, as long as the user waits and no answer is cut off, there is
one request or answer at a time and it is about the file opened last: nothing was asked, or the
headers are asked for or received, or, of some size and with n chunks drawn, the next chunk is wanted,
asked for, received or about to be drawn, or all are drawn. Any number of files, sizes and chunks;
the numbers of opened popups, other messages and faults do not matter either.

**Lists.** `ListsInv`: while an answer is received, what is known up to the last index told is what
the answer tells up to there, unless an element of it found the list full; what is left of the answer is
ascending and lies beyond. So a gap removed is a gap in the answer, and the rest removed at the end
is what the answer does not have. `AllToolsSeen` changes columns, never what is there.

**Columns.** `ColumnsInv`: unless an answer that tells of something is under way, or one was damaged
and not asked for again, the columns are laid out for what is known now. The steps that
change the lists are either within an answer or give the columns out anew at its end; the one that does
neither, an answer that tells of no tools, changes nothing. That `AllToolsSeen` lays everything out is
proved along it: `Placed` says, of any set of elements, that they take all the columns before the next
one, and share none as long as their widths add up to no more than there are. The first of a kind, the others (a
fold, `OneByOne`) and, when the columns run out, those left over each extend that set; at the end it
holds all there is (`AllArePlaced`).

**Temperatures.** `FieldsInv`: the field being adjusted is of what was chosen and holds the value
chosen until the columns are given out anew, and (`Laid`) a column of a tool that lies n after
the tool's slot is of a heater n that the tool has, or the first one. Where columns are given out the second comes from
arithmetic on sums of widths: the columns before a tool are those of the tools before it, so
no other tool's lie between.

**Log.** `LogInv`: the response kept is that of the message being received, and `LogIsTold`, which is
inductive: the rows appended push out as many of the oldest (`MoreIsTold`, about any rows displayed and
texts told, `AppendSafe` about the ring they are in). What remains is what splitting does
to one text. `LowIs`, `SplitBackIs`, `SplitPoint`: a row has no more characters than fit, nor than
there is place for. `RowsAre`: with k rows left, those before the k-th fit, and together show the beginning
of the text, all of it if they are fewer (`Splits`); it is proved by induction on the number of rows left, for
any number of rows, places in a row, width and characters.

**Induction.** The library's induction theorems take an operator and are of no use here. `PartsProofs`
states induction of sets instead (`LeastNumber`, `Induction`): a set of numbers that has 0 and with n
also n + 1 has all. From it come what a fold does (`OneByOne`), that a finite set of
numbers has an order (`OrderExists`), sums over sets (`SumExists`, `SumOfMore`), that a recursive function
exists (`Recursion`: one whose value depends only on values of a lower rank) and what `FlattenSeq` puts
together (`FlattenConcat`), each once, as lemmas about any set, function or sequence.

Model-checked only: liveness (`Converges`, `ConvergesFully`, `NamesLearned`,
`Resumes`, `ChosenIsShown`, `DownloadEnds`, `SaveGoesOn`), which is out of this prover's reach. Every
invariant the runs check is proved.

## 7. Where the code and its documents disagree

Each is a run whose only property says what the document says, and which ends in
a counterexample.

1. `PollNamesReply`: `src/README.md` 24 says that "outputs show up with the names
   you gave them in RepRapFirmware". While a name is asked for, the reply to any
   command of the user is taken for the name (`PanelDue.cpp` 1995): replies carry
   no identification.
2. `FilesRequest`: `FileManager.cpp` 255 says "Use the timer to send a command and
   repeat it if no response is received". `Reload` stops the timer for whatever
   directory the listing is of (line 91), so the late listing of the directory
   chosen before stops the request of the one chosen now, which is never sent.
3. `FilesInfo`: `UI/UserInterface.cpp` 3741 says "Return true if we are displaying
   file information". A change of the printer's status removes the popup (2714)
   and leaves `currentFile`: listings of files are ignored from then on, until
   a file's popup is opened again and closed. Touching Cancel in the confirmation of a deletion
   (4431) does the reverse: the popup stays, without its file.

Also seen, without a run: `src/docs/RRF_INTEGRATION.md` 61-69 says that names of outputs
are asked for with `M950 Pn`, with the fallback `Output n`; the code sends `echo` of a
global variable, with the fallback `Outn`, as `src/README.md` says.

## 8. What is not modelled, and why

- Of the modelled components: the contents of names, values and messages; the
  short list of macros on the main page (`ReloadMacroShortList`); more names than
  a list holds; the time of the last character (`SerialLineQuiet` is the variable
  `quiet`); the checksums of lines sent; browsing the files up to `0:/`
  on firmware without `/gcodes`, where the directory `macros` would go to the other set; the number of
  volumes changing while a card is selected.
- The error -1, with which the printer says it is out of buffers, is in PollLoop only; a listing
  in FileManager has no error or one of the printer's about the directory. Screen offers Cancel on every box of the modes 4 to 7,
  the code only with `showCancelButton`: more behaviours than the code, for which all is shown.
- The printer, the line and the user are modelled from how the code uses them and
  are marked external in `PROJECT.json`.
- Drawing, layout, fonts, colours, languages, the touch panel's driver, board
  support and the vendored library keep no state that the protocol reads.
- In PollLoop a thumbnail is one request and one reply; its states are in Thumbnail,
  without the other requests.
- Of the object model: axes, spindles, extruders, fans, offsets and temperatures.
- Of the settings: a write over flash that was not erased, which mixes the bits of
  both; the single fields that `IsValid` does not look at; volume 0 apart from its
  effect on a beep.
- Of the values a user may change: all but the temperatures of beds and tools, as speed, fans,
  outputs and spindles, which have popups of the same kind, and the popups of the Setup page.
- What base64 and qoi make of a thumbnail's bytes; the backlight; the rotary encoder.
- Of the message log: the age of a row, which is text only; the 300 characters a message
  may have; kerning and characters of several bytes (section 3 says what becomes of them
  at a split); the log level, which only decides whether a message of the panel is appended.
- The wrap of the millisecond clock: each comparison but one is a difference, modulo
  2^32; the one that is not (`PanelDue.cpp` 2751) makes the panel reconnect for some
  seconds every 49 days, from which it recovers as from any other `Reconnect`.

## 9. Plan

What is left, in order:

1. The abstract specification of polling ("in each round every entry that is not Ok is
   asked for") with PollLoop shown to implement it.
2. ObjectModel with spindles and extruders; Adjust with the fields of fans and spindles.
