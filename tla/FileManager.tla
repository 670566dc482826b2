------------------------------ MODULE FileManager ------------------------------
(***************************************************************************)
(* The file and macro lists (src/FileManager.cpp, src/RequestTimer.cpp) and *)
(* the popups they are chosen from (src/UI/UserInterface.cpp): the two file *)
(* sets, the three lists they share, the request timers, the callbacks of   *)
(* the JSON parser for a listing, and what the user may touch meanwhile.    *)
(*                                                                         *)
(* A path is a card and the directories below it.  Of the names in a list   *)
(* the model keeps the directory they come from, how many there are and     *)
(* whether the listing has been received to its end.                        *)
(* The printer answers requests in order; a listing arrives piece by piece, *)
(* and the user acts between the pieces.                                    *)
(***************************************************************************)
EXTENDS Integers, Sequences, PopupStack

CONSTANTS
    NumVolumes,    \* card sockets
    Rows, Columns, \* of the buttons that show a list
    DirSize,       \* names in a directory, at most
    MaxFiles,      \* names that fit in a list
    MaxDepth,      \* directories in a path
    MaxAsked,      \* requests not yet answered: 1 if the printer answers within 8 s
    Patient,       \* the user waits until a listing has arrived
    MaxUser,       \* bound: what the user does
    Events,        \* what else may happen, a subset of AllEvents
    MaxEvents      \* bound: how often it does

\* A line fails, the printer's status changes, its firmware is recognised.
AllEvents == {"fault", "status", "features"}

ASSUME FileAssumption ==
    /\ NumVolumes \in 1..10 /\ Rows \in Nat \ {0} /\ Columns \in Nat \ {0}
    /\ DirSize \in Nat /\ MaxFiles \in Nat /\ MaxDepth \in Nat \ {0} /\ MaxAsked \in Nat \ {0}
    /\ Patient \in BOOLEAN
    /\ MaxUser \in Nat /\ Events \subseteq AllEvents /\ MaxEvents \in Nat

VARIABLES
    set,                                       \* gcodeFilesList, macroFilesList
    lists,                                     \* fileLists, fileIndices
    newFileList, fileDirectoryName, errorCode, \* of the listing being received
    popups, currentFile,                       \* windows displayed, file selected
    asked,  \* directories requested, in the order of the answers
    rx,     \* how far the message being received has come
    userSteps, events  \* how often the user has done something, an event has happened

vars == <<set, lists, newFileList, fileDirectoryName, errorCode, popups, currentFile,
          asked, rx, userSteps, events>>

counts == <<userSteps, events>>
listing == <<lists, newFileList, fileDirectoryName, errorCode>>

Sets == {"files", "macros"}
Lists == 0..2
Names == {"gcodes", "macros", "sub"}
Paths == [card : 0..(NumVolumes - 1), dirs : Seq(Names)]
NoPath == [card |-> 0, dirs |-> <<>>]
CardRoot(n) == [card |-> n, dirs |-> <<>>]
root == [files |-> [card |-> 0, dirs |-> <<"gcodes">>],
         macros |-> [card |-> 0, dirs |-> <<"macros">>]]

\* The directories in a directory.
Subdirs(p) == IF p = NoPath THEN {"gcodes", "macros"}
              ELSE IF Len(p.dirs) < MaxDepth THEN {"sub"} ELSE {}
Subdir(p, d) == [p EXCEPT !.dirs = Append(@, d)]
Parent(p) == [p EXCEPT !.dirs = SubSeq(@, 1, Len(@) - 1)]

NoFile == [list |-> -1, dir |-> NoPath, intact |-> FALSE]
Idle == [stage |-> "idle", dir |-> NoPath]
NoButtons == [left |-> FALSE, right |-> FALSE, up |-> FALSE]

Init ==
    /\ set = [s \in Sets |->
                [requestedPath |-> root[s], currentPath |-> NoPath, timer |-> "stopped",
                 whichList |-> -1, scrollOffset |-> 0, cardNumber |-> 0,
                 buttons |-> NoButtons]]
    /\ lists = [k \in Lists |-> [dir |-> NoPath, size |-> 0, whole |-> FALSE]]
    /\ newFileList = -1 /\ fileDirectoryName = NoPath /\ errorCode = 0
    /\ popups = <<>> /\ currentFile = NoFile /\ asked = <<>> /\ rx = Idle
    /\ userSteps = 0 /\ events = 0

UserActs == userSteps < MaxUser /\ userSteps' = userSteps + 1 /\ UNCHANGED events
Happens(e) ==
    e \in Events /\ events < MaxEvents /\ events' = events + 1 /\ UNCHANGED userSteps

-----------------------------------------------------------------------------
(* Operations of a file set f.                                              *)

Size(f) == lists[f.whichList].size

\* Mutant: off by one.
IsInSubdirOrRoot(f) == Len(f.currentPath.dirs) >= IF f.cardNumber = 0 THEN 1 ELSE 0

\* Card 0 begins at /gcodes or /macros, the others at their root.
IsInSubdir(f) == Len(f.currentPath.dirs) > IF f.cardNumber = 0 THEN 1 ELSE 0

\* Mutant: off by one.
SensibleOffsetLate(offset, size) ==
    IF offset < 0 \/ size = 0 THEN 0
    ELSE IF offset > size THEN ((size - 1) \div Rows) * Rows ELSE offset

SensibleOffset(offset, size) ==
    IF offset < 0 \/ size = 0 THEN 0
    ELSE IF offset >= size THEN ((size - 1) \div Rows) * Rows ELSE offset

Refreshed(f) ==
    LET offset == SensibleOffset(f.scrollOffset, Size(f))
    IN  [f EXCEPT !.scrollOffset = offset,
                  !.buttons = [left |-> offset # 0,
                               right |-> offset + Rows * Columns < Size(f),
                               up |-> IsInSubdir(f)]]

\* Without a list the names are hidden, the other buttons stay, and the popup is
\* displayed, whoever asked for the list.
FileListUpdated(s, f, stack) ==
    /\ set' = [set EXCEPT ![s] = IF f.whichList >= 0 THEN Refreshed(f) ELSE f]
    /\ popups' = IF f.whichList >= 0 THEN stack ELSE SetPopup(stack, s)

Pending(f) == [f EXCEPT !.timer = "ready"]

IsDisplayingFileInfo == currentFile # NoFile

-----------------------------------------------------------------------------
(* The listing of a directory, piece by piece.                              *)

\* Mutant: the list of a message that was cut off is not forgotten.
BeginNewMessageKeeps == UNCHANGED <<newFileList, fileDirectoryName, errorCode>>

BeginNewMessage == newFileList' = -1 /\ fileDirectoryName' = NoPath /\ errorCode' = 0

\* The answer to the request made first begins; or the answer to another request.
StartReceivedMessage ==
    /\ rx.stage = "idle"
    /\ \/ /\ asked # <<>>
          /\ rx' = [stage |-> "listing", dir |-> Head(asked)] /\ asked' = Tail(asked)
       \/ rx' = [Idle EXCEPT !.stage = "other"] /\ UNCHANGED asked
    /\ BeginNewMessage
    /\ UNCHANGED <<set, lists, popups, currentFile, counts>>

ReceiveDirectoryName ==
    /\ rx.stage = "listing"
    /\ fileDirectoryName' = rx.dir /\ rx' = [rx EXCEPT !.stage = "named"]
    /\ UNCHANGED <<set, lists, newFileList, errorCode, popups, currentFile, asked, counts>>

\* Mutant: only the list of the files is in use.
FreeListOfMacros ==
    CHOOSE k \in Lists : k # set["files"].whichList
                         /\ \A j \in 0..(k - 1) : j = set["files"].whichList

\* The first list that no file set uses.
InUse(k) == \E s \in Sets : set[s].whichList = k
FreeList == CHOOSE k \in Lists : ~InUse(k) /\ \A j \in 0..(k - 1) : InUse(j)

BeginReceivingFiles ==
    /\ rx.stage = "named" /\ rx' = [rx EXCEPT !.stage = "names"]
    /\ newFileList' = FreeList
    /\ lists' = [lists EXCEPT ![FreeList] = [dir |-> rx.dir, size |-> 0, whole |-> FALSE]]
    /\ currentFile' = IF currentFile.list = FreeList
                      THEN [currentFile EXCEPT !.intact = FALSE] ELSE currentFile
    /\ UNCHANGED <<set, fileDirectoryName, errorCode, popups, asked, counts>>

\* A name for which there is no room is dropped; the model then sees nothing happen.
ReceiveFile ==
    /\ rx.stage = "names" /\ lists[newFileList].size < DirSize
    /\ lists[newFileList].size < MaxFiles
    /\ lists' = [lists EXCEPT ![newFileList].size = @ + 1]
    /\ UNCHANGED <<set, newFileList, fileDirectoryName, errorCode, popups, currentFile, asked, rx, counts>>

\* A directory that cannot be listed: no names.
ReceiveErrorCode ==
    /\ rx.stage = "names" /\ rx' = [rx EXCEPT !.stage = "error"]
    /\ \E err \in 0..1 :
         /\ err # 0 => lists[newFileList].size = 0
         /\ errorCode' = err
    /\ lists' = [lists EXCEPT ![newFileList].whole = TRUE]
    /\ UNCHANGED <<set, newFileList, fileDirectoryName, popups, currentFile, asked, counts>>

Reload(s) ==
    LET f == [set[s] EXCEPT !.timer = "stopped"]
    IN  FileListUpdated(s, IF errorCode = 0
                           THEN [f EXCEPT !.whichList = newFileList,
                                          !.currentPath = fileDirectoryName]
                           ELSE [f EXCEPT !.whichList = -1], popups)

IsMacros(p) == p.card = 0 /\ p.dirs # <<>> /\ Head(p.dirs) = "macros"

\* Mutant: the list of the file selected is replaced.
EndReceivedMessageAlways ==
    /\ rx.stage \in {"error", "other"} /\ rx' = Idle /\ newFileList' = -1
    /\ IF newFileList = -1 THEN UNCHANGED <<set, popups>>
       ELSE Reload(IF IsMacros(fileDirectoryName) THEN "macros" ELSE "files")
    /\ UNCHANGED <<lists, fileDirectoryName, errorCode, currentFile, asked, counts>>

\* The directory tells whose list it is.  The files are not touched while a file is
\* selected: its name is in their list.
EndReceivedMessage ==
    /\ rx.stage \in {"error", "other"} /\ rx' = Idle /\ newFileList' = -1
    /\ IF newFileList = -1 THEN UNCHANGED <<set, popups>>
       ELSE IF IsMacros(fileDirectoryName) THEN Reload("macros")
       ELSE IF IsDisplayingFileInfo THEN UNCHANGED <<set, popups>>
       ELSE Reload("files")
    /\ UNCHANGED <<lists, fileDirectoryName, errorCode, currentFile, asked, counts>>

\* The line fails in the middle of a message: it never ends.
MessageIsCutOff ==
    /\ rx.stage # "idle" /\ rx' = Idle /\ Happens("fault")
    /\ UNCHANGED <<set, listing, popups, currentFile, asked>>

\* A request or its answer is lost.
RequestIsLost ==
    /\ asked # <<>> /\ asked' = Tail(asked) /\ Happens("fault")
    /\ UNCHANGED <<set, listing, popups, currentFile, rx>>

-----------------------------------------------------------------------------
(* The request timers, polled by the main loop: the macros' first.          *)

MayAsk == Len(asked) + (IF rx.stage \in {"idle", "other"} THEN 0 ELSE 1) < MaxAsked

\* Mutant: a request is sent once.
ProcessTimerOnce(s) ==
    /\ set[s].timer = "ready"
    /\ (s = "files" => set["macros"].timer # "ready") /\ MayAsk
    /\ asked' = Append(asked, set[s].requestedPath)
    /\ set' = [set EXCEPT ![s].timer = "running"]
    /\ UNCHANGED <<listing, popups, currentFile, rx, counts>>

\* The request is sent when asked for, or again when it was sent 8 s ago.
ProcessTimer(s) ==
    /\ set[s].timer \in {"ready", "running"}
    /\ (s = "files" => set["macros"].timer # "ready") /\ MayAsk
    /\ asked' = Append(asked, set[s].requestedPath)
    /\ set' = [set EXCEPT ![s].timer = "running"]
    /\ UNCHANGED <<listing, popups, currentFile, rx, counts>>

\* The 8 s are over while the line is busy.
TimerRunsOut(s) ==
    /\ set[s].timer = "running" /\ set' = [set EXCEPT ![s].timer = "ready"]
    /\ MayAsk
    /\ UNCHANGED <<listing, popups, currentFile, asked, rx, counts>>

-----------------------------------------------------------------------------
(* What the user touches, in the window on top, and the printer's events.   *)

Waited == Patient => \A s \in Sets : set[s].timer = "stopped"

Touch(window) == OnTop(popups) = window /\ Waited /\ UserActs

\* evListFiles, evListMacros: the list, as far as it is known, and the popup.
Display(s) ==
    /\ Touch("main")
    /\ FileListUpdated(s, Pending(set[s]), SetPopup(popups, s))
    /\ UNCHANGED <<listing, currentFile, asked, rx>>

\* A name in the list, of a directory.
RequestSubdir(s) ==
    /\ Touch(s) /\ set[s].whichList >= 0 /\ Size(set[s]) > 0
    /\ \E d \in Subdirs(set[s].currentPath) :
         FileListUpdated(s, Pending([set[s] EXCEPT !.whichList = -1,
                                       !.requestedPath = Subdir(set[s].currentPath, d)]), popups)
    /\ UNCHANGED <<listing, currentFile, asked, rx>>

\* evFilesUp, evMacrosUp.
RequestParentDir(s) ==
    /\ Touch(s) /\ set[s].buttons.up
    /\ FileListUpdated(s, Pending([set[s] EXCEPT !.whichList = -1,
                                     !.requestedPath = Parent(set[s].currentPath)]), popups)
    /\ UNCHANGED <<listing, currentFile, asked, rx>>

\* evScrollFiles, evScrollMacros.
Scroll(s) ==
    /\ Touch(s)
    /\ \E amount \in {Rows, -Rows} :
         /\ IF amount > 0 THEN set[s].buttons.right ELSE set[s].buttons.left
         /\ FileListUpdated(s, [set[s] EXCEPT !.scrollOffset = @ + amount], popups)
    /\ UNCHANGED <<listing, currentFile, asked, rx>>

\* Mutant: the last card is not followed by the first.
NextCardUnwrapped ==
    LET cn == set["files"].cardNumber + 1
    IN  /\ Touch("files") /\ NumVolumes > 1
        /\ FileListUpdated("files",
              Pending([set["files"] EXCEPT !.cardNumber = cn, !.whichList = -1,
                         !.requestedPath = IF cn = 0 THEN root["files"] ELSE CardRoot(cn)]),
              popups)
        /\ UNCHANGED <<listing, currentFile, asked, rx>>

\* evChangeCard: the next card, whose list replaces the one shown.
NextCard ==
    LET cn == (set["files"].cardNumber + 1) % NumVolumes
    IN  /\ Touch("files") /\ NumVolumes > 1
        /\ FileListUpdated("files",
              Pending([set["files"] EXCEPT !.cardNumber = cn, !.whichList = -1,
                         !.requestedPath = IF cn = 0 THEN root["files"] ELSE CardRoot(cn)]),
              popups)
        /\ UNCHANGED <<listing, currentFile, asked, rx>>

\* evFile, of a file: its name stays where it is, in the list.
SelectFile ==
    /\ Touch("files") /\ set["files"].whichList >= 0 /\ Size(set["files"]) > 0
    /\ currentFile' = [list |-> set["files"].whichList, intact |-> TRUE,
                       dir |-> lists[set["files"].whichList].dir]
    /\ popups' = SetPopup(popups, "info")
    /\ UNCHANGED <<set, listing, asked, rx>>

\* evPrintFile, evSimulateFile.  In landscape PrintStarted changes the page: no popup stays.
PrintFile ==
    /\ Touch("info")
    /\ \/ popups' = ClearPopup(ClearPopup(popups))
       \/ currentFile # NoFile /\ popups' = <<>>
    /\ currentFile' = NoFile
    /\ UNCHANGED <<set, listing, asked, rx>>

\* evDeleteFile.
DeleteFile ==
    /\ Touch("info") /\ popups' = SetPopup(popups, "sure")
    /\ UNCHANGED <<set, listing, currentFile, asked, rx>>

\* evYes: without a file there is nothing to delete, and the file's popup stays.
Yes ==
    /\ Touch("sure")
    /\ IF currentFile # NoFile
       THEN /\ popups' = ClearPopup(ClearPopup(popups))
            /\ set' = [set EXCEPT !["files"] = Pending(@)]
       ELSE popups' = ClearPopup(popups) /\ UNCHANGED set
    /\ currentFile' = NoFile
    /\ UNCHANGED <<listing, asked, rx>>

\* evCancel, of any popup.
Cancel ==
    /\ popups # <<>> /\ Touch(OnTop(popups))
    /\ popups' = ClearPopup(popups) /\ currentFile' = NoFile
    /\ UNCHANGED <<set, listing, asked, rx>>

\* UpdateGeometry, evConfigureHomeSlot.
RefreshMacrosList ==
    /\ UserActs /\ set' = [set EXCEPT !["macros"] = Pending(@)]
    /\ UNCHANGED <<listing, popups, currentFile, asked, rx>>

\* The printer's status changes: a job ended, or it is connecting.
StatusClearsPopups ==
    /\ Happens("status") /\ popups' = <<>>
    /\ UNCHANGED <<set, listing, currentFile, asked, rx>>

\* The name of the firmware is received again, and its features had been added to.
FirmwareFeaturesChanged ==
    /\ Happens("features")
    /\ set' = [set EXCEPT !["files"].requestedPath = root["files"]]
    /\ UNCHANGED <<listing, popups, currentFile, asked, rx>>

-----------------------------------------------------------------------------
Receive ==
    \/ StartReceivedMessage \/ ReceiveDirectoryName \/ BeginReceivingFiles \/ ReceiveFile
    \/ ReceiveErrorCode \/ EndReceivedMessage

User ==
    \/ \E s \in Sets : Display(s) \/ RequestSubdir(s) \/ RequestParentDir(s) \/ Scroll(s)
    \/ NextCard \/ SelectFile \/ PrintFile \/ DeleteFile \/ Yes \/ Cancel

Next ==
    \/ Receive \/ MessageIsCutOff \/ RequestIsLost
    \/ \E s \in Sets : ProcessTimer(s) \/ TimerRunsOut(s)
    \/ User \/ RefreshMacrosList \/ StatusClearsPopups \/ FirmwareFeaturesChanged

Spec == Init /\ [][Next]_vars

\* The printer answers what reaches it, after what it was asked before, and goes on to
\* the end of a message; the main loop polls the timers, and 8 s are
\* time for both sets.
Fairness ==
    /\ SF_vars(StartReceivedMessage /\ rx'.stage = "listing")
    /\ WF_vars(\/ ReceiveDirectoryName \/ BeginReceivingFiles \/ ReceiveErrorCode
               \/ EndReceivedMessage)
    /\ \A s \in Sets : SF_vars(ProcessTimer(s))

FairSpec == Spec /\ Fairness

-----------------------------------------------------------------------------
(* Properties.                                                              *)

FileSets ==
    [requestedPath : Paths, currentPath : Paths, timer : {"stopped", "ready", "running"},
     whichList : Lists \cup {-1}, scrollOffset : Int, cardNumber : 0..(NumVolumes - 1),
     buttons : [left : BOOLEAN, right : BOOLEAN, up : BOOLEAN]]

TypeOK ==
    /\ \A s \in Sets : /\ set[s].requestedPath \in Paths /\ set[s].currentPath \in Paths
                       /\ set[s] \in FileSets
    /\ \A k \in Lists : /\ lists[k].dir \in Paths /\ lists[k].size \in 0..MaxFiles
                       /\ lists[k].whole \in BOOLEAN
    /\ newFileList \in Lists \cup {-1} /\ errorCode \in 0..1

\* The two file sets never share a list, and a listing is never received into a list
\* that is shown, whatever the user does between its pieces.
ListsApart ==
    /\ \A s, t \in Sets : s # t /\ set[s].whichList >= 0 => set[s].whichList # set[t].whichList
    /\ rx.stage \in {"names", "error"} => newFileList \in Lists /\ ~InUse(newFileList)

\* A list shown is a listing received to its end, of the directory that its file set
\* takes to be the current one, so that a macro or file touched is run from where it
\* was listed.
ListIsOfPath ==
    \A s \in Sets : set[s].whichList >= 0 =>
        lists[set[s].whichList].whole /\ lists[set[s].whichList].dir = set[s].currentPath

\* While the popup of a file shows one, its name is still in the list it was taken
\* from, and the current directory is the file's: Print and Delete mean that file.
SelectedIsIntact ==
    IsPopupActive(popups, "info") /\ currentFile # NoFile =>
        /\ currentFile.intact /\ currentFile.list = set["files"].whichList
        /\ currentFile.dir = set["files"].currentPath

\* A list that has names shows some, after scrolling, reloading and both at once.
ScrollSensible ==
    \A s \in Sets : set[s].whichList >= 0 =>
        /\ 0 <= set[s].scrollOffset
        /\ set[s].scrollOffset < Size(set[s]) \/ set[s].scrollOffset = 0

\* The button for the parent directory is never there at the root of a card, where
\* RequestParentDir would find no '/', even while it is left from another list.
UpHasParent == \A s \in Sets : set[s].buttons.up => set[s].currentPath.dirs # <<>>

\* A listing asked for is asked for again until it is there, lost and damaged
\* answers notwithstanding: the timer stops with the directory asked for, or an error.
ChosenIsShown ==
    \A s \in Sets : set[s].timer # "stopped" ~>
        /\ set[s].timer = "stopped"
        /\ set[s].whichList >= 0 => set[s].currentPath = set[s].requestedPath

\* FileManager.cpp:255: "Use the timer to send a command and repeat it if no response
\* is received".  What is pending is sent, or has arrived, or got an error.
RequestIsMade ==
    \A s \in Sets : set[s].timer = "ready" ~>
        \/ \E i \in 1..Len(asked) : asked[i] = set[s].requestedPath
        \/ set[s].currentPath = set[s].requestedPath
        \/ set[s].timer = "stopped" /\ set[s].whichList = -1

\* UserInterface.cpp:215: currentFile is the "file whose info is displayed in the file
\* info popup"; UserInterface.cpp:3741: it tells "if we are displaying file
\* information".  The popup has a file, and without the popup there is none.
InfoIsOfFile == IsDisplayingFileInfo <=> IsPopupActive(popups, "info")
=============================================================================
