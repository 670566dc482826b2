--------------------------- MODULE FileManagerProofs ---------------------------
(***************************************************************************)
(* The invariants of the file and macro lists, for any number of cards,     *)
(* directories, names and events.                                          *)
(***************************************************************************)
EXTENDS FileManager, TLAPS

Windows == {"files", "macros", "info", "sure"}
Stages == {"idle", "other", "listing", "named", "names", "error"}

\* A window is displayed once, and the popup of a file above the list it is from.
Stacked(stack) ==
    /\ stack \in Seq(Windows)
    /\ \A i, j \in 1..Len(stack) : stack[i] = stack[j] => i = j
    /\ \A i \in 1..Len(stack) :
         stack[i] = "info" => \E j \in 1..Len(stack) : j < i /\ stack[j] = "files"

Types ==
    /\ set \in [Sets -> FileSets]
    /\ lists \in [Lists -> [dir : Paths, size : 0..MaxFiles, whole : BOOLEAN]]
    /\ newFileList \in Lists \cup {-1} /\ fileDirectoryName \in Paths /\ errorCode \in 0..1
    /\ currentFile \in [list : Lists \cup {-1}, dir : Paths, intact : BOOLEAN]
    /\ asked \in Seq(Paths) /\ rx \in [stage : Stages, dir : Paths]

\* How far the message being received has come, and what has been kept of it.
Received ==
    /\ rx.stage \in {"other", "listing", "named"} => newFileList = -1
    /\ rx.stage = "named" => fileDirectoryName = rx.dir
    /\ rx.stage \in {"names", "error"} =>
         /\ newFileList \in Lists /\ ~InUse(newFileList)
         /\ fileDirectoryName = rx.dir /\ lists[newFileList].dir = rx.dir
    /\ rx.stage = "error" => lists[newFileList].whole

Apart == \A s, t \in Sets : s # t /\ set[s].whichList >= 0 => set[s].whichList # set[t].whichList

FilesInv ==
    Types /\ Stacked(popups) /\ Apart /\ Received /\ ListIsOfPath /\ SelectedIsIntact
    /\ UpHasParent

-----------------------------------------------------------------------------
(* The stack of windows.                                                    *)

LEMMA SetPopupStacked ==
    ASSUME NEW stack, Stacked(stack), NEW p \in Windows,
           p = "info" => IsPopupActive(stack, "files")
    PROVE  /\ Stacked(SetPopup(stack, p))
           /\ \A q : IsPopupActive(SetPopup(stack, p), q) => q = p \/ IsPopupActive(stack, q)
<1>1. CASE IsPopupActive(stack, p)  BY <1>1 DEF SetPopup
<1>2. CASE ~IsPopupActive(stack, p)
  <2>1. stack \in Seq(Windows) /\ Len(stack) \in Nat  BY DEF Stacked
  <2>2. PICK st : st = Append(stack, p)  OBVIOUS
  <2>3. /\ st \in Seq(Windows) /\ Len(st) = Len(stack) + 1 /\ st[Len(stack) + 1] = p
        /\ \A i \in 1..Len(stack) : st[i] = stack[i]
    BY <2>1, <2>2
  <2>4. SetPopup(stack, p) = st  BY <1>2, <2>2 DEF SetPopup
  <2>5. \A i \in 1..Len(stack) : stack[i] # p  BY <1>2 DEF IsPopupActive
  <2>6. \A i \in 1..Len(st) : i \in 1..Len(stack) \/ i = Len(stack) + 1  BY <2>1, <2>3
  <2>7. \A i, j \in 1..Len(st) : st[i] = st[j] => i = j
    BY <2>3, <2>5, <2>6 DEF Stacked
  <2>8. ASSUME NEW i \in 1..Len(st), st[i] = "info"
        PROVE  \E j \in 1..Len(st) : j < i /\ st[j] = "files"
    <3>1. CASE i \in 1..Len(stack)
      <4>1. PICK j \in 1..Len(stack) : j < i /\ stack[j] = "files"
        BY <2>3, <2>8, <3>1 DEF Stacked
      <4>2. j \in 1..Len(st) /\ st[j] = "files"  BY <2>1, <2>3, <4>1
      <4> QED  BY <4>1, <4>2
    <3>2. CASE i = Len(stack) + 1
      <4>1. PICK j \in 1..Len(stack) : stack[j] = "files"
        BY <2>3, <2>8, <3>2 DEF IsPopupActive
      <4>2. j \in 1..Len(st) /\ st[j] = "files" /\ j < i  BY <2>1, <2>3, <3>2, <4>1
      <4> QED  BY <4>2
    <3> QED  BY <2>6, <3>1, <3>2
  <2>9. \A q : IsPopupActive(st, q) => q = p \/ IsPopupActive(stack, q)
    BY <2>3, <2>6 DEF IsPopupActive
  <2> QED  BY <2>3, <2>4, <2>7, <2>8, <2>9 DEF Stacked
<1> QED  BY <1>1, <1>2

LEMMA ClearPopupStacked ==
    ASSUME NEW stack, Stacked(stack)
    PROVE  /\ Stacked(ClearPopup(stack))
           /\ \A q : IsPopupActive(ClearPopup(stack), q) => IsPopupActive(stack, q)
<1>1. CASE stack = <<>>  BY <1>1 DEF ClearPopup
<1>2. CASE stack # <<>>
  <2>1. stack \in Seq(Windows) /\ Len(stack) \in Nat /\ Len(stack) >= 1
    BY <1>2 DEF Stacked
  <2>2. PICK st : st = SubSeq(stack, 1, Len(stack) - 1)  OBVIOUS
  <2>3. /\ st \in Seq(Windows) /\ Len(st) = Len(stack) - 1
        /\ \A i \in 1..Len(st) : st[i] = stack[i] /\ i \in 1..Len(stack)
    <3>1. Len(stack) - 1 \in 0..Len(stack) /\ Len(stack) - 1 \in Nat  BY <2>1
    <3>2. st = [i \in 1..(Len(stack) - 1) |-> stack[i]]  BY <2>1, <2>2, <3>1
    <3>3. \A i \in 1..(Len(stack) - 1) : i \in 1..Len(stack) /\ stack[i] \in Windows
      BY <2>1
    <3>4. st \in Seq(Windows) /\ Len(st) = Len(stack) - 1  BY <3>1, <3>2, <3>3
    <3> QED  BY <3>2, <3>3, <3>4
  <2>4. ClearPopup(stack) = st  BY <1>2, <2>2 DEF ClearPopup
  <2>5. \A i, j \in 1..Len(st) : st[i] = st[j] => i = j  BY <2>3 DEF Stacked
  <2>6. ASSUME NEW i \in 1..Len(st), st[i] = "info"
        PROVE  \E j \in 1..Len(st) : j < i /\ st[j] = "files"
    <3>1. PICK j \in 1..Len(stack) : j < i /\ stack[j] = "files"
      BY <2>3, <2>6 DEF Stacked
    <3>2. j \in 1..Len(st)  BY <2>1, <2>3, <2>6, <3>1
    <3> QED  BY <2>3, <3>1, <3>2
  <2>7. \A q : IsPopupActive(st, q) => IsPopupActive(stack, q)
    BY <2>3 DEF IsPopupActive
  <2> QED  BY <2>3, <2>4, <2>5, <2>6, <2>7 DEF Stacked
<1> QED  BY <1>1, <1>2

\* The popup of a file covers the list, so that the list cannot be touched.
LEMMA InfoCoversFiles ==
    ASSUME NEW stack, Stacked(stack), OnTop(stack) = "files"
    PROVE  ~IsPopupActive(stack, "info") /\ IsPopupActive(stack, "files")
<1>1. stack \in Seq(Windows) /\ Len(stack) \in Nat  BY DEF Stacked
<1>2. stack # <<>> /\ Len(stack) >= 1 /\ stack[Len(stack)] = "files"
  BY <1>1 DEF OnTop
<1>3. \A i \in 1..Len(stack) : stack[i] # "info"
  <2> SUFFICES ASSUME NEW i \in 1..Len(stack), stack[i] = "info" PROVE FALSE  OBVIOUS
  <2>1. PICK j \in 1..Len(stack) : j < i /\ stack[j] = "files"  BY DEF Stacked
  <2>2. j = Len(stack)
    <3>1. Len(stack) \in 1..Len(stack)  BY <1>1, <1>2
    <3> QED  BY <1>2, <2>1, <3>1 DEF Stacked
  <2> QED  BY <1>1, <2>1, <2>2
<1> QED  BY <1>1, <1>2, <1>3 DEF IsPopupActive

-----------------------------------------------------------------------------
(* The file sets.                                                           *)

LEMMA RefreshedSet ==
    ASSUME Types, NEW f \in FileSets, f.whichList >= 0
    PROVE  /\ Refreshed(f) \in FileSets
           /\ Refreshed(f).whichList = f.whichList
           /\ Refreshed(f).currentPath = f.currentPath
           /\ Refreshed(f).buttons.up => f.currentPath.dirs # <<>>
<1>1. f.whichList \in Lists /\ f.scrollOffset \in Int  BY DEF FileSets, Lists
<1>2. Size(f) \in Nat
  <2>1. lists[f.whichList] \in [dir : Paths, size : 0..MaxFiles, whole : BOOLEAN]
    BY <1>1 DEF Types
  <2>2. lists[f.whichList].size \in 0..MaxFiles  BY <2>1
  <2> QED  BY <2>2, FileAssumption DEF Size
<1>3. PICK offset : offset = SensibleOffset(f.scrollOffset, Size(f))  OBVIOUS
<1>4. offset \in Int
  <2>1. Rows \in Nat /\ Rows > 0  BY FileAssumption
  <2>2. (Size(f) - 1) \div Rows \in Int  BY <1>2, <2>1
  <2>3. ((Size(f) - 1) \div Rows) * Rows \in Int  BY <2>1, <2>2
  <2> QED  BY <1>1, <1>2, <1>3, <2>3 DEF SensibleOffset
<1>5. PICK b : b = [left |-> offset # 0, right |-> offset + Rows * Columns < Size(f),
                    up |-> IsInSubdir(f)]
  OBVIOUS
<1>6. IsInSubdir(f) \in BOOLEAN  BY DEF IsInSubdir
<1>7. b \in [left : BOOLEAN, right : BOOLEAN, up : BOOLEAN]  BY <1>5, <1>6
<1>8. Refreshed(f) = [f EXCEPT !.scrollOffset = offset, !.buttons = b]
  BY <1>3, <1>5 DEF Refreshed
<1>9. IsInSubdir(f) => f.currentPath.dirs # <<>>
  <2>1. f.currentPath.dirs = <<>> => Len(f.currentPath.dirs) = 0  OBVIOUS
  <2>2. IsInSubdir(f) => Len(f.currentPath.dirs) > 0
    <3>1. Len(f.currentPath.dirs) \in Nat  BY DEF FileSets, Paths
    <3> QED  BY <3>1 DEF IsInSubdir
  <2> QED  BY <2>1, <2>2
<1>10. [f EXCEPT !.scrollOffset = offset, !.buttons = b] \in FileSets
  BY <1>4, <1>7 DEF FileSets
<1>11. /\ Refreshed(f).whichList = f.whichList
       /\ Refreshed(f).currentPath = f.currentPath
       /\ Refreshed(f).buttons = b
  BY <1>8 DEF FileSets
<1>12. b.up => IsInSubdir(f)  BY <1>5
<1> QED  BY <1>8, <1>9, <1>10, <1>11, <1>12

\* What FileListUpdated makes of the file set s.
LEMMA Updated ==
    ASSUME Types, NEW s \in Sets, NEW f \in FileSets, NEW stack,
           FileListUpdated(s, f, stack),
           f.whichList >= 0 \/ (f.buttons.up => f.currentPath.dirs # <<>>)
    PROVE  /\ set' \in [Sets -> FileSets]
           /\ set'[s].whichList = f.whichList /\ set'[s].currentPath = f.currentPath
           /\ set'[s].buttons.up => set'[s].currentPath.dirs # <<>>
           /\ \A t \in Sets : t # s => set'[t] = set[t]
           /\ popups' = stack \/ (f.whichList = -1 /\ popups' = SetPopup(stack, s))
<1>1. f.whichList \in 0..2 \/ f.whichList = -1  BY DEF FileSets, Lists
<1>2. PICK g : g = IF f.whichList >= 0 THEN Refreshed(f) ELSE f  OBVIOUS
<1>3. /\ g \in FileSets /\ g.whichList = f.whichList /\ g.currentPath = f.currentPath
      /\ g.buttons.up => g.currentPath.dirs # <<>>
  BY <1>2, RefreshedSet
<1>4. set' = [set EXCEPT ![s] = g] /\ set \in [Sets -> FileSets]
  BY <1>2 DEF FileListUpdated, Types
<1>5. popups' = stack \/ (f.whichList = -1 /\ popups' = SetPopup(stack, s))
  <2>1. popups' = IF f.whichList >= 0 THEN stack ELSE SetPopup(stack, s)
    BY DEF FileListUpdated
  <2>2. CASE f.whichList \in 0..2
    <3>1. f.whichList >= 0  BY <2>2
    <3> QED  BY <2>1, <3>1
  <2>3. CASE f.whichList = -1
    <3>1. ~(f.whichList >= 0)  BY <2>3
    <3> QED  BY <2>1, <2>3, <3>1
  <2> QED  BY <1>1, <2>2, <2>3
<1> QED  BY <1>3, <1>4, <1>5

LEMMA FreeListIsFree == ASSUME Types PROVE FreeList \in Lists /\ ~InUse(FreeList)
<1>1. \E k \in Lists : ~InUse(k) /\ \A j \in 0..(k - 1) : InUse(j)
  <2>1. set["files"].whichList \in -1..2 /\ set["macros"].whichList \in -1..2
    BY DEF Types, Sets, FileSets, Lists
  <2>2. \A k : InUse(k) <=> k = set["files"].whichList \/ k = set["macros"].whichList
    BY DEF InUse, Sets
  <2>3. CASE ~InUse(0)  BY <2>3 DEF Lists
  <2>4. CASE InUse(0) /\ ~InUse(1)
    <3>1. \A j \in 0..(1 - 1) : j = 0  OBVIOUS
    <3> QED  BY <2>4, <3>1 DEF Lists
  <2>5. CASE InUse(0) /\ InUse(1)
    <3>1. ~InUse(2)  BY <2>1, <2>2, <2>5
    <3>2. \A j \in 0..(2 - 1) : j = 0 \/ j = 1  OBVIOUS
    <3> QED  BY <2>5, <3>1, <3>2 DEF Lists
  <2> QED  BY <2>3, <2>4, <2>5
<1> QED  BY <1>1 DEF FreeList

-----------------------------------------------------------------------------
(* Paths.                                                                   *)

LEMMA KnownPaths ==
    /\ NoPath \in Paths /\ \A s \in Sets : root[s] \in Paths
    /\ \A n \in 0..(NumVolumes - 1) : CardRoot(n) \in Paths
<1>1. 0 \in 0..(NumVolumes - 1)  BY FileAssumption
<1>2. <<>> \in Seq(Names) /\ <<"gcodes">> \in Seq(Names) /\ <<"macros">> \in Seq(Names)
  BY DEF Names
<1> QED  BY <1>1, <1>2 DEF NoPath, Paths, root, CardRoot, Sets

LEMMA PathsBelow ==
    ASSUME NEW p \in Paths
    PROVE  /\ \A d \in Subdirs(p) : Subdir(p, d) \in Paths
           /\ p.dirs # <<>> => Parent(p) \in Paths
<1>1. p.dirs \in Seq(Names) /\ p.card \in 0..(NumVolumes - 1)  BY DEF Paths
<1>2. ASSUME NEW d \in Subdirs(p)  PROVE Subdir(p, d) \in Paths
  <2>1. d \in Names  BY DEF Subdirs, Names
  <2>2. Append(p.dirs, d) \in Seq(Names)  BY <1>1, <2>1
  <2> QED  BY <1>1, <2>2 DEF Subdir, Paths
<1>3. ASSUME p.dirs # <<>>  PROVE Parent(p) \in Paths
  <2>1. Len(p.dirs) \in Nat /\ Len(p.dirs) >= 1  BY <1>1, <1>3
  <2>2. SubSeq(p.dirs, 1, Len(p.dirs) - 1) = [i \in 1..(Len(p.dirs) - 1) |-> p.dirs[i]]
    BY <1>1, <2>1
  <2>3. \A i \in 1..(Len(p.dirs) - 1) : p.dirs[i] \in Names
    <3>1. \A i \in 1..(Len(p.dirs) - 1) : i \in 1..Len(p.dirs)  BY <2>1
    <3> QED  BY <1>1, <3>1
  <2>4. SubSeq(p.dirs, 1, Len(p.dirs) - 1) \in Seq(Names)
    <3>1. Len(p.dirs) - 1 \in Nat  BY <2>1
    <3> QED  BY <2>2, <2>3, <3>1
  <2> QED  BY <1>1, <2>4 DEF Parent, Paths
<1> QED  BY <1>2, <1>3

-----------------------------------------------------------------------------
(* What several actions have in common.                                     *)

\* A step that changes neither a list nor which lists are shown.
LEMMA ListsStay ==
    ASSUME FilesInv, Types', Stacked(popups'),
           \A s \in Sets : /\ set'[s].whichList = set[s].whichList
                           /\ set'[s].currentPath = set[s].currentPath
                           /\ set'[s].buttons = set[s].buttons,
           UNCHANGED listing, rx' = rx \/ rx' = Idle,
           \/ currentFile' = NoFile
           \/ /\ currentFile' = currentFile
              /\ IsPopupActive(popups', "info") => IsPopupActive(popups, "info")
    PROVE  FilesInv'
<1>1. Apart'  BY DEF FilesInv, Apart
<1>2. \A k : InUse(k)' <=> InUse(k)  BY DEF InUse
<1>3. Received'
  <2>1. CASE rx' = rx
    BY <1>2, <2>1 DEF FilesInv, Received, listing
  <2>2. CASE rx' = Idle  BY <2>2 DEF Received, Idle
  <2> QED  BY <2>1, <2>2
<1>4. ListIsOfPath'  BY DEF FilesInv, ListIsOfPath, listing
<1>5. SelectedIsIntact'  BY DEF FilesInv, SelectedIsIntact, Sets
<1>6. UpHasParent'  BY DEF FilesInv, UpHasParent
<1> QED  BY <1>1, <1>3, <1>4, <1>5, <1>6 DEF FilesInv

\* The user touches the list of s: it is scrolled, or not shown any more.
LEMMA ListTouched ==
    ASSUME FilesInv, NEW s \in Sets, NEW f \in FileSets, NEW stack,
           FileListUpdated(s, f, stack), UNCHANGED <<listing, currentFile, asked, rx>>,
           f.whichList \in {-1, set[s].whichList}, f.currentPath = set[s].currentPath,
           f.buttons = set[s].buttons,
           Stacked(stack), IsPopupActive(stack, "info") => IsPopupActive(popups, "info"),
           s = "files" => ~IsPopupActive(stack, "info")
    PROVE  FilesInv'
<1>0. Types /\ (f.buttons.up => f.currentPath.dirs # <<>>)
  BY DEF FilesInv, UpHasParent
<1>1. /\ set' \in [Sets -> FileSets]
      /\ set'[s].whichList = f.whichList /\ set'[s].currentPath = f.currentPath
      /\ set'[s].buttons.up => set'[s].currentPath.dirs # <<>>
      /\ \A t \in Sets : t # s => set'[t] = set[t]
      /\ popups' = stack \/ (f.whichList = -1 /\ popups' = SetPopup(stack, s))
  BY <1>0, Updated
<1>2. Types'  BY <1>0, <1>1 DEF Types, listing
<1>3. /\ Stacked(popups')
      /\ IsPopupActive(popups', "info") => IsPopupActive(stack, "info")
  <2>1. s \in Windows /\ s # "info"  BY DEF Sets, Windows
  <2>2. /\ Stacked(SetPopup(stack, s))
        /\ \A q : IsPopupActive(SetPopup(stack, s), q) => q = s \/ IsPopupActive(stack, q)
    BY <2>1, SetPopupStacked
  <2> QED  BY <1>1, <2>1, <2>2
<1>4. \A t \in Sets : set'[t].whichList \in {-1, set[t].whichList}
  BY <1>1
<1>5. \A t \in Sets : set'[t].currentPath = set[t].currentPath  BY <1>1
<1>6. ~(-1 >= 0)  OBVIOUS
<1>7. Apart'  BY <1>4, <1>6 DEF FilesInv, Apart
<1>8. Received'
  <2>1. \A k \in Lists : InUse(k)' => InUse(k)
    <3>1. \A k \in Lists : k # -1  BY DEF Lists
    <3> QED  BY <1>4, <3>1 DEF InUse
  <2> QED  BY <2>1 DEF FilesInv, Received, listing
<1>9. ListIsOfPath'  BY <1>4, <1>5, <1>6 DEF FilesInv, ListIsOfPath, listing
<1>10. SelectedIsIntact'
  <2>1. CASE s = "files"  BY <1>3, <2>1 DEF SelectedIsIntact
  <2>2. CASE s # "files"
    <3>1. set'["files"] = set["files"]  BY <1>1, <2>2 DEF Sets
    <3> QED  BY <1>3, <3>1 DEF FilesInv, SelectedIsIntact
  <2> QED  BY <2>1, <2>2
<1>11. UpHasParent'  BY <1>1 DEF FilesInv, UpHasParent
<1> QED  BY <1>2, <1>3, <1>7, <1>8, <1>9, <1>10, <1>11 DEF FilesInv

-----------------------------------------------------------------------------
(* The message being received.                                              *)

LEMMA StartKeeps ==
    ASSUME FilesInv, StartReceivedMessage  PROVE FilesInv'
<1> USE DEF FilesInv
<1>1. /\ newFileList' = -1 /\ fileDirectoryName' = NoPath /\ errorCode' = 0
      /\ rx'.stage \in {"listing", "other"}
      /\ UNCHANGED <<set, lists, popups, currentFile>>
  BY DEF StartReceivedMessage, BeginNewMessage, Idle
<1>2. rx' \in [stage : Stages, dir : Paths] /\ asked' \in Seq(Paths)
  <2>1. asked \in Seq(Paths)  BY DEF Types
  <2>2. asked # <<>> => Head(asked) \in Paths /\ Tail(asked) \in Seq(Paths)  BY <2>1
  <2> QED  BY <2>1, <2>2, KnownPaths DEF StartReceivedMessage, Idle, Stages
<1>3. Types'  BY <1>1, <1>2, KnownPaths DEF Types
<1>4. Received'  BY <1>1 DEF Received
<1>5. (Stacked(popups) /\ Apart /\ ListIsOfPath /\ SelectedIsIntact /\ UpHasParent)'
  BY <1>1 DEF Stacked, Apart, ListIsOfPath, SelectedIsIntact, UpHasParent
<1> QED  BY <1>3, <1>4, <1>5

LEMMA NameKeeps ==
    ASSUME FilesInv, ReceiveDirectoryName  PROVE FilesInv'
<1> USE DEF FilesInv
<1>1. /\ rx.stage = "listing" /\ fileDirectoryName' = rx.dir
      /\ rx' = [rx EXCEPT !.stage = "named"]
      /\ UNCHANGED <<set, lists, newFileList, errorCode, popups, currentFile, asked>>
  BY DEF ReceiveDirectoryName
<1>2. rx' \in [stage : Stages, dir : Paths] /\ rx'.stage = "named" /\ rx'.dir = rx.dir
  BY <1>1 DEF Types, Stages
<1>3. Types'  BY <1>1, <1>2 DEF Types
<1>4. Received'  BY <1>1, <1>2 DEF Received
<1>5. (Stacked(popups) /\ Apart /\ ListIsOfPath /\ SelectedIsIntact /\ UpHasParent)'
  BY <1>1 DEF Stacked, Apart, ListIsOfPath, SelectedIsIntact, UpHasParent
<1> QED  BY <1>3, <1>4, <1>5

LEMMA BeginKeeps ==
    ASSUME FilesInv, BeginReceivingFiles  PROVE FilesInv'
<1> USE DEF FilesInv
<1>1. PICK k : k = FreeList  OBVIOUS
<1>2. k \in Lists /\ ~InUse(k)  BY <1>1, FreeListIsFree
<1>3. /\ rx.stage = "named" /\ rx' = [rx EXCEPT !.stage = "names"] /\ newFileList' = k
      /\ lists' = [lists EXCEPT ![k] = [dir |-> rx.dir, size |-> 0, whole |-> FALSE]]
      /\ currentFile' = IF currentFile.list = k
                        THEN [currentFile EXCEPT !.intact = FALSE] ELSE currentFile
      /\ UNCHANGED <<set, fileDirectoryName, errorCode, popups, asked>>
  BY <1>1 DEF BeginReceivingFiles
<1>4. rx' \in [stage : Stages, dir : Paths] /\ rx'.stage = "names" /\ rx'.dir = rx.dir
  BY <1>3 DEF Types, Stages
<1>5. Types'
  <2>1. 0 \in 0..MaxFiles  BY FileAssumption
  <2>2. lists' \in [Lists -> [dir : Paths, size : 0..MaxFiles, whole : BOOLEAN]]
    BY <1>2, <1>3, <2>1 DEF Types
  <2>3. currentFile' \in [list : Lists \cup {-1}, dir : Paths, intact : BOOLEAN]
    BY <1>3 DEF Types
  <2> QED  BY <1>2, <1>3, <1>4, <2>2, <2>3 DEF Types
<1>6. \A j \in Lists : lists'[j] = IF j = k THEN [dir |-> rx.dir, size |-> 0, whole |-> FALSE]
                                  ELSE lists[j]
  BY <1>3 DEF Types
<1>7. Received'  BY <1>2, <1>3, <1>4, <1>6 DEF Received, InUse
<1>8. \A s \in Sets : set[s].whichList >= 0 => lists'[set[s].whichList] = lists[set[s].whichList]
  <2> SUFFICES ASSUME NEW s \in Sets, set[s].whichList >= 0
               PROVE  lists'[set[s].whichList] = lists[set[s].whichList]
    OBVIOUS
  <2>1. set[s].whichList \in Lists  BY DEF Types, FileSets
  <2>2. set[s].whichList # k  BY <1>2 DEF InUse
  <2> QED  BY <1>6, <2>1, <2>2
<1>9. ListIsOfPath'  BY <1>3, <1>8 DEF ListIsOfPath
<1>10. SelectedIsIntact'
  <2> SUFFICES ASSUME IsPopupActive(popups', "info"), currentFile' # NoFile
               PROVE  /\ currentFile'.intact /\ currentFile'.list = set'["files"].whichList
                      /\ currentFile'.dir = set'["files"].currentPath
    BY DEF SelectedIsIntact
  <2>1. currentFile # NoFile
    <3>1. currentFile = NoFile => currentFile.list # k  BY <1>2 DEF NoFile, Lists
    <3> QED  BY <1>3, <3>1
  <2>2. /\ currentFile.intact /\ currentFile.list = set["files"].whichList
        /\ currentFile.dir = set["files"].currentPath
    BY <1>3, <2>1 DEF SelectedIsIntact
  <2>3. currentFile.list # k  BY <1>2, <2>2 DEF InUse, Sets
  <2> QED  BY <1>3, <2>2, <2>3
<1>11. (Stacked(popups) /\ Apart /\ UpHasParent)'
  BY <1>3 DEF Stacked, Apart, UpHasParent
<1> QED  BY <1>5, <1>7, <1>9, <1>10, <1>11

\* A step that changes only how the list being received is described.
LEMMA NewListChanges ==
    ASSUME FilesInv, Types', Received', \A k \in Lists : k # newFileList => lists'[k] = lists[k],
           rx.stage \in {"names", "error"}, UNCHANGED <<set, popups, currentFile>>
    PROVE  FilesInv'
<1> USE DEF FilesInv
<1>1. \A s \in Sets : set[s].whichList >= 0 => lists'[set[s].whichList] = lists[set[s].whichList]
  <2> SUFFICES ASSUME NEW s \in Sets, set[s].whichList >= 0
               PROVE  lists'[set[s].whichList] = lists[set[s].whichList]
    OBVIOUS
  <2>1. set[s].whichList \in Lists  BY DEF Types, FileSets
  <2>2. set[s].whichList # newFileList  BY DEF InUse, Received
  <2> QED  BY <2>1, <2>2
<1>2. ListIsOfPath'  BY <1>1 DEF ListIsOfPath
<1>3. (Stacked(popups) /\ Apart /\ SelectedIsIntact /\ UpHasParent)'
  BY DEF Stacked, Apart, SelectedIsIntact, UpHasParent
<1> QED  BY <1>2, <1>3

LEMMA FileKeeps ==
    ASSUME FilesInv, ReceiveFile  PROVE FilesInv'
<1>1. PICK k : k = newFileList  OBVIOUS
<1>2. k \in Lists  BY <1>1 DEF FilesInv, Received, ReceiveFile
<1>3. PICK n : n = lists[k].size + 1  OBVIOUS
<1>4. n \in 0..MaxFiles
  <2>1. lists[k].size \in 0..MaxFiles  BY <1>2 DEF FilesInv, Types
  <2> QED  BY <1>1, <1>3, <2>1, FileAssumption DEF ReceiveFile
<1>5. lists' = [lists EXCEPT ![k].size = n]  BY <1>1, <1>3 DEF ReceiveFile
<1>6. lists' \in [Lists -> [dir : Paths, size : 0..MaxFiles, whole : BOOLEAN]]
  BY <1>4, <1>5 DEF FilesInv, Types
<1>7. /\ rx.stage = "names"
      /\ UNCHANGED <<set, newFileList, fileDirectoryName, errorCode, popups, currentFile, asked, rx>>
  BY DEF ReceiveFile
<1>8. Types'  BY <1>6, <1>7 DEF FilesInv, Types
<1>9. lists'[k].dir = lists[k].dir /\ \A j \in Lists : j # k => lists'[j] = lists[j]
  BY <1>2, <1>5 DEF FilesInv, Types
<1>10. Received'  BY <1>1, <1>7, <1>9 DEF FilesInv, Received, InUse
<1> QED  BY <1>1, <1>7, <1>8, <1>9, <1>10, NewListChanges

LEMMA ErrorKeeps ==
    ASSUME FilesInv, ReceiveErrorCode  PROVE FilesInv'
<1>1. PICK k : k = newFileList  OBVIOUS
<1>2. k \in Lists  BY <1>1 DEF FilesInv, Received, ReceiveErrorCode
<1>3. /\ rx.stage = "names" /\ rx' = [rx EXCEPT !.stage = "error"] /\ errorCode' \in 0..1
      /\ lists' = [lists EXCEPT ![k].whole = TRUE]
      /\ UNCHANGED <<set, newFileList, fileDirectoryName, popups, currentFile, asked>>
  BY <1>1 DEF ReceiveErrorCode
<1>4. lists' \in [Lists -> [dir : Paths, size : 0..MaxFiles, whole : BOOLEAN]]
  BY <1>3 DEF FilesInv, Types
<1>5. rx' \in [stage : Stages, dir : Paths] /\ rx'.stage = "error" /\ rx'.dir = rx.dir
  BY <1>3 DEF FilesInv, Types, Stages
<1>6. Types'  BY <1>3, <1>4, <1>5 DEF FilesInv, Types
<1>7. /\ lists'[k].dir = lists[k].dir /\ lists'[k].whole
      /\ \A j \in Lists : j # k => lists'[j] = lists[j]
  BY <1>2, <1>3 DEF FilesInv, Types
<1>8. Received'  BY <1>1, <1>3, <1>5, <1>7 DEF FilesInv, Received, InUse
<1> QED  BY <1>1, <1>3, <1>6, <1>7, <1>8, NewListChanges

\* The list received replaces the one of its file set, or none is shown.
LEMMA ReloadKeeps ==
    ASSUME FilesInv, NEW s \in Sets, Reload(s), rx.stage = "error", newFileList # -1,
           s = "files" => currentFile = NoFile,
           rx' = Idle, newFileList' = -1,
           UNCHANGED <<lists, fileDirectoryName, errorCode, currentFile, asked>>
    PROVE  FilesInv'
<1> DEFINE g == [set[s] EXCEPT !.timer = "stopped"]
           f == IF errorCode = 0 THEN [g EXCEPT !.whichList = newFileList,
                                                !.currentPath = fileDirectoryName]
                ELSE [g EXCEPT !.whichList = -1]
<1>1. Types /\ Received /\ newFileList \in Lists /\ ~InUse(newFileList)
  BY DEF FilesInv, Received
<1>2. set[s] \in FileSets  BY <1>1 DEF Types
<1>3. f \in FileSets  BY <1>1, <1>2 DEF FileSets, Types
<1>4. /\ f.buttons = set[s].buttons
      /\ \/ f.whichList = -1 /\ f.currentPath = set[s].currentPath
         \/ f.whichList = newFileList /\ f.currentPath = fileDirectoryName
  BY <1>2 DEF FileSets
<1>5. FileListUpdated(s, f, popups)  BY DEF Reload
<1> HIDE DEF f, g
<1>6. f.whichList = newFileList \/ (f.buttons.up => f.currentPath.dirs # <<>>)
  BY <1>4 DEF FilesInv, UpHasParent
<1>7. /\ set' \in [Sets -> FileSets]
      /\ set'[s].whichList = f.whichList /\ set'[s].currentPath = f.currentPath
      /\ set'[s].buttons.up => set'[s].currentPath.dirs # <<>>
      /\ \A t \in Sets : t # s => set'[t] = set[t]
      /\ popups' = popups \/ (f.whichList = -1 /\ popups' = SetPopup(popups, s))
  <2>1. f.whichList = newFileList => f.whichList >= 0  BY <1>1 DEF Lists
  <2> QED  BY <1>1, <1>3, <1>5, <1>6, <2>1, Updated
<1>8. /\ Stacked(popups')
      /\ IsPopupActive(popups', "info") => IsPopupActive(popups, "info")
  <2>1. s \in Windows /\ s # "info"  BY DEF Sets, Windows
  <2>2. /\ Stacked(SetPopup(popups, s))
        /\ \A q : IsPopupActive(SetPopup(popups, s), q) => q = s \/ IsPopupActive(popups, q)
    BY <2>1, SetPopupStacked DEF FilesInv
  <2> QED  BY <1>7, <2>1, <2>2 DEF FilesInv
<1>9. Types'  BY <1>1, <1>7, KnownPaths DEF Types, Idle, Stages
<1>10. ~(-1 >= 0)  OBVIOUS
<1>11. \A t \in Sets : t # s => set[t].whichList # newFileList  BY <1>1 DEF InUse
<1>12. Apart'  BY <1>4, <1>7, <1>10, <1>11 DEF FilesInv, Apart
<1>13. Received'  BY DEF Received, Idle
<1>14. ListIsOfPath'
  <2>1. lists[newFileList].whole /\ lists[newFileList].dir = fileDirectoryName
    BY <1>1 DEF Received
  <2> QED  BY <1>4, <1>7, <1>10, <2>1 DEF FilesInv, ListIsOfPath
<1>15. SelectedIsIntact'
  <2>1. CASE s = "files"  BY <2>1 DEF SelectedIsIntact
  <2>2. CASE s # "files"
    <3>1. set'["files"] = set["files"]  BY <1>7, <2>2 DEF Sets
    <3> QED  BY <1>8, <3>1 DEF FilesInv, SelectedIsIntact
  <2> QED  BY <2>1, <2>2
<1>16. UpHasParent'  BY <1>7 DEF FilesInv, UpHasParent
<1> QED  BY <1>8, <1>9, <1>12, <1>13, <1>14, <1>15, <1>16 DEF FilesInv

LEMMA EndKeeps ==
    ASSUME FilesInv, EndReceivedMessage  PROVE FilesInv'
<1>1. /\ rx.stage \in {"error", "other"} /\ rx' = Idle /\ newFileList' = -1
      /\ UNCHANGED <<lists, fileDirectoryName, errorCode, currentFile, asked>>
      /\ \/ UNCHANGED <<set, popups>>
         \/ newFileList # -1 /\ Reload("macros")
         \/ newFileList # -1 /\ currentFile = NoFile /\ Reload("files")
  BY DEF EndReceivedMessage, IsDisplayingFileInfo
<1>2. CASE UNCHANGED <<set, popups>>
  <2>1. Types'  BY <1>1, <1>2, KnownPaths DEF FilesInv, Types, Idle, Stages
  <2>2. Received'  BY <1>1 DEF Received, Idle
  <2>3. (Stacked(popups) /\ Apart /\ ListIsOfPath /\ SelectedIsIntact /\ UpHasParent)'
    BY <1>1, <1>2 DEF FilesInv, Stacked, Apart, ListIsOfPath, SelectedIsIntact, UpHasParent
  <2> QED  BY <2>1, <2>2, <2>3 DEF FilesInv
<1>3. ASSUME newFileList # -1  PROVE rx.stage = "error"
  BY <1>1, <1>3 DEF FilesInv, Received
<1>4. CASE newFileList # -1 /\ Reload("macros")
  BY <1>1, <1>3, <1>4, ReloadKeeps DEF Sets
<1>5. CASE newFileList # -1 /\ currentFile = NoFile /\ Reload("files")
  BY <1>1, <1>3, <1>5, ReloadKeeps DEF Sets
<1> QED  BY <1>1, <1>2, <1>4, <1>5

-----------------------------------------------------------------------------
(* What the user touches.                                                   *)

LEMMA PendingSet ==
    ASSUME NEW f \in FileSets
    PROVE  /\ Pending(f) \in FileSets /\ Pending(f).whichList = f.whichList
           /\ Pending(f).currentPath = f.currentPath /\ Pending(f).buttons = f.buttons
           /\ \A p \in Paths, n \in 0..(NumVolumes - 1) :
                LET g == Pending([f EXCEPT !.whichList = -1, !.requestedPath = p])
                    h == Pending([f EXCEPT !.cardNumber = n, !.whichList = -1,
                                           !.requestedPath = p])
                IN  /\ g \in FileSets /\ g.whichList = -1
                    /\ g.currentPath = f.currentPath /\ g.buttons = f.buttons
                    /\ h \in FileSets /\ h.whichList = -1
                    /\ h.currentPath = f.currentPath /\ h.buttons = f.buttons
BY DEF Pending, FileSets

LEMMA DisplayKeeps ==
    ASSUME FilesInv, NEW s \in Sets, Display(s)  PROVE FilesInv'
<1>1. PICK f : f = Pending(set[s])  OBVIOUS
<1>2. PICK stack : stack = SetPopup(popups, s)  OBVIOUS
<1>3. set[s] \in FileSets  BY DEF FilesInv, Types
<1>4. /\ f \in FileSets /\ f.whichList = set[s].whichList
      /\ f.currentPath = set[s].currentPath /\ f.buttons = set[s].buttons
  BY <1>1, <1>3, PendingSet
<1>5. FileListUpdated(s, f, stack) /\ UNCHANGED <<listing, currentFile, asked, rx>>
  BY <1>1, <1>2 DEF Display
<1>6. popups = <<>>
  <2>1. popups # <<>> => popups[Len(popups)] \in Windows
    <3>1. popups \in Seq(Windows)  BY DEF FilesInv, Stacked
    <3> QED  BY <3>1
  <2>2. OnTop(popups) = "main"  BY DEF Display, Touch
  <2> QED  BY <2>1, <2>2 DEF OnTop, Windows
<1>7. /\ Stacked(stack)
      /\ \A q : IsPopupActive(stack, q) => q = s \/ IsPopupActive(popups, q)
  <2>1. s \in Windows /\ s # "info"  BY DEF Sets, Windows
  <2> QED  BY <1>2, <2>1, SetPopupStacked DEF FilesInv
<1>8. ~IsPopupActive(popups, "info")  BY <1>6 DEF IsPopupActive
<1>9. s # "info"  BY DEF Sets
<1> QED  BY <1>4, <1>5, <1>7, <1>8, <1>9, ListTouched

\* A window on top is displayed, and if it is the files, no file's popup is.
LEMMA TouchedWindow ==
    ASSUME FilesInv, NEW s \in Sets, Touch(s)
    PROVE  s = "files" => ~IsPopupActive(popups, "info")
BY InfoCoversFiles DEF FilesInv, Touch

LEMMA SubdirKeeps ==
    ASSUME FilesInv, NEW s \in Sets, RequestSubdir(s)  PROVE FilesInv'
<1>1. PICK d \in Subdirs(set[s].currentPath) :
        FileListUpdated(s, Pending([set[s] EXCEPT !.whichList = -1,
                                      !.requestedPath = Subdir(set[s].currentPath, d)]), popups)
  BY DEF RequestSubdir
<1>2. PICK p : p = Subdir(set[s].currentPath, d)  OBVIOUS
<1>3. set[s] \in FileSets /\ set[s].currentPath \in Paths  BY DEF FilesInv, Types, FileSets
<1>4. p \in Paths  BY <1>2, <1>3, PathsBelow
<1>5. PICK f : f = Pending([set[s] EXCEPT !.whichList = -1, !.requestedPath = p])  OBVIOUS
<1>6. /\ f \in FileSets /\ f.whichList = -1
      /\ f.currentPath = set[s].currentPath /\ f.buttons = set[s].buttons
  <2>1. 0 \in 0..(NumVolumes - 1)  BY FileAssumption
  <2> QED  BY <1>3, <1>4, <1>5, <2>1, PendingSet
<1>7. FileListUpdated(s, f, popups) /\ UNCHANGED <<listing, currentFile, asked, rx>>
  BY <1>1, <1>2, <1>5 DEF RequestSubdir
<1>8. Stacked(popups) /\ (s = "files" => ~IsPopupActive(popups, "info"))
  BY TouchedWindow DEF FilesInv, RequestSubdir
<1> QED  BY <1>6, <1>7, <1>8, ListTouched

LEMMA ParentKeeps ==
    ASSUME FilesInv, NEW s \in Sets, RequestParentDir(s)  PROVE FilesInv'
<1>1. PICK p : p = Parent(set[s].currentPath)  OBVIOUS
<1>2. set[s] \in FileSets /\ set[s].currentPath \in Paths  BY DEF FilesInv, Types, FileSets
<1>3. p \in Paths
  <2>1. set[s].currentPath.dirs # <<>>  BY DEF FilesInv, UpHasParent, RequestParentDir
  <2> QED  BY <1>1, <1>2, <2>1, PathsBelow
<1>4. PICK f : f = Pending([set[s] EXCEPT !.whichList = -1, !.requestedPath = p])  OBVIOUS
<1>5. /\ f \in FileSets /\ f.whichList = -1
      /\ f.currentPath = set[s].currentPath /\ f.buttons = set[s].buttons
  <2>1. 0 \in 0..(NumVolumes - 1)  BY FileAssumption
  <2> QED  BY <1>2, <1>3, <1>4, <2>1, PendingSet
<1>6. FileListUpdated(s, f, popups) /\ UNCHANGED <<listing, currentFile, asked, rx>>
  BY <1>1, <1>4 DEF RequestParentDir
<1>7. Stacked(popups) /\ (s = "files" => ~IsPopupActive(popups, "info"))
  BY TouchedWindow DEF FilesInv, RequestParentDir
<1> QED  BY <1>5, <1>6, <1>7, ListTouched

LEMMA ScrollKeeps ==
    ASSUME FilesInv, NEW s \in Sets, Scroll(s)  PROVE FilesInv'
<1>1. PICK amount \in {Rows, -Rows} :
        FileListUpdated(s, [set[s] EXCEPT !.scrollOffset = @ + amount], popups)
  BY DEF Scroll
<1>2. set[s] \in FileSets  BY DEF FilesInv, Types
<1>3. PICK n : n = set[s].scrollOffset + amount  OBVIOUS
<1>4. n \in Int
  <2>1. set[s].scrollOffset \in Int  BY <1>2 DEF FileSets
  <2>2. amount \in Int  BY FileAssumption
  <2> QED  BY <1>3, <2>1, <2>2
<1>5. PICK f : f = [set[s] EXCEPT !.scrollOffset = n]  OBVIOUS
<1>6. /\ f \in FileSets /\ f.whichList = set[s].whichList
      /\ f.currentPath = set[s].currentPath /\ f.buttons = set[s].buttons
  BY <1>2, <1>4, <1>5 DEF FileSets
<1>7. FileListUpdated(s, f, popups) /\ UNCHANGED <<listing, currentFile, asked, rx>>
  BY <1>1, <1>3, <1>5 DEF Scroll
<1>8. Stacked(popups) /\ (s = "files" => ~IsPopupActive(popups, "info"))
  BY TouchedWindow DEF FilesInv, Scroll
<1> QED  BY <1>6, <1>7, <1>8, ListTouched

LEMMA CardKeeps ==
    ASSUME FilesInv, NextCard  PROVE FilesInv'
<1>1. PICK cn : cn = (set["files"].cardNumber + 1) % NumVolumes  OBVIOUS
<1>2. PICK p : p = IF cn = 0 THEN root["files"] ELSE CardRoot(cn)  OBVIOUS
<1>3. set["files"] \in FileSets  BY DEF FilesInv, Types, Sets
<1>4. cn \in 0..(NumVolumes - 1)
  <2>1. set["files"].cardNumber + 1 \in Nat  BY <1>3 DEF FileSets
  <2>2. NumVolumes \in Nat /\ NumVolumes > 0  BY FileAssumption
  <2> QED  BY <1>1, <2>1, <2>2
<1>5. p \in Paths  BY <1>2, <1>4, KnownPaths DEF Sets
<1>6. PICK f : f = Pending([set["files"] EXCEPT !.cardNumber = cn, !.whichList = -1,
                              !.requestedPath = p])
  OBVIOUS
<1>7. /\ f \in FileSets /\ f.whichList = -1
      /\ f.currentPath = set["files"].currentPath /\ f.buttons = set["files"].buttons
  BY <1>3, <1>4, <1>5, <1>6, PendingSet
<1>8. /\ FileListUpdated("files", f, popups) /\ UNCHANGED <<listing, currentFile, asked, rx>>
      /\ Touch("files")
  BY <1>1, <1>2, <1>6 DEF NextCard
<1>9. Stacked(popups) /\ ~IsPopupActive(popups, "info")
  BY <1>8, TouchedWindow DEF FilesInv, Sets
<1> QED  BY <1>7, <1>8, <1>9, ListTouched DEF Sets

LEMMA SelectKeeps ==
    ASSUME FilesInv, SelectFile  PROVE FilesInv'
<1>1. PICK w : w = set["files"].whichList  OBVIOUS
<1>2. set["files"] \in FileSets  BY DEF FilesInv, Types, Sets
<1>3. w \in Lists /\ w >= 0  BY <1>1, <1>2 DEF SelectFile, FileSets
<1>4. /\ currentFile' = [list |-> w, intact |-> TRUE, dir |-> lists[w].dir]
      /\ popups' = SetPopup(popups, "info") /\ OnTop(popups) = "files"
      /\ UNCHANGED <<set, listing, asked, rx>>
  BY <1>1 DEF SelectFile, Touch
<1>5. Types'  BY <1>3, <1>4 DEF FilesInv, Types, listing
<1>6. Stacked(popups')
  <2>1. IsPopupActive(popups, "files")  BY <1>4, InfoCoversFiles DEF FilesInv
  <2> QED  BY <1>4, <2>1, SetPopupStacked DEF FilesInv, Windows
<1>7. SelectedIsIntact'
  <2>1. lists[w].dir = set["files"].currentPath  BY <1>1, <1>3 DEF FilesInv, ListIsOfPath, Sets
  <2> QED  BY <1>1, <1>4, <2>1 DEF SelectedIsIntact
<1>8. (Apart /\ Received /\ ListIsOfPath /\ UpHasParent)'
  BY <1>4 DEF FilesInv, Apart, Received, InUse, ListIsOfPath, UpHasParent, listing
<1> QED  BY <1>5, <1>6, <1>7, <1>8 DEF FilesInv

\* A step that changes what is displayed, selected or asked, but not a file set.
LEMMA SetsStay ==
    ASSUME FilesInv, UNCHANGED <<set, listing>>, Stacked(popups'), asked' \in Seq(Paths),
           rx' = rx \/ rx' = Idle,
           \/ currentFile' = NoFile
           \/ /\ currentFile' = currentFile
              /\ IsPopupActive(popups', "info") => IsPopupActive(popups, "info")
    PROVE  FilesInv'
<1>1. NoFile \in [list : Lists \cup {-1}, dir : Paths, intact : BOOLEAN]
  BY KnownPaths DEF NoFile
<1>2. Idle \in [stage : Stages, dir : Paths]  BY KnownPaths DEF Idle, Stages
<1>3. Types'  BY <1>1, <1>2 DEF FilesInv, Types, listing
<1> QED  BY <1>3, ListsStay

LEMMA PopupKeeps ==
    ASSUME FilesInv, PrintFile \/ DeleteFile \/ Cancel \/ StatusClearsPopups
    PROVE  FilesInv'
<1>1. Stacked(popups) /\ asked \in Seq(Paths)  BY DEF FilesInv, Types
<1>2. /\ Stacked(ClearPopup(popups))
      /\ \A q : IsPopupActive(ClearPopup(popups), q) => IsPopupActive(popups, q)
  BY <1>1, ClearPopupStacked
<1>3. CASE PrintFile
  <2>1. Stacked(ClearPopup(ClearPopup(popups))) /\ Stacked(<<>>)
    BY <1>2, ClearPopupStacked DEF Stacked
  <2>2. Stacked(popups')  BY <1>3, <2>1 DEF PrintFile
  <2> QED  BY <1>1, <1>3, <2>2, SetsStay DEF PrintFile
<1>4. CASE DeleteFile
  <2>1. "sure" \in Windows /\ "sure" # "info"  BY DEF Windows
  <2>2. /\ Stacked(SetPopup(popups, "sure"))
        /\ \A q : IsPopupActive(SetPopup(popups, "sure"), q)
                   => q = "sure" \/ IsPopupActive(popups, q)
    BY <1>1, <2>1, SetPopupStacked
  <2> QED  BY <1>1, <1>4, <2>1, <2>2, SetsStay DEF DeleteFile
<1>5. CASE Cancel  BY <1>1, <1>2, <1>5, SetsStay DEF Cancel
<1>6. CASE StatusClearsPopups
  <2>1. Stacked(<<>>)  BY DEF Stacked
  <2>2. ~IsPopupActive(<<>>, "info")  BY DEF IsPopupActive
  <2> QED  BY <1>1, <1>6, <2>1, <2>2, SetsStay DEF StatusClearsPopups
<1> QED  BY <1>3, <1>4, <1>5, <1>6

\* A step that starts or stops the timer of s, or changes what it will ask for.
LEMMA TimerKeeps ==
    ASSUME FilesInv, NEW s \in Sets, NEW f \in FileSets, set' = [set EXCEPT ![s] = f],
           f.whichList = set[s].whichList, f.currentPath = set[s].currentPath,
           f.buttons = set[s].buttons,
           UNCHANGED <<listing, rx>>, asked' \in Seq(Paths), Stacked(popups'),
           \/ currentFile' = NoFile
           \/ /\ currentFile' = currentFile
              /\ IsPopupActive(popups', "info") => IsPopupActive(popups, "info")
    PROVE  FilesInv'
<1>1. NoFile \in [list : Lists \cup {-1}, dir : Paths, intact : BOOLEAN]
  BY KnownPaths DEF NoFile
<1>2. set \in [Sets -> FileSets]  BY DEF FilesInv, Types
<1>3. Types'  BY <1>1, <1>2 DEF FilesInv, Types, listing
<1>4. \A t \in Sets : set'[t] = IF t = s THEN f ELSE set[t]  BY <1>2
<1>5. \A t \in Sets : /\ set'[t].whichList = set[t].whichList
                     /\ set'[t].currentPath = set[t].currentPath
                     /\ set'[t].buttons = set[t].buttons
  BY <1>4
<1> QED  BY <1>3, <1>5, ListsStay

LEMMA YesKeeps ==
    ASSUME FilesInv, Yes  PROVE FilesInv'
<1>1. Stacked(popups) /\ asked \in Seq(Paths)  BY DEF FilesInv, Types
<1>2. Stacked(ClearPopup(popups)) /\ Stacked(ClearPopup(ClearPopup(popups)))
  BY <1>1, ClearPopupStacked
<1>3. CASE currentFile # NoFile
  <2>1. PICK f : f = Pending(set["files"])  OBVIOUS
  <2>2. set["files"] \in FileSets  BY DEF FilesInv, Types, Sets
  <2>3. /\ f \in FileSets /\ f.whichList = set["files"].whichList
        /\ f.currentPath = set["files"].currentPath /\ f.buttons = set["files"].buttons
    BY <2>1, <2>2, PendingSet
  <2>4. /\ set' = [set EXCEPT !["files"] = f] /\ currentFile' = NoFile
        /\ popups' = ClearPopup(ClearPopup(popups)) /\ UNCHANGED <<listing, asked, rx>>
    BY <1>3, <2>1 DEF Yes
  <2> QED  BY <1>1, <1>2, <2>3, <2>4, TimerKeeps DEF Sets
<1>4. CASE currentFile = NoFile
  BY <1>1, <1>2, <1>4, SetsStay DEF Yes
<1> QED  BY <1>3, <1>4

LEMMA RefreshMacrosKeeps ==
    ASSUME FilesInv, RefreshMacrosList  PROVE FilesInv'
<1>1. PICK f : f = Pending(set["macros"])  OBVIOUS
<1>2. set["macros"] \in FileSets  BY DEF FilesInv, Types, Sets
<1>3. /\ f \in FileSets /\ f.whichList = set["macros"].whichList
      /\ f.currentPath = set["macros"].currentPath /\ f.buttons = set["macros"].buttons
  BY <1>1, <1>2, PendingSet
<1>4. Stacked(popups) /\ asked \in Seq(Paths)  BY DEF FilesInv, Types
<1>5. /\ set' = [set EXCEPT !["macros"] = f]
      /\ UNCHANGED <<listing, popups, currentFile, asked, rx>>
  BY <1>1 DEF RefreshMacrosList
<1> QED  BY <1>3, <1>4, <1>5, TimerKeeps DEF Sets

LEMMA FeaturesKeep ==
    ASSUME FilesInv, FirmwareFeaturesChanged  PROVE FilesInv'
<1>1. PICK f : f = [set["files"] EXCEPT !.requestedPath = root["files"]]  OBVIOUS
<1>2. set["files"] \in FileSets /\ root["files"] \in Paths
  BY KnownPaths DEF FilesInv, Types, Sets
<1>3. /\ f \in FileSets /\ f.whichList = set["files"].whichList
      /\ f.currentPath = set["files"].currentPath /\ f.buttons = set["files"].buttons
  BY <1>1, <1>2 DEF FileSets
<1>4. Stacked(popups) /\ asked \in Seq(Paths)  BY DEF FilesInv, Types
<1>5. /\ set' = [set EXCEPT !["files"] = f]
      /\ UNCHANGED <<listing, popups, currentFile, asked, rx>>
  BY <1>1 DEF FirmwareFeaturesChanged
<1> QED  BY <1>3, <1>4, <1>5, TimerKeeps DEF Sets

LEMMA ProcessKeeps ==
    ASSUME FilesInv, NEW s \in Sets, ProcessTimer(s) \/ TimerRunsOut(s)
    PROVE  FilesInv'
<1>1. PICK timer \in {"running", "ready"} : set' = [set EXCEPT ![s].timer = timer]
  BY DEF ProcessTimer, TimerRunsOut
<1>2. PICK f : f = [set[s] EXCEPT !.timer = timer]  OBVIOUS
<1>3. set[s] \in FileSets /\ Stacked(popups) /\ asked \in Seq(Paths)
  BY DEF FilesInv, Types
<1>4. /\ f \in FileSets /\ f.whichList = set[s].whichList
      /\ f.currentPath = set[s].currentPath /\ f.buttons = set[s].buttons
  BY <1>2, <1>3 DEF FileSets
<1>5. set' = [set EXCEPT ![s] = f]  BY <1>1, <1>2 DEF FilesInv, Types
<1>6. asked' \in Seq(Paths)
  <2>1. set[s].requestedPath \in Paths  BY <1>3 DEF FileSets
  <2>2. Append(asked, set[s].requestedPath) \in Seq(Paths)  BY <1>3, <2>1
  <2> QED  BY <1>3, <2>2 DEF ProcessTimer, TimerRunsOut
<1>7. UNCHANGED <<listing, popups, currentFile, rx>>
  BY DEF ProcessTimer, TimerRunsOut
<1> QED  BY <1>3, <1>4, <1>5, <1>6, <1>7, TimerKeeps

LEMMA FaultKeeps ==
    ASSUME FilesInv, MessageIsCutOff \/ RequestIsLost  PROVE FilesInv'
<1>1. Stacked(popups) /\ asked \in Seq(Paths)  BY DEF FilesInv, Types
<1>2. asked # <<>> => Tail(asked) \in Seq(Paths)  BY <1>1
<1> QED  BY <1>1, <1>2, SetsStay DEF MessageIsCutOff, RequestIsLost

-----------------------------------------------------------------------------
LEMMA InitInv == Init => FilesInv
<1> SUFFICES ASSUME Init PROVE FilesInv  OBVIOUS
<1>1. Types
  <2>1. \A s \in Sets : set[s] \in FileSets
    <3> SUFFICES ASSUME NEW s \in Sets PROVE set[s] \in FileSets  OBVIOUS
    <3>1. set[s] = [requestedPath |-> root[s], currentPath |-> NoPath, timer |-> "stopped",
                    whichList |-> -1, scrollOffset |-> 0, cardNumber |-> 0,
                    buttons |-> NoButtons]
      BY DEF Init
    <3>2. 0 \in 0..(NumVolumes - 1)  BY FileAssumption
    <3> QED  BY <3>1, <3>2, KnownPaths DEF FileSets, NoButtons
  <2>2. set \in [Sets -> FileSets]  BY <2>1 DEF Init
  <2>3. 0 \in 0..MaxFiles  BY FileAssumption
  <2> QED  BY <2>2, <2>3, KnownPaths DEF Init, Types, NoFile, Idle, Stages
<1>2. Stacked(popups)  BY DEF Init, Stacked
<1>3. \A s \in Sets : set[s].whichList = -1 /\ set[s].buttons.up = FALSE
  BY DEF Init, NoButtons
<1>4. ~(-1 >= 0)  OBVIOUS
<1>5. Apart /\ ListIsOfPath /\ UpHasParent
  BY <1>3, <1>4 DEF Apart, ListIsOfPath, UpHasParent
<1>6. Received  BY DEF Init, Received, Idle
<1>7. SelectedIsIntact  BY DEF Init, SelectedIsIntact
<1> QED  BY <1>1, <1>2, <1>5, <1>6, <1>7 DEF FilesInv

LEMMA NextInv == FilesInv /\ [Next]_vars => FilesInv'
<1> SUFFICES ASSUME FilesInv, [Next]_vars PROVE FilesInv'  OBVIOUS
<1>1. CASE Receive
  BY <1>1, StartKeeps, NameKeeps, BeginKeeps, FileKeeps, ErrorKeeps, EndKeeps DEF Receive
<1>2. CASE MessageIsCutOff \/ RequestIsLost  BY <1>2, FaultKeeps
<1>3. CASE \E s \in Sets : ProcessTimer(s) \/ TimerRunsOut(s)  BY <1>3, ProcessKeeps
<1>4. CASE User
  <2>1. CASE \E s \in Sets : Display(s) \/ RequestSubdir(s) \/ RequestParentDir(s) \/ Scroll(s)
    BY <2>1, DisplayKeeps, SubdirKeeps, ParentKeeps, ScrollKeeps
  <2>2. CASE NextCard \/ SelectFile \/ Yes  BY <2>2, CardKeeps, SelectKeeps, YesKeeps
  <2>3. CASE PrintFile \/ DeleteFile \/ Cancel  BY <2>3, PopupKeeps
  <2> QED  BY <1>4, <2>1, <2>2, <2>3 DEF User
<1>5. CASE RefreshMacrosList  BY <1>5, RefreshMacrosKeeps
<1>6. CASE StatusClearsPopups  BY <1>6, PopupKeeps
<1>7. CASE FirmwareFeaturesChanged  BY <1>7, FeaturesKeep
<1>8. CASE UNCHANGED vars
  <2>1. UNCHANGED <<set, listing, popups, currentFile, asked, rx>>
    BY <1>8 DEF vars, listing
  <2>2. Stacked(popups) /\ asked \in Seq(Paths)  BY DEF FilesInv, Types
  <2> QED  BY <2>1, <2>2, SetsStay
<1> QED  BY <1>1, <1>2, <1>3, <1>4, <1>5, <1>6, <1>7, <1>8 DEF Next

LEMMA FilesAlways == Spec => []FilesInv
BY InitInv, NextInv, PTL DEF Spec

\* The types of the file sets, the lists and the listing received: no index of a list
\* (FileManager.cpp:40) is ever out of range, nor the number of a card.
THEOREM TypeCorrect == Spec => []TypeOK
<1>1. FilesInv => TypeOK  BY DEF FilesInv, Types, TypeOK, FileSets, Sets
<1> QED  BY <1>1, FilesAlways, PTL

\* Three lists are enough: the two file sets never share one, and a listing is received
\* (FileManager.cpp:370) into one that neither shows.
THEOREM ListsStayApart == Spec => []ListsApart
<1>1. FilesInv => ListsApart  BY DEF FilesInv, Apart, Received, ListsApart
<1> QED  BY <1>1, FilesAlways, PTL

\* A list shown was received to its end, from the directory its file set believes it
\* is in (FileManager.cpp:78).
THEOREM ListsAreOfPaths == Spec => []ListIsOfPath
<1>1. FilesInv => ListIsOfPath  BY DEF FilesInv
<1> QED  BY <1>1, FilesAlways, PTL

\* The name in a file's popup (UserInterface.cpp:4354) stays in its list, and the
\* current directory stays the file's, until the popup is left.
THEOREM SelectedStaysIntact == Spec => []SelectedIsIntact
<1>1. FilesInv => SelectedIsIntact  BY DEF FilesInv
<1> QED  BY <1>1, FilesAlways, PTL

\* The button for the parent directory is not there where there is none
\* (FileManager.cpp:212).
THEOREM UpAlwaysHasParent == Spec => []UpHasParent
<1>1. FilesInv => UpHasParent  BY DEF FilesInv
<1> QED  BY <1>1, FilesAlways, PTL

-----------------------------------------------------------------------------
(* Scrolling.                                                               *)

LEMMA OffsetIsSensible ==
    ASSUME NEW offset \in Int, NEW size \in Nat
    PROVE  /\ 0 <= SensibleOffset(offset, size)
           /\ SensibleOffset(offset, size) < size \/ SensibleOffset(offset, size) = 0
<1>1. Rows \in Nat /\ Rows > 0  BY FileAssumption
<1>2. CASE offset >= size /\ ~(offset < 0 \/ size = 0)
  <2>1. PICK q : q = (size - 1) \div Rows  OBVIOUS
  <2>2. size - 1 \in Nat  BY <1>2
  <2>3. q \in Nat /\ q * Rows <= size - 1 /\ 0 <= q * Rows  BY <1>1, <2>1, <2>2
  <2>4. SensibleOffset(offset, size) = q * Rows  BY <1>2, <2>1 DEF SensibleOffset
  <2> QED  BY <1>1, <2>2, <2>3, <2>4
<1> QED  BY <1>2 DEF SensibleOffset

\* The list of s is not shown, or from a row it has.
Sensible(s) ==
    set[s].whichList >= 0 =>
        /\ 0 <= set[s].scrollOffset
        /\ set[s].scrollOffset < Size(set[s]) \/ set[s].scrollOffset = 0

\* FileListUpdated puts the offset right, however far the list was scrolled before.
LEMMA UpdatedIsSensible ==
    ASSUME Types, ScrollSensible, NEW s \in Sets, NEW f, f.whichList = -1 \/ f \in FileSets,
           NEW stack, FileListUpdated(s, f, stack), UNCHANGED lists
    PROVE  ScrollSensible'
<1>1. PICK g : g = IF f.whichList >= 0 THEN Refreshed(f) ELSE f  OBVIOUS
<1>2. set' = [set EXCEPT ![s] = g] /\ set \in [Sets -> FileSets]
  BY <1>1 DEF FileListUpdated, Types
<1>3. set'[s] = g /\ \A t \in Sets : t # s => set'[t] = set[t]  BY <1>2
<1>4. Sensible(s)'
  <2>1. CASE f.whichList = -1
    <3>1. ~(f.whichList >= 0)  BY <2>1
    <3> QED  BY <1>1, <1>3, <3>1 DEF Sensible
  <2>2. CASE f \in FileSets /\ f.whichList # -1
    <3>1. f.whichList \in 0..2 /\ f.scrollOffset \in Int  BY <2>2 DEF FileSets, Lists
    <3>2. f.whichList >= 0  BY <3>1
    <3>3. lists[f.whichList] \in [dir : Paths, size : 0..MaxFiles, whole : BOOLEAN]
      BY <3>1 DEF Types, Lists
    <3>4. Size(f) \in Nat
      <4>1. lists[f.whichList].size \in 0..MaxFiles  BY <3>3
      <4> QED  BY <4>1, FileAssumption DEF Size
    <3>5. PICK offset : offset = SensibleOffset(f.scrollOffset, Size(f))  OBVIOUS
    <3>6. 0 <= offset /\ (offset < Size(f) \/ offset = 0)
      BY <3>1, <3>4, <3>5, OffsetIsSensible
    <3>7. g = Refreshed(f) /\ g.whichList = f.whichList  BY <1>1, <2>2, <3>2, RefreshedSet
    <3>8. g.scrollOffset = offset
      BY <2>2, <3>5, <3>7 DEF Refreshed, FileSets
    <3>9. Size(set[s])' = Size(f)  BY <1>3, <3>7 DEF Size
    <3> QED  BY <1>3, <3>6, <3>8, <3>9 DEF Sensible
  <2> QED  BY <2>1, <2>2
<1>5. \A t \in Sets : t # s => Sensible(t)'
  BY <1>3 DEF Sensible, ScrollSensible, Size
<1> QED  BY <1>4, <1>5 DEF Sensible, ScrollSensible

\* The lists shown stay, and where they are shown from.
LEMMA StaysSensible ==
    ASSUME ScrollSensible,
           \A s \in Sets : /\ set'[s].whichList = set[s].whichList
                           /\ set'[s].scrollOffset = set[s].scrollOffset
                           /\ set[s].whichList >= 0 => Size(set[s])' = Size(set[s])
    PROVE  ScrollSensible'
BY DEF ScrollSensible

\* A listing is received into a list that is not shown.
LEMMA ReceivedOutOfSight ==
    ASSUME Types, ScrollSensible, NEW k \in Lists, ~InUse(k), UNCHANGED set,
           \A j \in Lists : j # k => lists'[j] = lists[j]
    PROVE  ScrollSensible'
<1>1. \A s \in Sets : set[s].whichList >= 0 => Size(set[s])' = Size(set[s])
  <2> SUFFICES ASSUME NEW s \in Sets, set[s].whichList >= 0
               PROVE  Size(set[s])' = Size(set[s])
    OBVIOUS
  <2>1. set[s].whichList \in Lists  BY DEF Types, FileSets
  <2>2. set[s].whichList # k  BY DEF InUse
  <2> QED  BY <2>1, <2>2 DEF Size
<1> QED  BY <1>1, StaysSensible

LEMMA ReceiveSensible ==
    ASSUME FilesInv, ScrollSensible, Receive  PROVE ScrollSensible'
<1>1. Types /\ Received /\ lists \in [Lists -> [dir : Paths, size : 0..MaxFiles, whole : BOOLEAN]]
  BY DEF FilesInv, Types
<1>2. CASE StartReceivedMessage \/ ReceiveDirectoryName
  <2>1. UNCHANGED <<set, lists>>  BY <1>2 DEF StartReceivedMessage, ReceiveDirectoryName
  <2> QED  BY <2>1, StaysSensible DEF Size
<1>3. CASE BeginReceivingFiles
  <2>1. PICK k \in Lists : k = FreeList /\ ~InUse(k)  BY <1>1, FreeListIsFree
  <2>2. UNCHANGED set /\ \A j \in Lists : j # k => lists'[j] = lists[j]
    BY <1>1, <1>3, <2>1 DEF BeginReceivingFiles
  <2> QED  BY <1>1, <2>1, <2>2, ReceivedOutOfSight
<1>4. CASE ReceiveFile \/ ReceiveErrorCode
  <2>1. PICK k : k = newFileList  OBVIOUS
  <2>2. k \in Lists /\ ~InUse(k)  BY <1>1, <1>4, <2>1 DEF Received, ReceiveFile, ReceiveErrorCode
  <2>3. UNCHANGED set /\ \A j \in Lists : j # k => lists'[j] = lists[j]
    BY <1>1, <1>4, <2>1 DEF ReceiveFile, ReceiveErrorCode
  <2> QED  BY <1>1, <2>2, <2>3, ReceivedOutOfSight
<1>5. CASE EndReceivedMessage
  <2>1. /\ UNCHANGED lists
        /\ \/ UNCHANGED set
           \/ newFileList # -1 /\ \E s \in Sets : Reload(s)
    BY <1>5 DEF EndReceivedMessage, Sets
  <2>2. CASE UNCHANGED set  BY <2>1, <2>2, StaysSensible DEF Size
  <2>3. CASE newFileList # -1 /\ \E s \in Sets : Reload(s)
    <3>1. PICK s \in Sets : Reload(s)  BY <2>3
    <3> DEFINE g == [set[s] EXCEPT !.timer = "stopped"]
               f == IF errorCode = 0 THEN [g EXCEPT !.whichList = newFileList,
                                                    !.currentPath = fileDirectoryName]
                    ELSE [g EXCEPT !.whichList = -1]
    <3>2. set[s] \in FileSets  BY <1>1 DEF Types
    <3>3. f \in FileSets  BY <1>1, <3>2 DEF FileSets, Types
    <3>4. FileListUpdated(s, f, popups)  BY <3>1 DEF Reload
    <3> HIDE DEF f
    <3> QED  BY <1>1, <2>1, <3>3, <3>4, UpdatedIsSensible
  <2> QED  BY <2>1, <2>2, <2>3
<1> QED  BY <1>2, <1>3, <1>4, <1>5 DEF Receive

LEMMA TouchSensible ==
    ASSUME FilesInv, ScrollSensible, NEW s \in Sets,
           Display(s) \/ RequestSubdir(s) \/ RequestParentDir(s) \/ Scroll(s)
    PROVE  ScrollSensible'
<1>1. Types /\ set[s] \in FileSets  BY DEF FilesInv, Types
<1>2. UNCHANGED lists  BY DEF Display, RequestSubdir, RequestParentDir, Scroll, listing
<1>3. CASE Display(s)
  <2>1. PICK f : f = Pending(set[s])  OBVIOUS
  <2>2. f \in FileSets  BY <1>1, <2>1, PendingSet
  <2>3. FileListUpdated(s, f, SetPopup(popups, s))  BY <1>3, <2>1 DEF Display
  <2> QED  BY <1>1, <1>2, <2>2, <2>3, UpdatedIsSensible
<1>4. CASE RequestSubdir(s) \/ RequestParentDir(s)
  <2>1. PICK p : FileListUpdated(s, Pending([set[s] EXCEPT !.whichList = -1,
                                               !.requestedPath = p]), popups)
    BY <1>4 DEF RequestSubdir, RequestParentDir
  <2>2. PICK f : f = Pending([set[s] EXCEPT !.whichList = -1, !.requestedPath = p])  OBVIOUS
  <2>3. f.whichList = -1  BY <1>1, <2>2 DEF Pending, FileSets
  <2> QED  BY <1>1, <1>2, <2>1, <2>2, <2>3, UpdatedIsSensible
<1>5. CASE Scroll(s)
  <2>1. PICK amount \in {Rows, -Rows} :
          FileListUpdated(s, [set[s] EXCEPT !.scrollOffset = @ + amount], popups)
    BY <1>5 DEF Scroll
  <2>2. PICK n : n = set[s].scrollOffset + amount  OBVIOUS
  <2>3. n \in Int
    <3>1. set[s].scrollOffset \in Int  BY <1>1 DEF FileSets
    <3>2. amount \in Int  BY FileAssumption
    <3> QED  BY <2>2, <3>1, <3>2
  <2>4. PICK f : f = [set[s] EXCEPT !.scrollOffset = n]  OBVIOUS
  <2>5. f \in FileSets  BY <1>1, <2>3, <2>4 DEF FileSets
  <2>6. FileListUpdated(s, f, popups)  BY <2>1, <2>2, <2>4
  <2> QED  BY <1>1, <1>2, <2>5, <2>6, UpdatedIsSensible
<1> QED  BY <1>3, <1>4, <1>5

LEMMA CardSensible ==
    ASSUME FilesInv, ScrollSensible, NextCard  PROVE ScrollSensible'
<1>1. Types /\ set["files"] \in FileSets /\ "files" \in Sets  BY DEF FilesInv, Types, Sets
<1>2. UNCHANGED lists  BY DEF NextCard, listing
<1>3. PICK n, p : FileListUpdated("files",
                     Pending([set["files"] EXCEPT !.cardNumber = n, !.whichList = -1,
                                !.requestedPath = p]), popups)
  BY DEF NextCard
<1>4. PICK f : f = Pending([set["files"] EXCEPT !.cardNumber = n, !.whichList = -1,
                              !.requestedPath = p])
  OBVIOUS
<1>5. f.whichList = -1  BY <1>1, <1>4 DEF Pending, FileSets
<1> QED  BY <1>1, <1>2, <1>3, <1>4, <1>5, UpdatedIsSensible

LEMMA NextSensible ==
    ASSUME FilesInv, ScrollSensible, [Next]_vars  PROVE ScrollSensible'
<1> DEFINE Kept == /\ UNCHANGED lists
                   /\ \A s \in Sets : /\ set'[s].whichList = set[s].whichList
                                      /\ set'[s].scrollOffset = set[s].scrollOffset
<1>1. ASSUME Kept PROVE ScrollSensible'  BY <1>1, StaysSensible DEF Size
<1>2. set \in [Sets -> FileSets]  BY DEF FilesInv, Types
<1>3. CASE \E s \in Sets : ProcessTimer(s) \/ TimerRunsOut(s)
  <2>1. \E s \in Sets : \E t : set' = [set EXCEPT ![s].timer = t]
    BY <1>3 DEF ProcessTimer, TimerRunsOut
  <2>2. UNCHANGED lists  BY <1>3 DEF ProcessTimer, TimerRunsOut, listing
  <2>3. Kept  BY <1>2, <2>1, <2>2 DEF FileSets
  <2> QED  BY <1>1, <2>3
<1>4. CASE Yes \/ RefreshMacrosList \/ FirmwareFeaturesChanged
  <2>1. /\ UNCHANGED lists
        /\ \/ UNCHANGED set
           \/ \E s \in Sets : set' = [set EXCEPT ![s] = Pending(@)]
           \/ \E p : set' = [set EXCEPT !["files"].requestedPath = p]
    BY <1>4 DEF Yes, RefreshMacrosList, FirmwareFeaturesChanged, listing, Sets
  <2>2. Kept
    <3>1. CASE UNCHANGED set  BY <2>1, <3>1
    <3>2. CASE \E s \in Sets : set' = [set EXCEPT ![s] = Pending(@)]
      BY <1>2, <2>1, <3>2 DEF Pending, FileSets
    <3>3. CASE \E p : set' = [set EXCEPT !["files"].requestedPath = p]
      BY <1>2, <2>1, <3>3 DEF FileSets
    <3> QED  BY <2>1, <3>1, <3>2, <3>3
  <2> QED  BY <1>1, <2>2
<1>5. CASE UNCHANGED <<set, lists>>  BY <1>1, <1>5
<1>6. CASE MessageIsCutOff \/ RequestIsLost \/ SelectFile \/ PrintFile \/ DeleteFile \/ Cancel
           \/ StatusClearsPopups
  BY <1>5, <1>6 DEF MessageIsCutOff, RequestIsLost, SelectFile, PrintFile, DeleteFile, Cancel,
     StatusClearsPopups, listing
<1>7. CASE UNCHANGED vars  BY <1>5, <1>7 DEF vars
<1> QED
  BY <1>3, <1>4, <1>6, <1>7, ReceiveSensible, TouchSensible, CardSensible DEF Next, User

\* However a list is scrolled and whatever shorter one replaces it, it is shown from a row
\* it has (FileManager.cpp:129): no page is empty while there are names.
THEOREM ScrollStaysSensible == Spec => []ScrollSensible
<1>1. Init => ScrollSensible
  <2>1. ~(-1 >= 0)  OBVIOUS
  <2> QED  BY <2>1 DEF Init, ScrollSensible
<1>2. FilesInv /\ ScrollSensible /\ [Next]_vars => ScrollSensible'  BY NextSensible
<1> QED  BY <1>1, <1>2, FilesAlways, PTL DEF Spec
=============================================================================
