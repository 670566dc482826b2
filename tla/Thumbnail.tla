------------------------------ MODULE Thumbnail ------------------------------
(***************************************************************************)
(* The preview of a print file (src/PanelDue.cpp: the thumbnail's context,  *)
(* the messages' start and end, the main loop; src/Library/Thumbnail.cpp;   *)
(* src/UI/UserInterface.cpp: the popup it is drawn in).  The answer to M36  *)
(* tells which thumbnails a file has; the largest that fits is fetched      *)
(* chunk by chunk with M36.1, each sent once the one before was drawn.      *)
(*                                                                         *)
(* The printer answers requests in order, each wholly or not at all, or the *)
(* rest of the answer is cut off.  A chunk is known by the file it is of,   *)
(* by the size of the thumbnail and by its number, and so is the offset     *)
(* where it begins; what the decoder does with a chunk that does not follow *)
(* the last one is open.  Thumbnails that do not fit or are no qoi pictures *)
(* change nothing and are left out.                                         *)
(***************************************************************************)
EXTENDS Integers, Sequences

CONSTANTS
    Files,      \* print files
    Sizes,      \* numbers: sizes of thumbnails that fit
    Chunks,     \* how many chunks a thumbnail has
    MaxOpens,   \* bound: files the user opens
    MaxOthers,  \* bound: messages about other things
    MaxFaults   \* bound: answers lost or cut off

VARIABLES
    headers,           \* the sizes of each file's thumbnails
    thumbnailCurrent,  \* state, size (0 if none), error, where the next chunk is
    filenameCurrent,   \* last one received; "" if cleared
    thumbnailData,     \* chunk received last
    decoded,           \* chunks the decoder has had, in order
    fileDetailPopup,   \* file in the popup; "" if not displayed
    drawn,             \* chunks drawn since it is displayed
    wire,              \* answers the printer has still to give
    receiving,         \* message being received, as far as it has come
    answered,          \* something was received since M36.1 was sent last
    alone, faulty,     \* history: no file was opened before the last was done; a fault
    opens, others, faults

popup == <<fileDetailPopup, drawn>>
counters == <<opens, others, faults>>
download == <<thumbnailCurrent, filenameCurrent, thumbnailData, decoded>>
past == <<alone, faulty, counters>>
thumbVars == <<headers, download, popup, wire, receiving, answered, past>>

NoChunk == [file |-> "", size |-> 0, nr |-> 0]
Chunk(f, s, n) == [file |-> f, size |-> s, nr |-> n]
Context(st, s, n) == [state |-> st, size |-> s, err |-> FALSE, next |-> n]
NoMessage == [kind |-> "none", part |-> "idle"]

\* The thumbnails a file may have: none, one, or two in either order.
Headers == {<<>>} \cup {<<s>> : s \in Sizes} \cup {<<s, t>> : s \in Sizes, t \in Sizes}

ThumbInit ==
    /\ headers \in [Files -> Headers]
    /\ thumbnailCurrent = Context("Init", 0, NoChunk) /\ filenameCurrent = ""
    /\ thumbnailData = NoChunk /\ decoded = <<>>
    /\ fileDetailPopup = "" /\ drawn = <<>>
    /\ wire = <<>> /\ receiving = NoMessage /\ answered = TRUE
    /\ alone = TRUE /\ faulty = FALSE
    /\ opens = 0 /\ others = 0 /\ faults = 0

-----------------------------------------------------------------------------
(* The user and the printer.                                                *)

\* A file is touched in the list, or its popup is drawn again: M36 is sent.
OpenFile ==
    /\ opens < MaxOpens /\ opens' = opens + 1
    /\ \E f \in Files :
         /\ fileDetailPopup \in {"", f} /\ fileDetailPopup' = f
         /\ wire' = Append(wire, [kind |-> "M36", file |-> f, headers |-> headers[f]])
    /\ drawn' = <<>>
    /\ alone' = (alone /\ wire = <<>> /\ receiving = NoMessage /\ thumbnailCurrent.state = "Init")
    /\ UNCHANGED <<headers, download, receiving, answered, faulty, others, faults>>

CloseFile ==
    /\ fileDetailPopup # "" /\ fileDetailPopup' = ""
    /\ UNCHANGED <<headers, download, drawn, wire, receiving, answered, past>>

\* The answer to M36.1: the chunk asked for and where the next one is, none after the
\* last; an error, or anything, for an offset that is another file's.
ChunkAnswers(name, at) ==
    IF name # at.file
    THEN {[kind |-> "M36.1", file |-> name, data |-> Chunk(name, 0, 1), next |-> NoChunk,
           err |-> e] : e \in BOOLEAN}
    ELSE {[kind |-> "M36.1", file |-> name, data |-> at, err |-> FALSE,
           next |-> IF at.nr < Chunks THEN Chunk(at.file, at.size, at.nr + 1) ELSE NoChunk]}

AnswerIsLost ==
    /\ wire # <<>> /\ wire' = Tail(wire)
    /\ faults < MaxFaults /\ faults' = faults + 1 /\ faulty' = TRUE
    /\ UNCHANGED <<headers, download, popup, receiving, answered, alone, opens, others>>

-----------------------------------------------------------------------------
(* Receiving a message.                                                     *)

Receive(m) == receiving' = m

\* What is left of the last download is cleared once it is over.
StartReceivedMessage(m) ==
    /\ receiving = NoMessage /\ Receive([kind |-> m.kind, part |-> "begun", of |-> m])
    /\ IF thumbnailCurrent.state = "Init"
       THEN /\ thumbnailCurrent' = Context("Init", 0, NoChunk) /\ filenameCurrent' = ""
            /\ thumbnailData' = NoChunk /\ decoded' = <<>>
       ELSE UNCHANGED <<thumbnailCurrent, filenameCurrent, thumbnailData, decoded>>
    /\ UNCHANGED <<headers, popup, answered, alone, faulty, opens, faults>>

StartAnswer ==
    /\ wire # <<>> /\ wire' = Tail(wire) /\ StartReceivedMessage(Head(wire))
    /\ UNCHANGED others

StartOther ==
    /\ others < MaxOthers /\ others' = others + 1
    /\ StartReceivedMessage([kind |-> "other"])
    /\ UNCHANGED wire

\* The name in the answer to M36; in that to M36.1 it must be the one received last.
ReceiveFilename ==
    /\ receiving.kind \in {"M36", "M36.1"} /\ receiving.part = "begun"
    /\ Receive([receiving EXCEPT !.part = "named"])
    /\ IF receiving.kind = "M36"
       THEN filenameCurrent' = receiving.of.file /\ UNCHANGED thumbnailCurrent
       ELSE /\ thumbnailCurrent' =
                  [thumbnailCurrent EXCEPT !.err = @ \/ filenameCurrent # receiving.of.file]
            /\ UNCHANGED filenameCurrent
    /\ UNCHANGED <<headers, thumbnailData, decoded, popup, wire, answered, past>>

\* The end of an element of "thumbnails": it is taken if it is larger than the current
\* one, whatever is being done with that.
ReceiveThumbnail ==
    /\ receiving.kind = "M36" /\ receiving.part = "named" /\ receiving.of.headers # <<>>
    /\ Receive([receiving EXCEPT !.of.headers = Tail(@)])
    /\ LET s == Head(receiving.of.headers)
       IN  IF thumbnailCurrent.size < s
           THEN /\ thumbnailCurrent' = Context("Header", s, Chunk(receiving.of.file, s, 1))
                /\ decoded' = <<>>
           ELSE UNCHANGED <<thumbnailCurrent, decoded>>
    /\ UNCHANGED <<headers, filenameCurrent, thumbnailData, popup, wire, answered, past>>

\* The data of the answer to M36.1, or its error.
ReceiveData ==
    /\ receiving.kind = "M36.1" /\ receiving.part = "named"
    /\ Receive([receiving EXCEPT !.part = "data"])
    /\ IF receiving.of.err
       THEN thumbnailCurrent' = [thumbnailCurrent EXCEPT !.err = TRUE] /\ UNCHANGED thumbnailData
       ELSE /\ thumbnailCurrent' = [thumbnailCurrent EXCEPT !.state = "Data"]
            /\ thumbnailData' = receiving.of.data
    /\ UNCHANGED <<headers, filenameCurrent, decoded, popup, wire, answered, past>>

ReceiveNext ==
    /\ receiving.kind = "M36.1" /\ receiving.part = "data"
    /\ Receive([receiving EXCEPT !.part = "next"])
    /\ thumbnailCurrent' = [thumbnailCurrent EXCEPT !.next = receiving.of.next]
    /\ UNCHANGED <<headers, filenameCurrent, thumbnailData, decoded, popup, wire, answered, past>>

Whole ==
    CASE receiving.kind = "M36" -> receiving.part = "named" /\ receiving.of.headers = <<>>
      [] receiving.kind = "M36.1" -> receiving.part = "next"
      [] OTHER -> receiving.kind = "other"

\* The chunk is one the decoder can go on with.
Follows(c) ==
    IF decoded = <<>> THEN c.size = thumbnailCurrent.size /\ c.nr = 1
    ELSE c = [decoded[Len(decoded)] EXCEPT !.nr = @ + 1]

\* ThumbnailDecodeChunk: fails if there is no data, if the decoder makes nothing of it, or
\* if the popup it is to be drawn in is not displayed.
ThumbnailDecodeChunk(ok) ==
    /\ ok => thumbnailData # NoChunk /\ fileDetailPopup # ""
    /\ ~ok => thumbnailData = NoChunk \/ ~Follows(thumbnailData) \/ fileDetailPopup = ""
    /\ decoded' = (IF thumbnailData = NoChunk THEN decoded ELSE Append(decoded, thumbnailData))
    /\ drawn' = (IF ok THEN Append(drawn, thumbnailData) ELSE drawn)

\* Mutant: a chunk that was drawn still counts as received.
AfterChunkStays(ok) ==
    IF ~ok \/ thumbnailCurrent.next = NoChunk THEN "Init" ELSE "Data"

\* Mutant: a chunk that could not be drawn is tried again.
AfterChunkAgain(ok) ==
    IF ~ok THEN "Data" ELSE IF thumbnailCurrent.next = NoChunk THEN "Init" ELSE "DataRequest"

AfterChunk(ok) == IF ~ok \/ thumbnailCurrent.next = NoChunk THEN "Init" ELSE "DataRequest"

EndReceivedMessage ==
    /\ Whole /\ Receive(NoMessage) /\ answered' = TRUE
    /\ LET To(st) == thumbnailCurrent' = [thumbnailCurrent EXCEPT !.state = st]
       IN  CASE thumbnailCurrent.err -> To("Init") /\ UNCHANGED <<decoded, drawn>>
             [] ~thumbnailCurrent.err /\ thumbnailCurrent.state = "Header" ->
                    To("DataRequest") /\ UNCHANGED <<decoded, drawn>>
             [] ~thumbnailCurrent.err /\ thumbnailCurrent.state = "Data" ->
                    \E ok \in BOOLEAN : ThumbnailDecodeChunk(ok) /\ To(AfterChunk(ok))
             [] OTHER -> UNCHANGED <<thumbnailCurrent, decoded, drawn>>
    /\ UNCHANGED <<headers, filenameCurrent, thumbnailData, fileDetailPopup, wire, past>>

\* The rest of the message is lost, its end included.
MessageIsCutOff ==
    /\ receiving # NoMessage /\ Receive(NoMessage)
    /\ faults < MaxFaults /\ faults' = faults + 1 /\ faulty' = TRUE
    /\ UNCHANGED <<headers, download, popup, wire, answered, alone, opens, others>>

-----------------------------------------------------------------------------
\* The main loop, when the line is quiet and the last request was answered.
RequestChunk ==
    /\ thumbnailCurrent.state = "DataRequest" /\ receiving = NoMessage /\ answered
    /\ \E a \in ChunkAnswers(filenameCurrent, thumbnailCurrent.next) : wire' = Append(wire, a)
    /\ thumbnailCurrent' = [thumbnailCurrent EXCEPT !.state = "DataWait"] /\ answered' = FALSE
    /\ UNCHANGED <<headers, filenameCurrent, thumbnailData, decoded, popup, receiving, past>>

ReceiveMessage ==
    \/ StartAnswer \/ StartOther \/ ReceiveFilename \/ ReceiveThumbnail \/ ReceiveData
    \/ ReceiveNext \/ EndReceivedMessage

ThumbNext ==
    \/ OpenFile \/ CloseFile \/ AnswerIsLost \/ MessageIsCutOff \/ ReceiveMessage \/ RequestChunk

\* The main loop goes on, and the printer answers.
ThumbFairness == WF_thumbVars(RequestChunk) /\ WF_thumbVars(ReceiveMessage)

ThumbSpec == ThumbInit /\ [][ThumbNext]_thumbVars /\ ThumbFairness

-----------------------------------------------------------------------------
(* Properties.                                                              *)

\* What is drawn in a file's popup is that file's picture from its beginning, chunk after
\* chunk of one thumbnail, each once, whatever else is received in between; provided the
\* user waits for one preview before opening the next file and no answer was cut off.
PictureIsOfFile ==
    alone /\ ~faulty /\ fileDetailPopup # "" =>
        \E s \in Sizes : \A i \in 1..Len(drawn) : drawn[i] = Chunk(fileDetailPopup, s, i)

\* Unless an answer is lost a download comes to an end, and the next file's preview has a
\* turn: closing the popup, an error or another file's header in the middle never leave
\* the panel waiting for a chunk that nobody sends.
DownloadEnds == thumbnailCurrent.state # "Init" ~> thumbnailCurrent.state = "Init" \/ faulty
=============================================================================
