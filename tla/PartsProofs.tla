----------------------------- MODULE PartsProofs -----------------------------
(***************************************************************************)
(* Invariants of the parts of the panel that stand alone: the preview of a  *)
(* print file (Thumbnail), the lists of beds, chambers and tools            *)
(* (ObjectModel), the setting of a temperature (Adjust) and the message log *)
(* (MessageLog), for any number of each; and what they need of induction,   *)
(* orders, sums and recursion, as lemmas.                                   *)
(***************************************************************************)
EXTENDS Parts, FiniteSetTheorems, SequenceTheorems, TLAPS

-----------------------------------------------------------------------------
(* The preview: as long as the user waits and no answer is cut off, there   *)
(* is one request or answer at a time, and it is about the file opened last.*)

tc == thumbnailCurrent

Closed == ""

\* No answer to a request is being received.
Quiet == receiving = T!NoMessage \/ receiving.kind = "other"

\* Chunks of one thumbnail, from its beginning.
Picture(f, s, n) == [i \in 1..n |-> T!Chunk(f, s, i)]

ChunkAnswer(f, s, n) ==
    [kind |-> "M36.1", file |-> f, data |-> T!Chunk(f, s, n), err |-> FALSE,
     next |-> IF n < Chunks THEN T!Chunk(f, s, n + 1) ELSE T!NoChunk]

NothingAsked == tc.state = "Init" /\ wire = <<>> /\ Quiet

HeadersAsked(f) ==
    /\ tc.state = "Init" /\ wire = <<[kind |-> "M36", file |-> f, headers |-> headers[f]]>> /\ Quiet
    /\ f \in Files /\ fileDetailPopup \in {Closed, f} /\ drawn = <<>>

HeadersReceived(f, sizes) ==
    /\ wire = <<>>
    /\ \E at \in {"begun", "named"} :
          /\ receiving = [kind |-> "M36", part |-> at,
                          of |-> [kind |-> "M36", file |-> f, headers |-> sizes]]
          /\ at = "named" => filenameCurrent = f
          /\ \/ tc.state = "Init"
             \/ /\ at = "named"
                /\ tc.state = "Header" /\ tc.size \in Sizes /\ tc.next = T!Chunk(f, tc.size, 1)
    /\ sizes \in Seq(Sizes) /\ fileDetailPopup \in {Closed, f} /\ decoded = <<>> /\ drawn = <<>>

\* n chunks have been drawn.
Fetching(f, s, n) ==
    /\ s \in Sizes /\ n \in Nat /\ tc.size = s /\ filenameCurrent = f
    /\ fileDetailPopup \in {Closed, f} /\ decoded = Picture(f, s, n) /\ drawn = decoded

ChunkWanted(f, s, n) ==
    /\ tc.state = "DataRequest" /\ tc.next = T!Chunk(f, s, n + 1) /\ wire = <<>> /\ Quiet

ChunkAsked(f, s, n) ==
    tc.state = "DataWait" /\ wire = <<ChunkAnswer(f, s, n + 1)>> /\ Quiet

ChunkReceived(f, s, n) ==
    /\ wire = <<>>
    /\ \E at \in {"begun", "named", "data", "next"} :
          /\ receiving = [kind |-> "M36.1", part |-> at, of |-> ChunkAnswer(f, s, n + 1)]
          /\ IF at \in {"begun", "named"} THEN tc.state = "DataWait"
             ELSE tc.state = "Data" /\ thumbnailData = T!Chunk(f, s, n + 1)
          /\ at = "next" => tc.next = receiving.of.next

\* Mostly nothing is asked for.
InTurn ==
    \/ NothingAsked
    \/ \E f \in Files : HeadersAsked(f)
    \/ \E f \in Files, sizes \in Seq(Sizes) : HeadersReceived(f, sizes)
    \/ \E f \in Files, s \in Sizes, n \in Nat :
          Fetching(f, s, n) /\ (ChunkWanted(f, s, n) \/ ChunkAsked(f, s, n) \/ ChunkReceived(f, s, n))

Drawn == \E s \in Sizes : \A i \in 1..Len(drawn) : drawn[i] = T!Chunk(fileDetailPopup, s, i)

Context == tc = [state |-> tc.state, size |-> tc.size, err |-> FALSE, next |-> tc.next]

PreviewInv ==
    /\ headers \in [Files -> Seq(Sizes)]
    /\ alone /\ ~faulty => Context /\ InTurn /\ (fileDetailPopup # Closed => Drawn)

Safe == Context /\ InTurn /\ (fileDetailPopup # Closed => Drawn)

LEMMA ChunksDiffer ==
    ASSUME NEW f, NEW s, NEW n \in Nat
    PROVE  T!Chunk(f, s, n + 1) # T!NoChunk
<1>1. T!NoChunk.nr = 0  BY Zenon DEF T!NoChunk
<1>2. T!Chunk(f, s, n + 1).nr = n + 1  BY DEF T!Chunk
<1> QED  BY <1>1, <1>2

LEMMA OneMore ==
    ASSUME NEW f, NEW s, NEW n \in Nat
    PROVE  /\ Append(Picture(f, s, n), T!Chunk(f, s, n + 1)) = Picture(f, s, n + 1)
           /\ Len(Picture(f, s, n)) = n
           /\ n > 0 => Picture(f, s, n)[n] = T!Chunk(f, s, n)
           /\ n = 0 <=> Picture(f, s, n) = <<>>
<1> DEFINE p == [i \in 1..n |-> T!Chunk(f, s, i)]
<1>1. p \in Seq({T!Chunk(f, s, i) : i \in 1..n}) /\ Len(p) = n  OBVIOUS
<1>2. \A i \in 1..n : p[i] = T!Chunk(f, s, i)  OBVIOUS
<1>3. PICK c : c = T!Chunk(f, s, n + 1)  OBVIOUS
<1>4. Append(p, c) = [i \in 1..(n + 1) |-> T!Chunk(f, s, i)]  
  <2>1. Append(p, c) = [i \in 1..(n + 1) |-> IF i = n + 1 THEN c ELSE p[i]]  BY <1>1
  <2> QED  BY <1>2, <1>3, <2>1
<1>5. n = 0 <=> p = <<>>  BY <1>1
<1> QED  BY <1>1, <1>2, <1>3, <1>4, <1>5 DEF Picture

LEMMA OpenSafe ==
    ASSUME PreviewInv, ~faulty, T!OpenFile, alone'  PROVE Safe'
<1>1. PICK f \in Files :
        /\ wire' = Append(wire, [kind |-> "M36", file |-> f, headers |-> headers[f]])
        /\ fileDetailPopup' = f
  BY Zenon DEF T!OpenFile
<1>2. /\ alone /\ wire = <<>> /\ receiving = T!NoMessage /\ thumbnailCurrent.state = "Init"
      /\ drawn' = <<>> /\ UNCHANGED <<headers, thumbnailCurrent, receiving, faulty>>
  BY Zenon DEF T!OpenFile, T!download
<1>3. Context'  BY <1>2 DEF PreviewInv, Context, tc
<1>4. wire' = <<[kind |-> "M36", file |-> f, headers |-> headers'[f]]>>
  BY <1>1, <1>2
<1>5. HeadersAsked(f)'  BY <1>1, <1>2, <1>4 DEF HeadersAsked, tc, Quiet
<1>6. InTurn'  BY <1>5 DEF InTurn
<1>7. Drawn'
  <2>1. \A i \in 1..Len(drawn') : FALSE  BY <1>2
  <2>2. PICK s : s \in Sizes  BY PreviewAssumption
  <2> QED  BY <2>1, <2>2 DEF Drawn
<1> QED  BY <1>3, <1>6, <1>7 DEF Safe

\* The popup is closed: what is asked for goes on.
LEMMA CloseSafe ==
    ASSUME Safe, T!CloseFile  PROVE Safe'
<1>1. /\ fileDetailPopup' = Closed
      /\ UNCHANGED <<headers, thumbnailCurrent, filenameCurrent, thumbnailData, decoded, drawn,
                     wire, receiving>>
  BY Zenon DEF T!CloseFile, T!download, Closed
<1>2. Context'  BY <1>1 DEF Safe, Context, tc
<1>3. InTurn'
  <2>1. CASE NothingAsked
    <3>1. NothingAsked'  BY <1>1, <2>1 DEF NothingAsked, tc, Quiet
    <3> QED  BY <3>1 DEF InTurn
  <2>2. ASSUME NEW f \in Files, HeadersAsked(f) PROVE HeadersAsked(f)'
    BY <1>1, <2>2 DEF HeadersAsked, tc, Quiet
  <2>3. ASSUME NEW f \in Files, NEW sizes \in Seq(Sizes), HeadersReceived(f, sizes)
        PROVE  HeadersReceived(f, sizes)'
    BY <1>1, <2>3 DEF HeadersReceived, tc
  <2>4. ASSUME NEW f \in Files, NEW s \in Sizes, NEW n \in Nat, Fetching(f, s, n),
               ChunkWanted(f, s, n) \/ ChunkAsked(f, s, n) \/ ChunkReceived(f, s, n)
        PROVE  /\ Fetching(f, s, n)'
               /\ (ChunkWanted(f, s, n) \/ ChunkAsked(f, s, n) \/ ChunkReceived(f, s, n))'
    BY <1>1, <2>4 DEF Fetching, ChunkWanted, ChunkAsked, ChunkReceived, tc, Quiet
  <2> QED  BY <2>1, <2>2, <2>3, <2>4 DEF Safe, InTurn
<1> QED  BY <1>1, <1>2, <1>3 DEF Safe

\* A message of the kind that is due, or about something else.
LEMMA StartSafe ==
    ASSUME Safe, headers \in [Files -> Seq(Sizes)], T!StartAnswer \/ T!StartOther  PROVE Safe'
<1>1. PICK m : /\ receiving' = [kind |-> m.kind, part |-> "begun", of |-> m]
               /\ receiving = T!NoMessage
               /\ \/ wire # <<>> /\ wire' = Tail(wire) /\ m = Head(wire)
                  \/ m.kind = "other" /\ wire' = wire
  <2>1. CASE T!StartAnswer
    <3>1. wire # <<>> /\ wire' = Tail(wire) /\ T!StartReceivedMessage(Head(wire))
      BY <2>1, Zenon DEF T!StartAnswer
    <3> QED  BY <3>1, Zenon DEF T!StartReceivedMessage, T!Receive
  <2>2. CASE T!StartOther
    <3>1. T!StartReceivedMessage([kind |-> "other"]) /\ wire' = wire
      BY <2>2, Zenon DEF T!StartOther
    <3>2. PICK m : m = [kind |-> "other"]  OBVIOUS
    <3>3. m.kind = "other"  BY <3>2
    <3>4. T!StartReceivedMessage(m)  BY <3>1, <3>2
    <3> QED  BY <3>1, <3>3, <3>4, Zenon DEF T!StartReceivedMessage, T!Receive
  <2> QED  BY <2>1, <2>2
<1>2. PICK m2 : T!StartReceivedMessage(m2)  BY Zenon DEF T!StartAnswer, T!StartOther
<1>3. /\ UNCHANGED <<headers, fileDetailPopup, drawn>>
      /\ IF tc.state = "Init"
         THEN thumbnailCurrent' = T!Context("Init", 0, T!NoChunk) /\ decoded' = <<>>
         ELSE UNCHANGED <<thumbnailCurrent, filenameCurrent, thumbnailData, decoded>>
  BY <1>2, Zenon DEF T!StartReceivedMessage, T!popup, tc
<1>4. Context'
  <2>1. CASE tc.state = "Init"
    BY <1>3, <2>1 DEF Context, tc, T!Context
  <2>2. CASE tc.state # "Init"
    BY <1>3, <2>2 DEF Safe, Context, tc
  <2> QED  BY <2>1, <2>2
<1>5. tc.state = "Init" => tc'.state = "Init"  BY <1>3 DEF tc, T!Context
<1>6. m.kind = "other" => Quiet'  BY <1>1 DEF Quiet
<1>7. InTurn'
  <2>1. CASE NothingAsked
    <3>1. wire' = wire /\ m.kind = "other"  BY <1>1, <2>1 DEF NothingAsked
    <3>2. NothingAsked'  BY <1>5, <1>6, <2>1, <3>1 DEF NothingAsked
    <3> QED  BY <3>2 DEF InTurn
  <2>2. ASSUME NEW f \in Files, HeadersAsked(f) PROVE InTurn'
    <3>1. CASE m.kind = "other" /\ wire' = wire
      <4>1. HeadersAsked(f)'  BY <1>3, <1>5, <1>6, <2>2, <3>1 DEF HeadersAsked
      <4> QED  BY <4>1 DEF InTurn
    <3>2. CASE wire' = Tail(wire) /\ m = Head(wire)
      <4>1. PICK sizes : sizes = headers[f]  OBVIOUS
      <4>2. /\ m = [kind |-> "M36", file |-> f, headers |-> sizes] /\ wire' = <<>>
            /\ sizes \in Seq(Sizes)
        BY <2>2, <3>2, <4>1 DEF HeadersAsked
      <4>3. receiving' = [kind |-> "M36", part |-> "begun",
                          of |-> [kind |-> "M36", file |-> f, headers |-> sizes]]
        BY <1>1, <4>2
      <4>4. decoded' = <<>> /\ drawn' = <<>> /\ fileDetailPopup' \in {Closed, f}
        BY <1>3, <2>2 DEF HeadersAsked
      <4>5. HeadersReceived(f, sizes)'
        BY <1>5, <2>2, <4>2, <4>3, <4>4 DEF HeadersReceived, HeadersAsked
      <4> QED  BY <4>2, <4>5 DEF InTurn
    <3> QED  BY <1>1, <3>1, <3>2
  <2>3. ASSUME NEW f \in Files, NEW sizes \in Seq(Sizes), HeadersReceived(f, sizes)
        PROVE  FALSE
    BY <1>1, <2>3 DEF HeadersReceived, T!NoMessage
  <2>4. ASSUME NEW f \in Files, NEW s \in Sizes, NEW n \in Nat, Fetching(f, s, n),
               ChunkWanted(f, s, n) \/ ChunkAsked(f, s, n) \/ ChunkReceived(f, s, n)
        PROVE  InTurn'
    <3>1. tc.state # "Init" /\ ~ChunkReceived(f, s, n)
      BY <1>1, <2>4 DEF ChunkWanted, ChunkAsked, ChunkReceived, T!NoMessage
    <3>2. Fetching(f, s, n)'  BY <1>3, <2>4, <3>1 DEF Fetching, tc
    <3>3. CASE m.kind = "other" /\ wire' = wire
      <4>1. (ChunkWanted(f, s, n) \/ ChunkAsked(f, s, n))'
        BY <1>3, <1>6, <2>4, <3>1, <3>3 DEF ChunkWanted, ChunkAsked, tc
      <4> QED  BY <3>2, <4>1 DEF InTurn
    <3>4. CASE wire # <<>> /\ wire' = Tail(wire) /\ m = Head(wire)
      <4>1. PICK c : c = ChunkAnswer(f, s, n + 1)  OBVIOUS
      <4>2. ChunkAsked(f, s, n)  BY <2>4, <3>1, <3>4 DEF ChunkWanted
      <4>3. m = c /\ wire' = <<>>  BY <3>4, <4>1, <4>2 DEF ChunkAsked
      <4>4. c.kind = "M36.1"  BY <4>1 DEF ChunkAnswer
      <4>5. receiving' = [kind |-> "M36.1", part |-> "begun", of |-> ChunkAnswer(f, s, n + 1)]
        BY <1>1, <4>1, <4>3, <4>4
      <4>6. ChunkReceived(f, s, n)'
        BY <1>3, <3>1, <4>2, <4>3, <4>5 DEF ChunkReceived, ChunkAsked, tc
      <4> QED  BY <3>2, <4>6 DEF InTurn
    <3> QED  BY <1>1, <3>3, <3>4
  <2> QED  BY <2>1, <2>2, <2>3, <2>4 DEF Safe, InTurn
<1>8. (fileDetailPopup # Closed => Drawn)'  BY <1>3 DEF Safe, Drawn
<1> QED  BY <1>4, <1>7, <1>8 DEF Safe

\* Where the answer to a request is being received.
LEMMA ReceivingAnswer ==
    ASSUME Safe, receiving.kind \in {"M36", "M36.1"}
    PROVE  \/ \E f \in Files, sizes \in Seq(Sizes) :
                 HeadersReceived(f, sizes) /\ receiving.kind = "M36"
           \/ \E f \in Files, s \in Sizes, n \in Nat :
                 Fetching(f, s, n) /\ ChunkReceived(f, s, n) /\ receiving.kind = "M36.1"
<1>1. ~Quiet
  <2>1. T!NoMessage.kind = "none"  BY DEF T!NoMessage
  <2> QED  BY <2>1 DEF Quiet
<1> QED
  BY <1>1 DEF Safe, InTurn, NothingAsked, HeadersAsked, HeadersReceived, ChunkWanted, ChunkAsked,
     ChunkReceived

LEMMA FilenameSafe ==
    ASSUME Safe, T!ReceiveFilename  PROVE Safe'
<1>1. /\ receiving.kind \in {"M36", "M36.1"} /\ receiving.part = "begun"
      /\ receiving' = [receiving EXCEPT !.part = "named"]
      /\ UNCHANGED <<headers, thumbnailData, decoded, fileDetailPopup, drawn, wire>>
      /\ IF receiving.kind = "M36"
         THEN filenameCurrent' = receiving.of.file /\ UNCHANGED thumbnailCurrent
         ELSE /\ thumbnailCurrent' =
                    [thumbnailCurrent EXCEPT !.err = @ \/ filenameCurrent # receiving.of.file]
              /\ UNCHANGED filenameCurrent
  BY Zenon DEF T!ReceiveFilename, T!Receive, T!popup
<1>2. ASSUME NEW f \in Files, NEW sizes \in Seq(Sizes), HeadersReceived(f, sizes),
             receiving.kind = "M36"
      PROVE  Safe'
  <2>1. HeadersReceived(f, sizes)'  BY <1>1, <1>2 DEF HeadersReceived, tc
  <2>2. Context'  BY <1>1, <1>2 DEF Safe, Context, tc
  <2>3. (fileDetailPopup # Closed => Drawn)'  BY <1>1 DEF Safe, Drawn
  <2> QED  BY <2>1, <2>2, <2>3 DEF Safe, InTurn
<1>3. ASSUME NEW f \in Files, NEW s \in Sizes, NEW n \in Nat,
             Fetching(f, s, n), ChunkReceived(f, s, n), receiving.kind = "M36.1"
      PROVE  Safe'
  <2>1. receiving = [kind |-> "M36.1", part |-> "begun", of |-> ChunkAnswer(f, s, n + 1)]
        /\ wire = <<>> /\ tc.state = "DataWait"
    BY <1>1, <1>3 DEF ChunkReceived
  <2>2. receiving.of.file = f  BY <2>1 DEF ChunkAnswer
  <2>3. UNCHANGED <<filenameCurrent, thumbnailCurrent>>
    <3>1. filenameCurrent = f /\ tc.err = FALSE  BY <1>3 DEF Safe, Fetching, Context
    <3>2. thumbnailCurrent' = [thumbnailCurrent EXCEPT !.err = FALSE] /\ UNCHANGED filenameCurrent
      <4>1. receiving.kind # "M36"  BY <1>3
      <4>2. thumbnailCurrent.err = FALSE /\ filenameCurrent = receiving.of.file
        BY <2>2, <3>1 DEF tc
      <4>3. PICK b : b = (thumbnailCurrent.err \/ filenameCurrent # receiving.of.file)  OBVIOUS
      <4>4. b = FALSE  BY <4>2, <4>3
      <4> QED  BY <1>1, <4>1, <4>3, <4>4
    <3> QED  BY <3>2 DEF Safe, Context, tc
  <2>4. receiving' = [kind |-> "M36.1", part |-> "named", of |-> ChunkAnswer(f, s, n + 1)]
    BY <1>1, <2>1
  <2>5. ChunkReceived(f, s, n)'  BY <1>1, <2>1, <2>3, <2>4 DEF ChunkReceived, tc
  <2>6. Fetching(f, s, n)'  BY <1>1, <1>3, <2>3 DEF Fetching, tc
  <2>7. Context'  BY <2>3 DEF Safe, Context, tc
  <2>8. (fileDetailPopup # Closed => Drawn)'  BY <1>1 DEF Safe, Drawn
  <2> QED  BY <2>5, <2>6, <2>7, <2>8 DEF Safe, InTurn
<1> QED  BY <1>1, <1>2, <1>3, ReceivingAnswer

LEMMA ThumbnailSafe ==
    ASSUME Safe, T!ReceiveThumbnail  PROVE Safe'
<1>1. /\ receiving.kind = "M36" /\ receiving.part = "named" /\ receiving.of.headers # <<>>
      /\ receiving' = [receiving EXCEPT !.of.headers = Tail(@)]
      /\ UNCHANGED <<headers, filenameCurrent, thumbnailData, fileDetailPopup, drawn, wire>>
      /\ LET s == Head(receiving.of.headers)
         IN  \/ /\ thumbnailCurrent' = T!Context("Header", s, T!Chunk(receiving.of.file, s, 1))
                /\ decoded' = <<>>
             \/ UNCHANGED <<thumbnailCurrent, decoded>>
  BY Zenon DEF T!ReceiveThumbnail, T!Receive, T!popup
<1>2. PICK f \in Files, sizes \in Seq(Sizes) : HeadersReceived(f, sizes)
  BY <1>1, ReceivingAnswer
<1>3. /\ receiving = [kind |-> "M36", part |-> "named",
                      of |-> [kind |-> "M36", file |-> f, headers |-> sizes]]
      /\ filenameCurrent = f /\ decoded = <<>>
      /\ tc.state = "Init" \/ (/\ tc.state = "Header" /\ tc.size \in Sizes
                               /\ tc.next = T!Chunk(f, tc.size, 1))
  BY <1>1, <1>2 DEF HeadersReceived
<1>4. receiving.of.headers = sizes /\ receiving.of.file = f  BY <1>3
<1>5. PICK rest : rest = Tail(sizes)  OBVIOUS
<1>6. sizes # <<>> /\ rest \in Seq(Sizes) /\ Head(sizes) \in Sizes  BY <1>1, <1>4, <1>5
<1>7. receiving' = [kind |-> "M36", part |-> "named",
                    of |-> [kind |-> "M36", file |-> f, headers |-> rest]]
  BY <1>1, <1>3, <1>5
<1>8. PICK s \in Sizes : \/ /\ thumbnailCurrent' = T!Context("Header", s, T!Chunk(f, s, 1))
                            /\ decoded' = <<>>
                         \/ UNCHANGED <<thumbnailCurrent, decoded>>
  BY <1>1, <1>4, <1>6
<1>9. /\ Context' /\ decoded' = <<>>
      /\ tc'.state = "Init" \/ (/\ tc'.state = "Header" /\ tc'.size \in Sizes
                                /\ tc'.next = T!Chunk(f, tc'.size, 1))
  BY <1>3, <1>8 DEF Safe, Context, tc, T!Context
<1>10. HeadersReceived(f, rest)'
  BY <1>1, <1>2, <1>3, <1>6, <1>7, <1>9 DEF HeadersReceived
<1>11. (fileDetailPopup # Closed => Drawn)'  BY <1>1 DEF Safe, Drawn
<1> QED  BY <1>6, <1>9, <1>10, <1>11 DEF Safe, InTurn

LEMMA DataSafe ==
    ASSUME Safe, T!ReceiveData \/ T!ReceiveNext  PROVE Safe'
<1>1. /\ receiving.kind = "M36.1" /\ receiving.part \in {"named", "data"}
      /\ UNCHANGED <<headers, filenameCurrent, decoded, fileDetailPopup, drawn, wire>>
  BY Zenon DEF T!ReceiveData, T!ReceiveNext, T!popup
<1>2. PICK f \in Files, s \in Sizes, n \in Nat : Fetching(f, s, n) /\ ChunkReceived(f, s, n)
  BY <1>1, ReceivingAnswer
<1>3. PICK c : c = ChunkAnswer(f, s, n + 1)  OBVIOUS
<1>4. /\ receiving = [kind |-> "M36.1", part |-> receiving.part, of |-> c]
      /\ receiving.part = "named" => tc.state = "DataWait"
      /\ receiving.part = "data" => tc.state = "Data" /\ thumbnailData = T!Chunk(f, s, n + 1)
      /\ wire = <<>>
  BY <1>1, <1>2, <1>3 DEF ChunkReceived
<1>5. c.err = FALSE /\ c.data = T!Chunk(f, s, n + 1)  BY <1>3 DEF ChunkAnswer
<1>6. PICK st, size, next :
        thumbnailCurrent = [state |-> st, size |-> size, err |-> FALSE, next |-> next]
  BY DEF Safe, Context, tc
<1>7. CASE T!ReceiveData
  <2>1. receiving.part = "named"  BY <1>7, Zenon DEF T!ReceiveData
  <2>2. /\ receiving' = [receiving EXCEPT !.part = "data"]
        /\ IF receiving.of.err
           THEN thumbnailCurrent' = [thumbnailCurrent EXCEPT !.err = TRUE] /\ UNCHANGED thumbnailData
           ELSE /\ thumbnailCurrent' = [thumbnailCurrent EXCEPT !.state = "Data"]
                /\ thumbnailData' = receiving.of.data
    BY <1>7, Zenon DEF T!ReceiveData, T!Receive
  <2>3. /\ receiving' = [kind |-> "M36.1", part |-> "data", of |-> c]
        /\ thumbnailCurrent' = [thumbnailCurrent EXCEPT !.state = "Data"]
        /\ thumbnailData' = T!Chunk(f, s, n + 1)
    BY <1>4, <1>5, <2>2
  <2>4. tc'.state = "Data" /\ tc'.size = tc.size /\ Context'
    BY <1>6, <2>3 DEF tc, Context
  <2>5. ChunkReceived(f, s, n)'  BY <1>1, <1>3, <1>4, <2>3, <2>4 DEF ChunkReceived
  <2>6. Fetching(f, s, n)'  BY <1>1, <1>2, <2>4 DEF Fetching
  <2>7. (fileDetailPopup # Closed => Drawn)'  BY <1>1 DEF Safe, Drawn
  <2> QED  BY <2>4, <2>5, <2>6, <2>7 DEF Safe, InTurn
<1>8. CASE T!ReceiveNext
  <2>1. receiving.part = "data"  BY <1>8, Zenon DEF T!ReceiveNext
  <2>2. /\ receiving' = [receiving EXCEPT !.part = "next"]
        /\ thumbnailCurrent' = [thumbnailCurrent EXCEPT !.next = receiving.of.next]
        /\ UNCHANGED thumbnailData
    BY <1>8, Zenon DEF T!ReceiveNext, T!Receive
  <2>3. /\ receiving' = [kind |-> "M36.1", part |-> "next", of |-> c]
        /\ thumbnailCurrent' = [thumbnailCurrent EXCEPT !.next = c.next]
        /\ receiving'.of.next = c.next
    BY <1>4, <2>2
  <2>4. tc'.state = tc.state /\ tc'.size = tc.size /\ tc'.next = c.next /\ Context'
    BY <1>6, <2>3 DEF tc, Context
  <2>5. ChunkReceived(f, s, n)'
    BY <1>1, <1>3, <1>4, <2>1, <2>2, <2>3, <2>4 DEF ChunkReceived
  <2>6. Fetching(f, s, n)'  BY <1>1, <1>2, <2>4 DEF Fetching
  <2>7. (fileDetailPopup # Closed => Drawn)'  BY <1>1 DEF Safe, Drawn
  <2> QED  BY <2>4, <2>5, <2>6, <2>7 DEF Safe, InTurn
<1> QED  BY <1>7, <1>8

\* The chunk received is drawn, unless the popup has been closed.
LEMMA ChunkDrawn ==
    ASSUME NEW f, NEW s, NEW n \in Nat, NEW ok \in BOOLEAN,
           T!ThumbnailDecodeChunk(ok), Fetching(f, s, n), thumbnailData = T!Chunk(f, s, n + 1)
    PROVE  /\ decoded' = Picture(f, s, n + 1)
           /\ ok => drawn' = decoded' /\ fileDetailPopup # Closed
           /\ ~ok => fileDetailPopup = Closed
<1>1. thumbnailData # T!NoChunk  BY ChunksDiffer
<1>2. decoded = Picture(f, s, n) /\ drawn = decoded /\ tc.size = s  BY DEF Fetching
<1>3. T!Follows(thumbnailData)
  <2>1. CASE n = 0
    <3>1. decoded = <<>>  BY <1>2, <2>1, OneMore
    <3>2. thumbnailData.size = s /\ thumbnailData.nr = 1  BY <2>1 DEF T!Chunk
    <3> QED  BY <1>2, <3>1, <3>2 DEF T!Follows, tc
  <2>2. CASE n > 0
    <3>1. decoded # <<>> /\ decoded[Len(decoded)] = T!Chunk(f, s, n)
      BY <1>2, <2>2, OneMore
    <3>2. T!Chunk(f, s, n + 1) = [T!Chunk(f, s, n) EXCEPT !.nr = @ + 1]  BY DEF T!Chunk
    <3>3. thumbnailData = [decoded[Len(decoded)] EXCEPT !.nr = @ + 1]  BY <3>1, <3>2
    <3> QED  BY <3>1, <3>3, Zenon DEF T!Follows
  <2> QED  BY <2>1, <2>2
<1>4. /\ ok => fileDetailPopup # Closed
      /\ ~ok => thumbnailData = T!NoChunk \/ ~T!Follows(thumbnailData) \/ fileDetailPopup = Closed
      /\ decoded' = IF thumbnailData = T!NoChunk THEN decoded ELSE Append(decoded, thumbnailData)
      /\ drawn' = IF ok THEN Append(drawn, thumbnailData) ELSE drawn
  BY Zenon DEF T!ThumbnailDecodeChunk, Closed
<1>5. decoded' = Append(decoded, thumbnailData)  BY <1>1, <1>4
<1>6. decoded' = Picture(f, s, n + 1)  BY <1>2, <1>5, OneMore
<1>7. ok => drawn' = decoded'  BY <1>2, <1>4, <1>5
<1> QED  BY <1>1, <1>3, <1>4, <1>6, <1>7

LEMMA EndSafe ==
    ASSUME Safe, T!EndReceivedMessage  PROVE Safe'
<1>1. /\ T!Whole /\ receiving' = T!NoMessage
      /\ UNCHANGED <<headers, filenameCurrent, thumbnailData, fileDetailPopup, wire>>
  BY Zenon DEF T!EndReceivedMessage, T!Receive
<1>2. Quiet'  BY <1>1 DEF Quiet
<1>3. PICK st, size, next :
        thumbnailCurrent = [state |-> st, size |-> size, err |-> FALSE, next |-> next]
  BY DEF Safe, Context, tc
<1>4. tc.state = st /\ tc.size = size /\ tc.err = FALSE /\ tc.next = next  BY <1>3 DEF tc
<1> DEFINE To(to) == thumbnailCurrent' = [thumbnailCurrent EXCEPT !.state = to]
<1>5. /\ st = "Header" => To("DataRequest") /\ UNCHANGED <<decoded, drawn>>
      /\ st = "Data" => \E ok \in BOOLEAN : T!ThumbnailDecodeChunk(ok) /\ To(T!AfterChunk(ok))
      /\ st \notin {"Header", "Data"} => UNCHANGED <<thumbnailCurrent, decoded, drawn>>
  <2>1. thumbnailCurrent.err = FALSE /\ thumbnailCurrent.state = st  BY <1>3
  <2>2. CASE st = "Header"
    <3>1. st # "Data"  BY <2>2
    <3>2. To("DataRequest") /\ UNCHANGED <<decoded, drawn>>
      BY <2>1, <2>2, Zenon DEF T!EndReceivedMessage
    <3> QED  BY <2>2, <3>1, <3>2
  <2>3. CASE st = "Data"
    <3>1. st # "Header"  BY <2>3
    <3>2. \E ok \in BOOLEAN : T!ThumbnailDecodeChunk(ok) /\ To(T!AfterChunk(ok))
      BY <2>1, <2>3, <3>1, Zenon DEF T!EndReceivedMessage
    <3> QED  BY <2>3, <3>1, <3>2
  <2>4. CASE st \notin {"Header", "Data"}
    <3>1. UNCHANGED <<thumbnailCurrent, decoded, drawn>>
      BY <2>1, <2>4, Zenon DEF T!EndReceivedMessage
    <3> QED  BY <2>4, <3>1
  <2> QED  BY <2>2, <2>3, <2>4
<1>6. \A to : To(to) => /\ Context' /\ tc'.state = to /\ tc'.size = size /\ tc'.next = next
  BY <1>3 DEF Context, tc
<1>7. ASSUME UNCHANGED drawn PROVE (fileDetailPopup # Closed => Drawn)'
  BY <1>1, <1>7 DEF Safe, Drawn
<1> HIDE DEF To
<1>8. CASE receiving.kind = "M36"
  <2>1. PICK f \in Files, sizes \in Seq(Sizes) : HeadersReceived(f, sizes)
    BY <1>8, ReceivingAnswer
  <2>2. receiving.part = "named"  BY <1>1, <1>8, Zenon DEF T!Whole
  <2>3. /\ filenameCurrent = f /\ fileDetailPopup \in {Closed, f} /\ wire = <<>>
        /\ decoded = <<>> /\ drawn = <<>>
        /\ st = "Init" \/ (st = "Header" /\ size \in Sizes /\ next = T!Chunk(f, size, 1))
    BY <1>4, <2>1, <2>2 DEF HeadersReceived
  <2>4. CASE st = "Init"
    <3>1. UNCHANGED <<thumbnailCurrent, decoded, drawn>>  BY <1>5, <2>4
    <3>2. NothingAsked'  BY <1>1, <1>2, <1>4, <2>3, <2>4, <3>1 DEF NothingAsked, tc
    <3>3. Context'  BY <3>1 DEF Safe, Context, tc
    <3> QED  BY <1>7, <3>1, <3>2, <3>3 DEF Safe, InTurn
  <2>5. CASE st = "Header" /\ size \in Sizes /\ next = T!Chunk(f, size, 1)
    <3>1. To("DataRequest") /\ UNCHANGED <<decoded, drawn>>  BY <1>5, <2>5
    <3>2. 0 \in Nat /\ 0 + 1 = 1 /\ Picture(f, size, 0) = <<>>  BY OneMore
    <3>3. Fetching(f, size, 0)'
      BY <1>1, <1>6, <2>3, <2>5, <3>1, <3>2 DEF Fetching
    <3>4. ChunkWanted(f, size, 0)'
      BY <1>1, <1>2, <1>6, <2>3, <2>5, <3>1, <3>2 DEF ChunkWanted
    <3>5. InTurn'  BY <2>5, <3>2, <3>3, <3>4 DEF InTurn
    <3> QED  BY <1>6, <1>7, <3>1, <3>5 DEF Safe
  <2> QED  BY <2>3, <2>4, <2>5
<1>9. CASE receiving.kind = "M36.1"
  <2>1. PICK f \in Files, s \in Sizes, n \in Nat : Fetching(f, s, n) /\ ChunkReceived(f, s, n)
    BY <1>9, ReceivingAnswer
  <2>2. receiving.part = "next"  BY <1>1, <1>9, Zenon DEF T!Whole
  <2>3. PICK c : c = ChunkAnswer(f, s, n + 1)  OBVIOUS
  <2>4. /\ wire = <<>> /\ st = "Data" /\ thumbnailData = T!Chunk(f, s, n + 1)
        /\ next = c.next /\ size = s /\ fileDetailPopup \in {Closed, f} /\ filenameCurrent = f
    BY <1>4, <2>1, <2>2, <2>3 DEF ChunkReceived, Fetching
  <2>5. next = T!Chunk(f, s, n + 2) \/ next = T!NoChunk
    <3>1. (n + 1) + 1 = n + 2  OBVIOUS
    <3> QED  BY <2>3, <2>4, <3>1 DEF ChunkAnswer
  <2>6. PICK ok \in BOOLEAN : T!ThumbnailDecodeChunk(ok) /\ To(T!AfterChunk(ok))
    BY <1>5, <2>4
  <2>7. /\ decoded' = Picture(f, s, n + 1)
        /\ ok => drawn' = decoded' /\ fileDetailPopup # Closed
        /\ ~ok => fileDetailPopup = Closed
    BY <2>1, <2>4, <2>6, ChunkDrawn
  <2>8. (fileDetailPopup # Closed => Drawn)'
    <3> SUFFICES ASSUME fileDetailPopup' # Closed PROVE Drawn'  OBVIOUS
    <3>1. fileDetailPopup' = f /\ drawn' = Picture(f, s, n + 1)  BY <1>1, <2>4, <2>7
    <3>2. n + 1 \in Nat /\ Len(drawn') = n + 1  BY <3>1, OneMore
    <3>3. \A i \in 1..(n + 1) : drawn'[i] = T!Chunk(f, s, i)  BY <3>1 DEF Picture
    <3> QED  BY <3>1, <3>2, <3>3 DEF Drawn
  <2>9. CASE ~ok \/ next = T!NoChunk
    <3>1. T!AfterChunk(ok) = "Init"  BY <1>3, <2>9 DEF T!AfterChunk
    <3>2. NothingAsked'  BY <1>1, <1>2, <1>6, <2>4, <2>6, <3>1 DEF NothingAsked
    <3> QED  BY <1>6, <2>6, <2>8, <3>2 DEF Safe, InTurn
  <2>10. CASE ok /\ next = T!Chunk(f, s, n + 2) /\ next # T!NoChunk
    <3>1. T!AfterChunk(ok) = "DataRequest"  BY <1>3, <2>10 DEF T!AfterChunk
    <3>2. n + 1 \in Nat /\ (n + 1) + 1 = n + 2  OBVIOUS
    <3>3. Fetching(f, s, n + 1)'
      BY <1>1, <1>6, <2>4, <2>6, <2>7, <2>10, <3>2 DEF Fetching
    <3>4. ChunkWanted(f, s, n + 1)'
      BY <1>1, <1>2, <1>6, <2>4, <2>6, <2>10, <3>1, <3>2 DEF ChunkWanted
    <3>5. InTurn'  BY <3>2, <3>3, <3>4 DEF InTurn
    <3> QED  BY <1>6, <2>6, <2>8, <3>5 DEF Safe
  <2> QED  BY <2>5, <2>9, <2>10
<1>10. CASE receiving.kind = "other"
  <2>1. receiving.kind \notin {"M36", "M36.1"}  BY <1>10
  <2>2. st \notin {"Header", "Data"} /\ Quiet
    BY <1>4, <2>1 DEF Safe, InTurn, NothingAsked, HeadersAsked, HeadersReceived, ChunkWanted,
       ChunkAsked, ChunkReceived
  <2>3. UNCHANGED <<thumbnailCurrent, decoded, drawn>>  BY <1>5, <2>2
  <2>4. Context'  BY <2>3 DEF Safe, Context, tc
  <2>5. InTurn'
    <3>1. CASE NothingAsked
      <4>1. NothingAsked'  BY <1>1, <1>2, <2>3, <3>1 DEF NothingAsked, tc
      <4> QED  BY <4>1 DEF InTurn
    <3>2. ASSUME NEW f \in Files, HeadersAsked(f) PROVE HeadersAsked(f)'
      BY <1>1, <1>2, <2>3, <3>2 DEF HeadersAsked, tc
    <3>3. ASSUME NEW f \in Files, NEW sizes \in Seq(Sizes), HeadersReceived(f, sizes)
          PROVE  FALSE
      BY <2>1, <3>3 DEF HeadersReceived
    <3>4. ASSUME NEW f \in Files, NEW s \in Sizes, NEW n \in Nat, Fetching(f, s, n),
                 ChunkWanted(f, s, n) \/ ChunkAsked(f, s, n) \/ ChunkReceived(f, s, n)
          PROVE  Fetching(f, s, n)' /\ (ChunkWanted(f, s, n) \/ ChunkAsked(f, s, n))'
      BY <1>1, <1>2, <2>1, <2>3, <3>4
      DEF Fetching, ChunkWanted, ChunkAsked, ChunkReceived, tc
    <3> QED  BY <3>1, <3>2, <3>3, <3>4 DEF Safe, InTurn
  <2> QED  BY <1>7, <2>3, <2>4, <2>5 DEF Safe
<1> QED  BY <1>1, <1>8, <1>9, <1>10 DEF T!Whole

LEMMA RequestSafe ==
    ASSUME Safe, T!RequestChunk  PROVE Safe'
<1>1. /\ tc.state = "DataRequest" /\ receiving = T!NoMessage
      /\ \E a \in T!ChunkAnswers(filenameCurrent, tc.next) : wire' = Append(wire, a)
      /\ thumbnailCurrent' = [thumbnailCurrent EXCEPT !.state = "DataWait"]
      /\ UNCHANGED <<headers, filenameCurrent, thumbnailData, decoded, fileDetailPopup, drawn,
                     receiving>>
  BY Zenon DEF T!RequestChunk, T!popup, tc
<1>2. PICK f \in Files, s \in Sizes, n \in Nat : Fetching(f, s, n) /\ ChunkWanted(f, s, n)
  BY <1>1 DEF Safe, InTurn, NothingAsked, HeadersAsked, HeadersReceived, ChunkWanted,
     ChunkAsked, ChunkReceived
<1>3. filenameCurrent = f /\ tc.next = T!Chunk(f, s, n + 1) /\ wire = <<>>
  BY <1>2 DEF Fetching, ChunkWanted
<1>4. PICK a \in T!ChunkAnswers(f, T!Chunk(f, s, n + 1)) : wire' = <<a>>
  BY <1>1, <1>3
<1>5. a = ChunkAnswer(f, s, n + 1)
  BY <1>4 DEF T!ChunkAnswers, T!Chunk, ChunkAnswer
<1>6. PICK st, size, next :
        thumbnailCurrent = [state |-> st, size |-> size, err |-> FALSE, next |-> next]
  BY DEF Safe, Context, tc
<1>7. Context' /\ tc'.state = "DataWait" /\ tc'.size = tc.size  BY <1>1, <1>6 DEF Context, tc
<1>8. ChunkAsked(f, s, n)'  BY <1>1, <1>4, <1>5, <1>7 DEF ChunkAsked, Quiet
<1>9. Fetching(f, s, n)'  BY <1>1, <1>2, <1>7 DEF Fetching
<1>10. (fileDetailPopup # Closed => Drawn)'  BY <1>1 DEF Safe, Drawn
<1> QED  BY <1>7, <1>8, <1>9, <1>10 DEF Safe, InTurn

LEMMA PreviewInit == PartsInit => PreviewInv
<1> SUFFICES ASSUME PartsInit PROVE PreviewInv  OBVIOUS
<1>1. T!ThumbInit  BY DEF PartsInit
<1>2. /\ headers \in [Files -> T!Headers] /\ thumbnailCurrent = T!Context("Init", 0, T!NoChunk)
      /\ fileDetailPopup = Closed /\ wire = <<>> /\ receiving = T!NoMessage
  BY <1>1, Zenon DEF T!ThumbInit, Closed
<1>3. \A h \in T!Headers : h \in Seq(Sizes)
  <2>1. <<>> \in Seq(Sizes)  OBVIOUS
  <2>2. \A s \in Sizes : <<s>> \in Seq(Sizes)  OBVIOUS
  <2>3. \A s, t \in Sizes : <<s, t>> \in Seq(Sizes)  OBVIOUS
  <2>4. ASSUME NEW h \in T!Headers
        PROVE  h = <<>> \/ (\E s \in Sizes : h = <<s>>) \/ \E s, t \in Sizes : h = <<s, t>>
    BY <2>4 DEF T!Headers
  <2> QED  BY <2>1, <2>2, <2>3, <2>4, Zenon
<1>4. headers \in [Files -> Seq(Sizes)]  BY <1>2, <1>3
<1>5. Context /\ tc.state = "Init"  BY <1>2 DEF Context, tc, T!Context
<1>6. NothingAsked  BY <1>2, <1>5 DEF NothingAsked, Quiet
<1> QED  BY <1>2, <1>4, <1>5, <1>6 DEF PreviewInv, InTurn

LEMMA PreviewNext == PreviewInv /\ [PartsNext]_partsVars => PreviewInv'
<1> SUFFICES ASSUME PreviewInv, [PartsNext]_partsVars PROVE PreviewInv'  OBVIOUS
<1>1. CASE T!ThumbNext
  <2>1. UNCHANGED headers /\ (alone' => alone) /\ (faulty => faulty')
    <3>1. CASE T!OpenFile  BY <3>1, Zenon DEF T!OpenFile
    <3>2. CASE T!CloseFile  BY <3>2, Zenon DEF T!CloseFile, T!past
    <3>3. CASE T!AnswerIsLost \/ T!MessageIsCutOff
      BY <3>3 DEF T!AnswerIsLost, T!MessageIsCutOff
    <3>4. CASE T!StartAnswer \/ T!StartOther
      <4>1. PICK m : T!StartReceivedMessage(m)  BY <3>4, Zenon DEF T!StartAnswer, T!StartOther
      <4> QED  BY <4>1, Zenon DEF T!StartReceivedMessage
    <3>5. CASE T!ReceiveFilename  BY <3>5, Zenon DEF T!ReceiveFilename, T!past
    <3>6. CASE T!ReceiveThumbnail  BY <3>6, Zenon DEF T!ReceiveThumbnail, T!past
    <3>7. CASE T!ReceiveData \/ T!ReceiveNext
      BY <3>7 DEF T!ReceiveData, T!ReceiveNext, T!past
    <3>8. CASE T!EndReceivedMessage  BY <3>8, Zenon DEF T!EndReceivedMessage, T!past
    <3>9. CASE T!RequestChunk  BY <3>9, Zenon DEF T!RequestChunk, T!past
    <3> QED
      BY <1>1, <3>1, <3>2, <3>3, <3>4, <3>5, <3>6, <3>7, <3>8, <3>9, Zenon
      DEF T!ThumbNext, T!ReceiveMessage
  <2>2. ASSUME alone', ~faulty' PROVE Safe'
    <3>1. Safe /\ ~faulty  BY <2>1, <2>2 DEF PreviewInv, Safe
    <3>2. ~T!AnswerIsLost /\ ~T!MessageIsCutOff
      BY <2>2, Zenon DEF T!AnswerIsLost, T!MessageIsCutOff
    <3>3. headers \in [Files -> Seq(Sizes)]  BY DEF PreviewInv
    <3> QED
      BY <1>1, <2>2, <3>1, <3>2, <3>3, OpenSafe, CloseSafe, StartSafe, FilenameSafe, ThumbnailSafe,
         DataSafe, EndSafe, RequestSafe, Zenon DEF T!ThumbNext, T!ReceiveMessage
  <2> QED  BY <2>1, <2>2 DEF PreviewInv, Safe
<1>2. CASE UNCHANGED thumbVars
  BY <1>2 DEF PreviewInv, thumbVars, Context, InTurn, NothingAsked, HeadersAsked, HeadersReceived,
     Fetching, ChunkWanted, ChunkAsked, ChunkReceived, Drawn, Quiet, tc
<1> QED
  BY <1>1, <1>2, Zenon DEF PartsNext, Previews, Objects, Setup, Log, Fields, partsVars

\* What is drawn in a file's popup is that file's picture from its beginning
\* (src/PanelDue.cpp:1393, the thumbnail's states): no chunk of another file, of another
\* thumbnail or out of turn, however many files, thumbnails and chunks there are and
\* whatever else is received in between.
THEOREM PictureIsAlwaysOfFile == PartsSpec => []PictureIsOfFile
<1>1. PreviewInv => PictureIsOfFile
  BY Zenon DEF PreviewInv, PictureIsOfFile, T!PictureIsOfFile, Drawn, Closed
<1> QED  BY <1>1, PreviewInit, PreviewNext, PTL DEF PartsSpec

-----------------------------------------------------------------------------
(* Induction, stated of sets: the library's theorems about predicates have  *)
(* an operator for a parameter.                                             *)

LEMMA LeastNumber ==
    ASSUME NEW S \in SUBSET Nat, S # {}
    PROVE  \E n \in S : \A m \in S : n <= m
<1> DEFINE D == {0..(n - 1) : n \in S}
<1>1. D \subseteq FiniteSubsetsOf(Nat) /\ D # {}
  <2>1. ASSUME NEW n \in S PROVE 0..(n - 1) \in FiniteSubsetsOf(Nat)
    <3>1. IsFiniteSet(0..(n - 1))
      <4>1. 0 \in Int /\ n - 1 \in Int  OBVIOUS
      <4> QED  BY <4>1, FS_Interval
    <3>2. 0..(n - 1) \in SUBSET Nat  OBVIOUS
    <3> QED  BY <3>1, <3>2 DEF FiniteSubsetsOf
  <2> QED  BY <2>1
<1>2. PICK x \in D : \A y \in D : <<y, x>> \notin StrictSubsetOrdering(Nat)
  <2>1. IsWellFoundedOn(StrictSubsetOrdering(Nat), FiniteSubsetsOf(Nat))
    BY FS_StrictSubsetOrderingWellFounded
  <2> HIDE DEF D
  <2> QED  BY <1>1, <2>1, WFMin
<1>3. PICK n \in S : x = 0..(n - 1)  OBVIOUS
<1>4. ASSUME NEW m \in S, m < n PROVE FALSE
  <2>1. 0..(m - 1) \in D /\ 0..(m - 1) \in SUBSET Nat /\ x \in SUBSET Nat  BY <1>3
  <2>2. 0..(m - 1) \subseteq x /\ 0..(m - 1) # x
    <3>1. m \in 0..(n - 1) /\ m \notin 0..(m - 1)  BY <1>4
    <3> QED  BY <1>3, <1>4, <3>1
  <2>3. <<0..(m - 1), x>> \in StrictSubsetOrdering(Nat)
    BY <2>1, <2>2 DEF StrictSubsetOrdering
  <2> QED  BY <1>2, <2>1, <2>3
<1> QED  BY <1>4

LEMMA Induction ==
    ASSUME NEW S \in SUBSET Nat, 0 \in S, \A n \in S : n + 1 \in S
    PROVE  S = Nat
<1> SUFFICES ASSUME S # Nat PROVE FALSE  OBVIOUS
<1>1. PICK n \in Nat \ S : \A m \in Nat \ S : n <= m  BY LeastNumber
<1>2. n - 1 \in S
  <2>1. n - 1 \in Nat  BY <1>1
  <2> QED  BY <1>1, <2>1
<1>3. (n - 1) + 1 = n  OBVIOUS
<1> QED  BY <1>2, <1>3

LEMMA LargestNumber ==
    ASSUME NEW n \in Nat, NEW S \in SUBSET (1..n), S # {}
    PROVE  \E m \in S : \A k \in S : m >= k
<1> DEFINE D == {n - k : k \in S}
<1>1. D \in SUBSET Nat
  <2>1. ASSUME NEW k \in 1..n PROVE n - k \in Nat  OBVIOUS
  <2> QED  BY <2>1
<1>2. D # {}  OBVIOUS
<1>3. PICK d \in D : \A e \in D : d <= e
  <2> HIDE DEF D
  <2> QED  BY <1>1, <1>2, LeastNumber
<1>4. PICK m \in S : d = n - m  OBVIOUS
<1>5. ASSUME NEW k \in S PROVE m >= k
  <2>1. n - m <= n - k  BY <1>3, <1>4
  <2>2. m \in 1..n /\ k \in 1..n  OBVIOUS
  <2> QED  BY <2>1, <2>2
<1> QED  BY <1>5

-----------------------------------------------------------------------------
(* The lists of beds, chambers and tools.                                   *)

AddOne(kind, together, t, i) ==
    IF t.slot >= MaxSlots THEN t
    ELSE [known |-> [t.known EXCEPT ![kind][i].slot = t.slot],
          slot |-> O!ColumnsAfter(t.slot, t.known[kind][i], together)]

LEMMA LargestOf ==
    ASSUME NEW n \in Nat, NEW S \in SUBSET (1..n), S # {}
    PROVE  O!Max(S) \in S /\ \A k \in S : O!Max(S) >= k
BY LargestNumber DEF O!Max

\* AddOthers takes the elements one after the other.
LEMMA OneByOne ==
    ASSUME NEW kind, NEW list, NEW together, NEW s, NEW n \in Nat, DOMAIN list = 1..n
    PROVE  \E g : /\ g[1..0] = s /\ O!AddOthers(kind, list, together, s) = g[1..n]
                  /\ \A m \in 1..n : g[1..m] = AddOne(kind, together, g[1..(m - 1)], list[m])
<1> DEFINE Of(g, u) == IF u = {} THEN s
                       ELSE AddOne(kind, together, g[u \ {O!Max(u)}], list[O!Max(u)])
           Folds(g, m) == g = [u \in SUBSET (1..m) |-> Of(g, u)]
           Upto == {m \in Nat : \E g : Folds(g, m)}
<1>1. 0 \in Upto
  <2> DEFINE h == [u \in SUBSET (1..0) |-> s]
  <2>1. \A u \in SUBSET (1..0) : u = {}  OBVIOUS
  <2>2. Folds(h, 0)  BY <2>1
  <2> QED  BY <2>2
<1>2. ASSUME NEW m \in Upto PROVE m + 1 \in Upto
  <2>1. PICK g : Folds(g, m)  BY <1>2
  <2> DEFINE h == [u \in SUBSET (1..(m + 1)) |-> Of(g, u)]
  <2>2. ASSUME NEW u \in SUBSET (1..(m + 1)) PROVE Of(g, u) = Of(h, u)
    <3>1. CASE u = {}  BY <3>1
    <3>2. CASE u # {}
      <4>1. O!Max(u) \in u /\ \A k \in u : O!Max(u) >= k
        <5>1. m + 1 \in Nat  OBVIOUS
        <5> QED  BY <3>2, <5>1, LargestOf
      <4>2. u \ {O!Max(u)} \in SUBSET (1..m)
        <5>1. ASSUME NEW k \in u, k # O!Max(u) PROVE k \in 1..m
          <6>1. k \in 1..(m + 1) /\ O!Max(u) \in 1..(m + 1)  BY <4>1
          <6> QED  BY <4>1, <5>1, <6>1
        <5> QED  BY <5>1
      <4>3. g[u \ {O!Max(u)}] = h[u \ {O!Max(u)}]
        <5> DEFINE v == u \ {O!Max(u)}
        <5>1. v \in SUBSET (1..m) /\ v \in SUBSET (1..(m + 1))  BY <4>2
        <5>2. g[v] = Of(g, v)
          <6> HIDE DEF v, Of
          <6> QED  BY <2>1, <5>1
        <5>3. h[v] = Of(g, v)
          <6> HIDE DEF v, Of
          <6> QED  BY <5>1
        <5> QED  BY <5>2, <5>3
      <4> HIDE DEF h
      <4> QED  BY <3>2, <4>3
    <3> QED  BY <3>1, <3>2
  <2>3. Folds(h, m + 1)
    <3> HIDE DEF Of
    <3>1. h = [u \in SUBSET (1..(m + 1)) |-> Of(h, u)]  BY <2>2
    <3> QED  BY <3>1
  <2>4. m + 1 \in Nat  OBVIOUS
  <2> HIDE DEF h, Folds
  <2> QED  BY <2>3, <2>4
<1>3. n \in Upto
  <2> HIDE DEF Upto
  <2>1. Upto \in SUBSET Nat  BY DEF Upto
  <2> QED  BY <1>1, <1>2, <2>1, Induction
<1>4. PICK g : Folds(g, n) /\ O!AddOthers(kind, list, together, s) = g[1..n]
  <2> DEFINE it == CHOOSE g : Folds(g, n)
  <2>1. Folds(it, n)
    <3> HIDE DEF Folds
    <3> QED  BY <1>3
  <2>2. O!AddOthers(kind, list, together, s) = it[1..n]
    BY DEF O!AddOthers, O!FoldLeft, O!MapThenFoldSet, AddOne
  <2> QED  BY <2>1, <2>2
<1>5. ASSUME NEW u \in SUBSET (1..n) PROVE g[u] = Of(g, u)
  <2> HIDE DEF Of
  <2> QED  BY <1>4
<1>6. g[1..0] = s
  <2>1. 1..0 = {} /\ 1..0 \in SUBSET (1..n)  OBVIOUS
  <2> QED  BY <1>5, <2>1
<1>7. ASSUME NEW m \in 1..n PROVE g[1..m] = AddOne(kind, together, g[1..(m - 1)], list[m])
  <2>1. 1..m \in SUBSET (1..n) /\ m \in 1..m  OBVIOUS
  <2>2. O!Max(1..m) = m
    <3>1. m \in Nat /\ 1..m # {}  BY <2>1
    <3>2. O!Max(1..m) \in 1..m /\ O!Max(1..m) >= m  BY <2>1, <3>1, LargestOf
    <3> QED  BY <3>2
  <2>3. (1..m) \ {m} = 1..(m - 1)  OBVIOUS
  <2>4. g[1..m] = Of(g, 1..m)  BY <1>5, <2>1
  <2> QED  BY <2>1, <2>2, <2>3, <2>4
<1> QED  BY <1>4, <1>6, <1>7

Ascending(order) == \A i, j \in DOMAIN order : i < j => order[i] < order[j]

LEMMA OrderExists ==
    ASSUME NEW S \in SUBSET Nat, IsFiniteSet(S)
    PROVE  \E order \in [1..Cardinality(S) -> S] : Ascending(order)
<1> DEFINE Ordered(R) == \E order \in [1..Cardinality(R) -> R] : Ascending(order)
           N == {n \in Nat : \A R \in SUBSET Nat :
                    IsFiniteSet(R) /\ Cardinality(R) = n => Ordered(R)}
<1>1. 0 \in N
  <2> SUFFICES ASSUME NEW R \in SUBSET Nat, IsFiniteSet(R), Cardinality(R) = 0
               PROVE  Ordered(R)
    OBVIOUS
  <2>1. [i \in 1..0 |-> 0] \in [1..0 -> R] /\ Ascending([i \in 1..0 |-> 0])  BY DEF Ascending
  <2> QED  BY <2>1
<1>2. ASSUME NEW n \in N PROVE n + 1 \in N
  <2> SUFFICES ASSUME NEW R \in SUBSET Nat, IsFiniteSet(R), Cardinality(R) = n + 1
               PROVE  Ordered(R)
    OBVIOUS
  <2>1. R # {}  BY FS_EmptySet
  <2>2. PICK m \in R : \A k \in R : m <= k  BY <2>1, LeastNumber
  <2>3. IsFiniteSet(R \ {m}) /\ Cardinality(R \ {m}) = n  BY FS_RemoveElement
  <2>4. PICK order \in [1..n -> R \ {m}] : Ascending(order)
    <3>1. R \ {m} \in SUBSET Nat  OBVIOUS
    <3> QED  BY <1>2, <2>3, <3>1
  <2> DEFINE longer == [i \in 1..(n + 1) |-> IF i = 1 THEN m ELSE order[i - 1]]
  <2>5. longer \in [1..(n + 1) -> R]
    <3>1. ASSUME NEW i \in 1..(n + 1), i # 1 PROVE i - 1 \in 1..n  BY <3>1
    <3> QED  BY <3>1
  <2>6. Ascending(longer)
    <3> SUFFICES ASSUME NEW i \in 1..(n + 1), NEW j \in 1..(n + 1), i < j
                 PROVE  longer[i] < longer[j]
      BY DEF Ascending
    <3>1. j # 1 /\ j - 1 \in 1..n  OBVIOUS
    <3>2. longer[j] = order[j - 1] /\ order[j - 1] \in R \ {m}  BY <3>1
    <3>3. CASE i = 1
      <4>1. longer[i] = m /\ m \in Nat /\ order[j - 1] \in Nat  BY <3>2, <3>3
      <4> QED  BY <2>2, <3>2, <4>1
    <3>4. CASE i # 1
      <4>1. i - 1 \in 1..n /\ i - 1 < j - 1  BY <3>4
      <4>2. order[i - 1] < order[j - 1]  BY <2>4, <3>1, <4>1 DEF Ascending
      <4> QED  BY <3>2, <3>4, <4>2
    <3> QED  BY <3>3, <3>4
  <2> HIDE DEF longer
  <2> QED  BY <2>5, <2>6
<1>3. N = Nat
  <2> HIDE DEF N
  <2>1. N \in SUBSET Nat  BY DEF N
  <2> QED  BY <1>1, <1>2, <2>1, Induction
<1>4. Cardinality(S) \in Nat  BY FS_CardinalityType
<1> QED  BY <1>3, <1>4

\* Order tells every index once, by ascending index.
LEMMA OrderIsOf ==
    ASSUME NEW S \in SUBSET Nat, IsFiniteSet(S)
    PROVE  /\ Cardinality(S) \in Nat
           /\ O!Order(S) \in [1..Cardinality(S) -> S]
           /\ Ascending(O!Order(S))
           /\ \A x \in S : \E i \in 1..Cardinality(S) : x = O!Order(S)[i]
<1> DEFINE n == Cardinality(S)
           o == O!Order(S)
<1>1. n \in Nat  BY FS_CardinalityType
<1>2. o \in [1..n -> S] /\ Ascending(o)
  <2>1. \E order \in [1..n -> S] : \A i, j \in DOMAIN order : i < j => order[i] < order[j]
    BY OrderExists, Zenon DEF Ascending
  <2>2. o = CHOOSE order \in [1..n -> S] : \A i, j \in DOMAIN order : i < j => order[i] < order[j]
    <3>1. O!Cardinality(S) = Cardinality(S)  BY DEF O!Cardinality, Cardinality
    <3> QED  BY <3>1 DEF O!Order
  <2> HIDE DEF o, n
  <2> QED  BY <2>1, <2>2 DEF Ascending
<1>3. o \in Injection(1..n, S)
  <2>1. ASSUME NEW i \in 1..n, NEW j \in 1..n, o[i] = o[j] PROVE i = j
    <3>1. o[i] \in S /\ o[j] \in S  BY <1>2
    <3>2. o[i] \in Nat  BY <3>1
    <3> HIDE DEF o
    <3>3. ~(o[i] < o[j]) /\ ~(o[j] < o[i])  BY <2>1, <3>2
    <3> QED  BY <1>2, <3>3 DEF Ascending
  <2> QED  BY <1>2, <2>1 DEF Injection, IsInjective
<1>4. Cardinality(1..n) = n
  <2>1. 1 \in Int /\ n \in Int  BY <1>1
  <2>2. Cardinality(1..n) = IF 1 > n THEN 0 ELSE n - 1 + 1  BY <2>1, FS_Interval
  <2> QED  BY <1>1, <2>2
<1>5. o \in Surjection(1..n, S)  BY <1>3, <1>4, FS_Injection
<1> QED  BY <1>1, <1>2, <1>5 DEF Surjection

LEMMA IndicesAreFinite ==
    ASSUME NEW k \in O!Kinds, NEW S \in SUBSET O!Indices[k]
    PROVE  S \in SUBSET Nat /\ IsFiniteSet(S)
<1>1. k = "bed" \/ k = "chamber" \/ k = "tool"  BY DEF O!Kinds
<1>2. O!Indices[k] \in {Beds, Chambers, Tools}  BY <1>1 DEF O!Indices
<1>3. O!Indices[k] \subseteq Nat /\ IsFiniteSet(O!Indices[k])  BY <1>2, IndexAssumption
<1> QED  BY <1>3, FS_Subset

LEMMA OrderIsSeq ==
    ASSUME NEW S \in SUBSET Nat, IsFiniteSet(S)
    PROVE  O!Order(S) \in Seq(S) /\ Ascending(O!Order(S)) /\ S \subseteq Range(O!Order(S))
BY OrderIsOf DEF Range

IsList(k, list) ==
    DOMAIN list \subseteq O!Indices[k] /\ \A i \in DOMAIN list : "heaters" \in DOMAIN list[i]

IsLists(m) == DOMAIN m = O!Kinds /\ \A k \in O!Kinds : IsList(k, m[k])

\* What two lists know is the same but for the columns.
Agree(list, list2) ==
    /\ DOMAIN list2 = DOMAIN list
    /\ \A i \in DOMAIN list : list2[i].heaters = list[i].heaters

Shows(m, m2) == IsLists(m2) /\ \A k \in O!Kinds : Agree(m[k], m2[k])

LEMMA SlotIsShown ==
    ASSUME NEW m, NEW m2, Shows(m, m2), NEW kind \in O!Kinds, NEW i, NEW slot
    PROVE  Shows(m, [m2 EXCEPT ![kind][i].slot = slot])
<1> DEFINE m3 == [m2 EXCEPT ![kind][i].slot = slot]
<1>1. DOMAIN m3 = O!Kinds /\ \A k \in O!Kinds : DOMAIN m3[k] = DOMAIN m2[k]
  BY DEF Shows, IsLists, IsList
<1>2. ASSUME NEW k \in O!Kinds, NEW j \in DOMAIN m2[k]
      PROVE  DOMAIN m3[k][j] = DOMAIN m2[k][j] /\ m3[k][j].heaters = m2[k][j].heaters
  BY DEF Shows, IsLists, IsList
<1> HIDE DEF m3
<1> QED  BY <1>1, <1>2 DEF Shows, IsLists, IsList, Agree

LEMMA AddFirstShows ==
    ASSUME NEW m, NEW s, Shows(m, s.known), NEW kind \in O!Kinds
    PROVE  Shows(m, O!AddFirst(kind, s).known)
BY SlotIsShown DEF O!AddFirst

LEMMA AddOthersShows ==
    ASSUME NEW m, NEW s, Shows(m, s.known), NEW kind \in O!Kinds,
           NEW list, NEW n \in Nat, DOMAIN list = 1..n, NEW together
    PROVE  Shows(m, O!AddOthers(kind, list, together, s).known)
<1>1. PICK g : /\ g[1..0] = s /\ O!AddOthers(kind, list, together, s) = g[1..n]
               /\ \A j \in 1..n : g[1..j] = AddOne(kind, together, g[1..(j - 1)], list[j])
  BY OneByOne
<1> DEFINE N == {j \in Nat : j <= n => Shows(m, g[1..j].known)}
<1>2. 0 \in N  BY <1>1
<1>3. ASSUME NEW j \in N PROVE j + 1 \in N
  <2> SUFFICES ASSUME j + 1 <= n PROVE Shows(m, g[1..(j + 1)].known)
    OBVIOUS
  <2>1. Shows(m, g[1..j].known)  OBVIOUS
  <2>2. g[1..(j + 1)] = AddOne(kind, together, g[1..j], list[j + 1])
    <3>1. j + 1 \in 1..n /\ (j + 1) - 1 = j  OBVIOUS
    <3> QED  BY <1>1, <3>1
  <2> DEFINE t == g[1..j]
  <2>3. CASE t.slot >= MaxSlots  BY <2>1, <2>2, <2>3 DEF AddOne
  <2>4. CASE ~(t.slot >= MaxSlots)
    <3>1. Shows(m, [t.known EXCEPT ![kind][list[j + 1]].slot = t.slot])  BY <2>1, SlotIsShown
    <3>2. g[1..(j + 1)].known = [t.known EXCEPT ![kind][list[j + 1]].slot = t.slot]
      <4>1. g[1..(j + 1)] = AddOne(kind, together, t, list[j + 1])  BY <2>2
      <4> HIDE DEF t
      <4> QED  BY <4>1, <2>4 DEF AddOne
    <3> QED  BY <3>1, <3>2
  <2> QED  BY <2>3, <2>4
<1>4. N = Nat
  <2> HIDE DEF N
  <2>1. N \in SUBSET Nat  BY DEF N
  <2> QED  BY <1>2, <1>3, <2>1, Induction
<1> QED  BY <1>1, <1>4

LEMMA NotFirstIsSeq ==
    ASSUME NEW S, NEW s \in Seq(S)
    PROVE  O!NotFirst(s) \in Seq(S)
<1>1. CASE s = <<>>  BY <1>1 DEF O!NotFirst
<1>2. CASE s # <<>>
  <2>1. Tail(s) \in Seq(S)  BY <1>2
  <2> QED  BY <1>2, <2>1 DEF O!NotFirst
<1> QED  BY <1>1, <1>2

\* Placing everything in columns changes nothing that is known.
LEMMA AllToolsSeenShows ==
    ASSUME NEW m, IsLists(m), NEW together, O!AllToolsSeen(m, together)
    PROVE  Shows(m, known')
<1> DEFINE start == [known |-> m, slot |-> 0]
           bed == O!AddFirst("bed", start)
           tools == O!AddOthers("tool", O!Order(DOMAIN m.tool), together, bed)
           chamber == O!AddFirst("chamber", tools)
           beds == O!AddOthers("bed", O!NotFirst(O!Order(DOMAIN m.bed)), together, chamber)
           all == O!AddOthers("chamber", O!NotFirst(O!Order(DOMAIN m.chamber)), together, beds)
<1>1. "bed" \in O!Kinds /\ "chamber" \in O!Kinds /\ "tool" \in O!Kinds  BY DEF O!Kinds
<1>2. ASSUME NEW k \in O!Kinds
      PROVE  \E n \in Nat : DOMAIN O!Order(DOMAIN m[k]) = 1..n
  <2>1. DOMAIN m[k] \in SUBSET O!Indices[k]  BY DEF IsLists, IsList
  <2>2. DOMAIN m[k] \in SUBSET Nat /\ IsFiniteSet(DOMAIN m[k])  BY <2>1, IndicesAreFinite
  <2> QED  BY <2>2, OrderIsOf
<1>3. ASSUME NEW k \in O!Kinds
      PROVE  \E n \in Nat : DOMAIN O!NotFirst(O!Order(DOMAIN m[k])) = 1..n
  <2>1. DOMAIN m[k] \in SUBSET O!Indices[k]  BY DEF IsLists, IsList
  <2>2. DOMAIN m[k] \in SUBSET Nat /\ IsFiniteSet(DOMAIN m[k])  BY <2>1, IndicesAreFinite
  <2>3. O!Order(DOMAIN m[k]) \in Seq(DOMAIN m[k])  BY <2>2, OrderIsSeq
  <2>4. O!NotFirst(O!Order(DOMAIN m[k])) \in Seq(DOMAIN m[k])  BY <2>3, NotFirstIsSeq
  <2> QED  BY <2>4
<1>4. Shows(m, start.known)  BY DEF Shows, IsLists, IsList, Agree
<1>5. known' = all.known  BY DEF O!AllToolsSeen
<1> HIDE DEF start
<1>6. Shows(m, bed.known)  BY <1>1, <1>4, AddFirstShows
<1> HIDE DEF bed
<1>7. Shows(m, tools.known)  BY <1>1, <1>2, <1>6, AddOthersShows
<1> HIDE DEF tools
<1>8. Shows(m, chamber.known)  BY <1>1, <1>7, AddFirstShows
<1> HIDE DEF chamber
<1>9. Shows(m, beds.known)  BY <1>1, <1>3, <1>8, AddOthersShows
<1> HIDE DEF beds
<1>10. Shows(m, all.known)  BY <1>1, <1>3, <1>9, AddOthersShows
<1> QED  BY <1>5, <1>10

-----------------------------------------------------------------------------
(* An answer being received: up to the index it told last the panel knows   *)
(* what it tells, unless a list was full.                                   *)

\* What is known at or below n is what is told.
AgreeUpTo(n, list, of) ==
    \A i \in Nat : i <= n => /\ i \in DOMAIN list <=> i \in DOMAIN of
                             /\ i \in DOMAIN list => list[i].heaters = of[i]

\* The indices still to be told, and those told already.
IsLeft(left, n, of) ==
    /\ left \in Seq(DOMAIN of) /\ Ascending(left)
    /\ \A i \in DOMAIN left : n < left[i]
    /\ \A x \in DOMAIN of : x <= n \/ \E i \in DOMAIN left : x = left[i]

IsTold(k) == told[k] # O!NotTold => O!Heaters(known[k]) = told[k]

Listing(k, left, of, whole, at, full) ==
    /\ k \in O!Kinds /\ full \in BOOLEAN /\ of = whole[k]
    /\ of \in O!Configurations(k) /\ IsLeft(left, last[k], of)
    /\ ~full => AgreeUpTo(last[k], known[k], of)
    /\ \/ at = "element"
       \/ /\ at = "number" /\ k = "tool" /\ left # <<>>
          /\ ~full => /\ Head(left) \in DOMAIN known.tool
                      /\ known.tool[Head(left)].heaters = of[Head(left)]
    /\ k = "bed" => whole.chamber \in O!Configurations("chamber") /\ last.chamber = -1
    /\ k = "tool" /\ DOMAIN of = {} => IsTold(k)
    /\ \A k2 \in O!Kinds \ {k} : IsTold(k2)

ListsInv ==
    /\ IsLists(known) /\ DOMAIN told = O!Kinds /\ last \in [O!Kinds -> Nat \cup {-1}]
    /\ \/ answer = O!NoAnswer /\ \A k \in O!Kinds : IsTold(k)
       \/ /\ answer = [kind |-> answer.kind, left |-> answer.left, of |-> answer.of,
                       part |-> answer.part, full |-> answer.full]
          /\ Listing(answer.kind, answer.left, answer.of[answer.kind], answer.of, answer.part,
                     answer.full)

LEMMA ConfigurationIs ==
    ASSUME NEW k \in O!Kinds, NEW of \in O!Configurations(k)
    PROVE  /\ DOMAIN of \subseteq O!Indices[k] /\ DOMAIN of \in SUBSET Nat
           /\ IsFiniteSet(DOMAIN of) /\ of = [i \in DOMAIN of |-> of[i]]
           /\ \A i \in DOMAIN of : of[i] \in O!Counts(k)
<1>1. PICK S \in SUBSET O!Indices[k] : of \in [S -> O!Counts(k)]  BY DEF O!Configurations
<1> QED  BY <1>1, IndicesAreFinite

LEMMA LeftAtStart ==
    ASSUME NEW k \in O!Kinds, NEW of \in O!Configurations(k)
    PROVE  IsLeft(O!Order(DOMAIN of), -1, of)
<1> DEFINE D == DOMAIN of
           o == O!Order(D)
<1>1. D \in SUBSET Nat /\ IsFiniteSet(D)  BY ConfigurationIs
<1>2. /\ Cardinality(D) \in Nat /\ o \in [1..Cardinality(D) -> D] /\ Ascending(o)
      /\ \A x \in D : \E i \in 1..Cardinality(D) : x = o[i]
  BY <1>1, OrderIsOf
<1>3. o \in Seq(D)  BY <1>1, OrderIsSeq
<1> HIDE DEF o
<1>4. ASSUME NEW i \in DOMAIN o PROVE -1 < o[i]
  <2>1. o[i] \in D  BY <1>2
  <2>2. o[i] \in Nat  BY <1>1, <2>1
  <2> QED  BY <2>2
<1>5. ASSUME NEW x \in D PROVE \E i \in DOMAIN o : x = o[i]  BY <1>2
<1>6. IsLeft(o, -1, of)  BY <1>2, <1>3, <1>4, <1>5 DEF IsLeft
<1> QED  BY <1>6 DEF o

LEMMA LeftNext ==
    ASSUME NEW of, NEW n \in Nat \cup {-1}, NEW left, IsLeft(left, n, of), left # <<>>,
           DOMAIN of \in SUBSET Nat
    PROVE  /\ Head(left) \in DOMAIN of /\ Head(left) \in Nat /\ n < Head(left)
           /\ IsLeft(Tail(left), Head(left), of)
           /\ \A x \in DOMAIN of : x <= n \/ Head(left) <= x
<1> DEFINE D == DOMAIN of
<1>1. /\ left \in Seq(D) /\ Ascending(left) /\ \A i \in DOMAIN left : n < left[i]
      /\ \A x \in D : x <= n \/ \E i \in DOMAIN left : x = left[i]
  BY DEF IsLeft
<1> HIDE DEF D
<1>2. Len(left) \in Nat \ {0} /\ DOMAIN left = 1..Len(left) /\ Head(left) = left[1]
  BY <1>1
<1>3. 1 \in DOMAIN left  BY <1>2
<1>4. Head(left) \in D /\ Head(left) \in Nat /\ n < Head(left)
  BY <1>1, <1>2, <1>3 DEF D
<1>5. ASSUME NEW i \in DOMAIN left PROVE left[i] \in Nat /\ (i = 1 \/ left[1] < left[i])
  <2>1. left[i] \in D  BY <1>1
  <2>2. left[i] \in Nat  BY <2>1 DEF D
  <2> QED  BY <1>1, <1>2, <1>3, <2>2 DEF Ascending
<1>6. \A x \in D : x <= n \/ Head(left) <= x
  <2> SUFFICES ASSUME NEW x \in D PROVE x <= n \/ Head(left) <= x
    OBVIOUS
  <2>1. CASE x <= n  BY <2>1
  <2>2. CASE \E i \in DOMAIN left : x = left[i]
    <3>1. PICK i \in DOMAIN left : x = left[i]  BY <2>2
    <3> QED  BY <1>2, <1>4, <1>5, <3>1
  <2> QED  BY <1>1, <2>1, <2>2
<1>7. /\ Tail(left) \in Seq(D) /\ DOMAIN Tail(left) = 1..(Len(left) - 1)
      /\ \A i \in 1..(Len(left) - 1) : Tail(left)[i] = left[i + 1] /\ i + 1 \in DOMAIN left
  BY <1>1, <1>2
<1>8. Ascending(Tail(left))
  <2> SUFFICES ASSUME NEW i \in 1..(Len(left) - 1), NEW j \in 1..(Len(left) - 1), i < j
               PROVE  left[i + 1] < left[j + 1]
    BY <1>7 DEF Ascending
  <2>1. i + 1 < j + 1  OBVIOUS
  <2> QED  BY <1>1, <1>7, <2>1 DEF Ascending
<1>9. \A i \in DOMAIN Tail(left) : Head(left) < Tail(left)[i]
  <2> SUFFICES ASSUME NEW i \in 1..(Len(left) - 1) PROVE left[1] < left[i + 1]
    BY <1>2, <1>7
  <2>1. i + 1 \in DOMAIN left /\ i + 1 # 1  BY <1>2, <1>7
  <2> QED  BY <1>5, <2>1
<1>10. ASSUME NEW x \in D PROVE x <= Head(left) \/ \E i \in DOMAIN Tail(left) : x = Tail(left)[i]
  <2>1. CASE x <= n
    <3>1. x \in Nat  BY DEF D
    <3> QED  BY <1>4, <2>1, <3>1
  <2>2. CASE \E i \in DOMAIN left : x = left[i]
    <3>1. PICK i \in DOMAIN left : x = left[i]  BY <2>2
    <3>2. CASE i = 1  BY <1>2, <1>4, <3>1, <3>2
    <3>3. CASE i # 1
      <4>1. i - 1 \in 1..(Len(left) - 1) /\ (i - 1) + 1 = i  BY <1>2, <3>3
      <4> QED  BY <1>7, <3>1, <4>1
    <3> QED  BY <3>2, <3>3
  <2> QED  BY <1>1, <2>1, <2>2
<1> QED  BY <1>4, <1>6, <1>7, <1>8, <1>9, <1>10 DEF IsLeft, D

LEMMA GetOrCreateIsList ==
    ASSUME NEW k \in O!Kinds, NEW list, IsList(k, list), NEW i \in O!Indices[k]
    PROVE  /\ IsList(k, O!GetOrCreate(list, i))
           /\ DOMAIN list \subseteq DOMAIN O!GetOrCreate(list, i)
           /\ DOMAIN O!GetOrCreate(list, i) \subseteq DOMAIN list \cup {i}
           /\ \A j \in DOMAIN list : O!GetOrCreate(list, i)[j] = list[j]
           /\ i \in DOMAIN list => O!GetOrCreate(list, i) = list
<1>1. CASE O!GetOrCreate(list, i) = list  BY <1>1
<1>2. CASE O!GetOrCreate(list, i) # list
  <2>1. /\ i \notin DOMAIN list
        /\ O!GetOrCreate(list, i) =
              [j \in DOMAIN list \cup {i} |->
                  IF j = i THEN [heaters |-> 0, slot |-> MaxSlots] ELSE list[j]]
    BY <1>2 DEF O!GetOrCreate
  <2> QED  BY <2>1 DEF IsList
<1> QED  BY <1>1, <1>2

LEMMA WithoutIsList ==
    ASSUME NEW k \in O!Kinds, NEW list, IsList(k, list), NEW S
    PROVE  /\ IsList(k, O!Without(list, S))
           /\ DOMAIN O!Without(list, S) = DOMAIN list \ S
           /\ \A j \in DOMAIN list \ S : O!Without(list, S)[j] = list[j]
BY DEF IsList, O!Without

LEMMA HeatersAreSet ==
    ASSUME NEW k \in O!Kinds, NEW list, IsList(k, list), NEW i \in DOMAIN list, NEW n
    PROVE  /\ IsList(k, [list EXCEPT ![i].heaters = n])
           /\ DOMAIN [list EXCEPT ![i].heaters = n] = DOMAIN list
           /\ [list EXCEPT ![i].heaters = n][i].heaters = n
           /\ \A j \in DOMAIN list \ {i} : [list EXCEPT ![i].heaters = n][j] = list[j]
BY DEF IsList

\* What agrees with what is known of a kind agrees with what is told of it.
LEMMA HeatersAgree ==
    ASSUME NEW list, NEW list2, Agree(list, list2)
    PROVE  O!Heaters(list2) = O!Heaters(list)
BY DEF Agree, O!Heaters

LEMMA SeenShows ==
    ASSUME NEW m, IsLists(m), O!SeenIfInitialized(m)
    PROVE  Shows(m, known')
<1>1. CASE initialized  BY <1>1, AllToolsSeenShows DEF O!SeenIfInitialized
<1>2. CASE ~initialized  BY <1>2 DEF O!SeenIfInitialized, Shows, Agree
<1> QED  BY <1>1, <1>2

LEMMA ListsInit == PartsInit => ListsInv
<1> SUFFICES ASSUME PartsInit PROVE ListsInv
  OBVIOUS
<1>1. /\ known = [k \in O!Kinds |-> O!Nothing] /\ last = [k \in O!Kinds |-> -1]
      /\ answer = O!NoAnswer /\ told = [k \in O!Kinds |-> O!NotTold]
  BY DEF PartsInit, O!OMInit
<1> QED  BY <1>1 DEF ListsInv, IsLists, IsList, IsTold, O!Nothing

LEMMA KindsAre == "bed" \in O!Kinds /\ "chamber" \in O!Kinds /\ "tool" \in O!Kinds
BY DEF O!Kinds

\* What is told of the other kinds stays known while one is told.
LEMMA ToldStays ==
    ASSUME NEW k \in O!Kinds, IsTold(k), Agree(known[k], known'[k]), told'[k] = told[k]
    PROVE  IsTold(k)'
BY HeatersAgree DEF IsTold

LEMMA KeySafe ==
    ASSUME ListsInv, O!HeatKey \/ O!ToolsKey
    PROVE  ListsInv'
<1> DEFINE Begins(first, kinds, c) ==
              /\ answer = O!NoAnswer /\ \A k \in kinds : c[k] \in O!Configurations(k)
              /\ answer' = [kind |-> first, left |-> O!Order(DOMAIN c[first]), of |-> c,
                            part |-> "element", full |-> FALSE]
              /\ last' = [k \in O!Kinds |-> IF k \in kinds THEN -1 ELSE last[k]]
              /\ UNCHANGED <<known, told>>
<1>1. \/ \E c : Begins("bed", {"bed", "chamber"}, c)
      \/ \E c : Begins("tool", {"tool"}, c)
  BY DEF O!HeatKey, O!ToolsKey, O!Key
<1>2. ASSUME NEW first \in O!Kinds, NEW kinds \in SUBSET O!Kinds, NEW c, Begins(first, kinds, c),
             first \in kinds, first = "bed" => "chamber" \in kinds
      PROVE  ListsInv'
  <2>1. \A k \in O!Kinds : IsTold(k)
    BY <1>2 DEF ListsInv, O!NoAnswer
  <2>2. \A k \in O!Kinds : IsTold(k)'  BY <1>2, <2>1 DEF IsTold
  <2>3. IsLeft(answer'.left, last'[first], c[first])
    BY <1>2, LeftAtStart
  <2>4. AgreeUpTo(last'[first], known'[first], c[first])  BY <1>2 DEF AgreeUpTo
  <2>5. Listing(first, answer.left, c[first], c, "element", FALSE)'
    <3>1. c[first] \in O!Configurations(first)  BY <1>2
    <3>2. first = "bed" => c.chamber \in O!Configurations("chamber") /\ last'.chamber = -1
      BY <1>2, KindsAre
    <3> QED  BY <2>2, <2>3, <2>4, <3>1, <3>2 DEF Listing
  <2>6. last' \in [O!Kinds -> Nat \cup {-1}]  BY <1>2 DEF ListsInv
  <2>7. answer' = [kind |-> answer'.kind, left |-> answer'.left, of |-> answer'.of,
                   part |-> answer'.part, full |-> answer'.full]
    BY <1>2
  <2>8. IsLists(known') /\ DOMAIN told' = O!Kinds  BY <1>2 DEF ListsInv
  <2>9. /\ answer'.kind = first /\ answer'.of = c /\ answer'.part = "element"
        /\ answer'.full = FALSE
    BY <1>2
  <2> QED  BY <2>5, <2>6, <2>7, <2>8, <2>9 DEF ListsInv
<1> HIDE DEF Begins
<1>3. {"bed", "chamber"} \in SUBSET O!Kinds /\ {"tool"} \in SUBSET O!Kinds  BY KindsAre
<1> QED  BY <1>1, <1>2, <1>3, KindsAre

\* What an answer's being received means for the kind told.
LEMMA Receiving ==
    ASSUME ListsInv, answer # O!NoAnswer
    PROVE  LET k == answer.kind
               of == answer.of[k]
           IN  /\ answer = [kind |-> k, left |-> answer.left, of |-> answer.of,
                            part |-> answer.part, full |-> answer.full]
               /\ k \in O!Kinds /\ Listing(k, answer.left, of, answer.of, answer.part, answer.full)
               /\ last[k] \in Nat \cup {-1} /\ IsList(k, known[k]) /\ DOMAIN known[k] \subseteq Nat
               /\ DOMAIN of \in SUBSET Nat /\ DOMAIN of \subseteq O!Indices[k]
               /\ \A i \in DOMAIN of : of[i] \in O!Counts(k)
<1> DEFINE k == answer.kind
           of == answer.of[k]
<1>1. /\ answer = [kind |-> k, left |-> answer.left, of |-> answer.of,
                   part |-> answer.part, full |-> answer.full]
      /\ Listing(k, answer.left, of, answer.of, answer.part, answer.full)
  BY Zenon DEF ListsInv
<1>2. k \in O!Kinds /\ of \in O!Configurations(k)  BY <1>1, Zenon DEF Listing
<1>3. last[k] \in Nat \cup {-1} /\ IsList(k, known[k])  BY <1>2 DEF ListsInv, IsLists
<1>4. DOMAIN known[k] \in SUBSET O!Indices[k]  BY <1>3 DEF IsList
<1> HIDE DEF k, of
<1>5. DOMAIN known[k] \in SUBSET Nat  BY <1>2, <1>4, IndicesAreFinite
<1>6. /\ DOMAIN of \in SUBSET Nat /\ DOMAIN of \subseteq O!Indices[k]
      /\ \A i \in DOMAIN of : of[i] \in O!Counts(k)
  BY <1>2, ConfigurationIs
<1> QED  BY <1>1, <1>2, <1>3, <1>5, <1>6 DEF k, of

LEMMA HeaterSafe ==
    ASSUME ListsInv, O!ReceiveHeater
    PROVE  ListsInv'
<1> DEFINE k == answer.kind
           of == answer.of[k]
           left == answer.left
           i == Head(left)
           list == O!GetOrCreate(known[k], i)
           set == IF i \in DOMAIN list THEN [list EXCEPT ![i].heaters = 1] ELSE list
           gone == (last[k] + 1)..(i - 1)
           new == O!Without(set, gone)
<1>1. /\ answer # O!NoAnswer /\ answer.part = "element" /\ left # <<>> /\ k # "tool"
      /\ known' = [known EXCEPT ![k] = new] /\ last' = [last EXCEPT ![k] = i]
      /\ answer' = [answer EXCEPT !.left = Tail(left),
                                  !.full = answer.full \/ i \notin DOMAIN list]
      /\ told' = told
  BY DEF O!ReceiveHeater, O!Coming, O!RemoveGap, O!Refused
<1>2. /\ answer = [kind |-> k, left |-> left, of |-> answer.of, part |-> answer.part,
                   full |-> answer.full]
      /\ k \in O!Kinds /\ Listing(k, left, of, answer.of, answer.part, answer.full)
      /\ last[k] \in Nat \cup {-1} /\ IsList(k, known[k]) /\ DOMAIN known[k] \subseteq Nat
      /\ DOMAIN of \in SUBSET Nat /\ DOMAIN of \subseteq O!Indices[k]
      /\ \A j \in DOMAIN of : of[j] \in O!Counts(k)
  BY <1>1, Receiving
<1>3. /\ IsLeft(left, last[k], of) /\ answer.full \in BOOLEAN
      /\ ~answer.full => AgreeUpTo(last[k], known[k], of)
  BY <1>2 DEF Listing
<1>4. /\ i \in DOMAIN of /\ i \in Nat /\ last[k] < i /\ IsLeft(Tail(left), i, of)
      /\ \A x \in DOMAIN of : x <= last[k] \/ i <= x
  BY <1>1, <1>2, <1>3, LeftNext
<1> HIDE DEF k, of, i, left
<1>5. /\ IsList(k, list) /\ DOMAIN known[k] \subseteq DOMAIN list
      /\ DOMAIN list \subseteq DOMAIN known[k] \cup {i}
      /\ \A j \in DOMAIN known[k] : list[j] = known[k][j]
  BY <1>2, <1>4, GetOrCreateIsList
<1> HIDE DEF list
<1>6. /\ IsList(k, set) /\ DOMAIN set = DOMAIN list
      /\ \A j \in DOMAIN list \ {i} : set[j] = list[j]
      /\ i \in DOMAIN list => set[i].heaters = 1
  BY <1>2, <1>5, HeatersAreSet
<1> HIDE DEF set, gone
<1>7. /\ IsList(k, new) /\ DOMAIN new = DOMAIN set \ gone
      /\ \A j \in DOMAIN set \ gone : new[j] = set[j]
  <2>1. k \in O!Kinds /\ IsList(k, set)  BY <1>2, <1>6
  <2> QED  BY <2>1, WithoutIsList, Zenon
<1>8. ASSUME ~answer.full, i \in DOMAIN list PROVE AgreeUpTo(i, new, of)
  <2> SUFFICES ASSUME NEW j \in Nat, j <= i
               PROVE  /\ j \in DOMAIN new <=> j \in DOMAIN of
                      /\ j \in DOMAIN new => new[j].heaters = of[j]
    BY DEF AgreeUpTo
  <2>1. CASE j = i
    <3>1. of[i] = 1  BY <1>1, <1>2, <1>4 DEF O!Counts
    <3>2. i \notin gone  BY <1>4 DEF gone
    <3> QED  BY <1>4, <1>6, <1>7, <1>8, <2>1, <3>1, <3>2
  <2>2. CASE j # i /\ j <= last[k]
    <3>1. j \notin gone  BY <1>2, <2>2 DEF gone
    <3>2. /\ j \in DOMAIN known[k] <=> j \in DOMAIN of
          /\ j \in DOMAIN known[k] => known[k][j].heaters = of[j]
      BY <1>3, <1>8, <2>2 DEF AgreeUpTo
    <3> HIDE DEF new
    <3> QED  BY <1>5, <1>6, <1>7, <2>2, <3>1, <3>2
  <2>3. CASE j # i /\ ~(j <= last[k])
    <3>1. j \in gone  BY <1>2, <1>4, <2>3 DEF gone
    <3>2. j \notin DOMAIN of  BY <1>4, <2>3
    <3> HIDE DEF new
    <3> QED  BY <1>7, <3>1, <3>2
  <2> QED  BY <2>1, <2>2, <2>3
<1> HIDE DEF new
<1>9. IsLists(known') /\ known'[k] = new /\ \A k2 \in O!Kinds \ {k} : known'[k2] = known[k2]
  <2>1. IsLists(known) /\ known' = [known EXCEPT ![k] = new]  BY <1>1 DEF ListsInv
  <2>2. k \in O!Kinds /\ IsList(k, new)  BY <1>2, <1>7
  <2> QED  BY <2>1, <2>2 DEF IsLists
<1>10. /\ last' \in [O!Kinds -> Nat \cup {-1}] /\ last'[k] = i
       /\ \A k2 \in O!Kinds \ {k} : last'[k2] = last[k2]
  BY <1>1, <1>2, <1>4 DEF ListsInv
<1> DEFINE full == answer.full \/ i \notin DOMAIN list
<1>11. /\ answer' = [kind |-> answer'.kind, left |-> answer'.left, of |-> answer'.of,
                     part |-> answer'.part, full |-> answer'.full]
       /\ answer'.kind = k /\ answer'.left = Tail(left) /\ answer'.of = answer.of
       /\ answer'.of[k] = of /\ answer'.part = "element" /\ answer'.full = full
  <2>1. answer = [kind |-> k, left |-> left, of |-> answer.of, part |-> "element",
                  full |-> answer.full]
    BY <1>1, <1>2
  <2>2. answer' = [answer EXCEPT !.left = Tail(left), !.full = full]  BY <1>1
  <2>3. answer.of[k] = of  BY DEF of
  <2> DEFINE whole == answer.of
             was == answer.full
  <2> HIDE DEF full, whole, was
  <2>4. answer' = [kind |-> k, left |-> Tail(left), of |-> whole, part |-> "element",
                   full |-> full]
    <3>1. answer = [kind |-> k, left |-> left, of |-> whole, part |-> "element", full |-> was]
      BY <2>1 DEF whole, was
    <3> QED  BY <2>2, <3>1
  <2> QED  BY <2>3, <2>4 DEF whole
<1>12. Listing(answer.kind, answer.left, answer.of[answer.kind], answer.of, answer.part,
               answer.full)'
  <2>1. answer'.full \in BOOLEAN /\ (~answer'.full => AgreeUpTo(last'[k], known'[k], of))
    BY <1>8, <1>9, <1>10, <1>11
  <2>2. ASSUME NEW k2 \in O!Kinds \ {k} PROVE IsTold(k2)'
    BY <1>1, <1>2, <1>9, <2>2 DEF Listing, IsTold
  <2>3. k = "bed" => answer.of.chamber \in O!Configurations("chamber") /\ last'.chamber = -1
    BY <1>2, <1>10, KindsAre DEF Listing
  <2> QED  BY <1>1, <1>2, <1>4, <1>10, <1>11, <2>1, <2>2, <2>3 DEF Listing
<1> QED  BY <1>1, <1>9, <1>10, <1>11, <1>12 DEF ListsInv

LEMMA ToolSafe ==
    ASSUME ListsInv, O!ReceiveTool
    PROVE  ListsInv'
<1> DEFINE of == answer.of.tool
           left == answer.left
           i == Head(left)
           list == O!GetOrCreate(known.tool, i)
           m == [known EXCEPT !.tool = [list EXCEPT ![i].heaters = of[i]]]
           full == answer.full \/ i \notin DOMAIN list
           whole == answer.of
           was == answer.full
<1>1. /\ answer # O!NoAnswer /\ answer.part = "element" /\ left # <<>> /\ answer.kind = "tool"
      /\ IF i \in DOMAIN list
         THEN \/ O!SeenIfInitialized(m)
              \/ known' = m
         ELSE known' = known
      /\ answer' = [answer EXCEPT !.part = "number", !.full = full]
      /\ last' = last /\ told' = told
  BY DEF O!ReceiveTool, O!Coming, O!Refused
<1>2. /\ answer = [kind |-> "tool", left |-> left, of |-> answer.of, part |-> "element",
                   full |-> answer.full]
      /\ Listing("tool", left, of, answer.of, "element", answer.full)
      /\ last.tool \in Nat \cup {-1} /\ IsList("tool", known.tool) /\ DOMAIN known.tool \subseteq Nat
      /\ DOMAIN of \in SUBSET Nat /\ DOMAIN of \subseteq O!Indices.tool
  BY <1>1, Receiving
<1>3. /\ IsLeft(left, last.tool, of) /\ answer.full \in BOOLEAN
      /\ ~answer.full => AgreeUpTo(last.tool, known.tool, of)
      /\ of \in O!Configurations("tool")
  BY <1>2 DEF Listing
<1>4. /\ i \in DOMAIN of /\ i \in Nat /\ last.tool < i
  BY <1>1, <1>2, <1>3, LeftNext
<1>5. IsLists(known)  BY DEF ListsInv
<1>6. answer' = [kind |-> "tool", left |-> left, of |-> whole, part |-> "number", full |-> full]
  <2> HIDE DEF left, whole, was, full
  <2>1. answer = [kind |-> "tool", left |-> left, of |-> whole, part |-> "element", full |-> was]
    BY <1>2 DEF whole, was
  <2> QED  BY <1>1, <2>1
<1> HIDE DEF of, i, left
<1>7. /\ IsList("tool", list) /\ DOMAIN known.tool \subseteq DOMAIN list
      /\ DOMAIN list \subseteq DOMAIN known.tool \cup {i}
      /\ \A j \in DOMAIN known.tool : list[j] = known.tool[j]
  BY <1>2, <1>4, KindsAre, GetOrCreateIsList
<1> HIDE DEF list
<1>8. ASSUME i \in DOMAIN list
      PROVE  /\ Shows(m, known') /\ DOMAIN m.tool = DOMAIN list /\ m.tool[i].heaters = of[i]
             /\ \A j \in DOMAIN list \ {i} : m.tool[j] = list[j]
             /\ \A k \in O!Kinds \ {"tool"} : m[k] = known[k]
  <2> DEFINE set == [list EXCEPT ![i].heaters = of[i]]
  <2>1. /\ IsList("tool", set) /\ DOMAIN set = DOMAIN list /\ set[i].heaters = of[i]
        /\ \A j \in DOMAIN list \ {i} : set[j] = list[j]
    <3>1. "tool" \in O!Kinds /\ IsList("tool", list) /\ i \in DOMAIN list
      BY <1>7, <1>8, KindsAre
    <3> QED  BY <3>1, HeatersAreSet
  <2> HIDE DEF set
  <2>2. m = [known EXCEPT !.tool = set]  BY DEF set
  <2> HIDE DEF m
  <2>3. IsLists(m) /\ m.tool = set /\ \A k \in O!Kinds \ {"tool"} : m[k] = known[k]
    BY <1>5, <2>1, <2>2, KindsAre DEF IsLists
  <2>4. Shows(m, known')
    <3>1. CASE O!SeenIfInitialized(m)  BY <2>3, <3>1, SeenShows
    <3>2. CASE known' = m  BY <2>3, <3>2 DEF Shows, Agree
    <3> QED  BY <1>1, <1>8, <3>1, <3>2
  <2> QED  BY <2>1, <2>3, <2>4
<1> HIDE DEF m
<1>9. IsLists(known') /\ \A k \in O!Kinds \ {"tool"} : Agree(known[k], known'[k])
  <2>1. CASE i \in DOMAIN list  BY <1>8, <2>1 DEF Shows
  <2>2. CASE i \notin DOMAIN list  BY <1>1, <1>5, <2>2 DEF Agree
  <2> QED  BY <2>1, <2>2
<1>10. ASSUME ~full
       PROVE  /\ AgreeUpTo(last.tool, known'.tool, of)
              /\ i \in DOMAIN known'.tool /\ known'.tool[i].heaters = of[i]
  <2>1. /\ DOMAIN known'.tool = DOMAIN list
        /\ \A j \in DOMAIN list : known'.tool[j].heaters = m.tool[j].heaters
    BY <1>8, <1>10, KindsAre DEF Shows, Agree
  <2>2. ASSUME NEW j \in Nat, j <= last.tool
        PROVE  /\ j \in DOMAIN known'.tool <=> j \in DOMAIN of
               /\ j \in DOMAIN known'.tool => known'.tool[j].heaters = of[j]
    <3>1. j # i  BY <1>2, <1>4, <2>2
    <3>2. /\ j \in DOMAIN known.tool <=> j \in DOMAIN of
          /\ j \in DOMAIN known.tool => known.tool[j].heaters = of[j]
      BY <1>3, <1>10, <2>2 DEF AgreeUpTo
    <3> QED  BY <1>7, <1>8, <1>10, <2>1, <3>1, <3>2
  <2> QED  BY <1>8, <1>10, <2>1, <2>2 DEF AgreeUpTo
<1>11. /\ answer' = [kind |-> answer'.kind, left |-> answer'.left, of |-> answer'.of,
                     part |-> answer'.part, full |-> answer'.full]
       /\ answer'.kind = "tool" /\ answer'.left = left /\ answer'.of = answer.of
       /\ answer'.of.tool = of /\ answer'.part = "number" /\ answer'.full = full
  BY <1>6 DEF of
<1>12. Listing(answer.kind, answer.left, answer.of[answer.kind], answer.of, answer.part,
               answer.full)'
  <2>1. \A k \in O!Kinds \ {"tool"} : IsTold(k)'
    <3>1. \A k \in O!Kinds \ {"tool"} : IsTold(k)  BY <1>2 DEF Listing
    <3> QED  BY <1>1, <1>9, <3>1, ToldStays
  <2>2. DOMAIN of # {}  BY <1>4
  <2>3. IsLeft(left, last'.tool, of)  BY <1>1, <1>3
  <2>4. /\ answer'.full \in BOOLEAN
        /\ ~answer'.full => /\ AgreeUpTo(last'.tool, known'.tool, of)
                            /\ Head(left) \in DOMAIN known'.tool
                            /\ known'.tool[Head(left)].heaters = of[Head(left)]
    BY <1>1, <1>10, <1>11 DEF i
  <2> HIDE DEF full
  <2> QED  BY <1>1, <1>3, <1>11, <2>1, <2>2, <2>3, <2>4, KindsAre DEF Listing
<1>13. last' \in [O!Kinds -> Nat \cup {-1}] /\ DOMAIN told' = O!Kinds  BY <1>1 DEF ListsInv
<1> QED  BY <1>9, <1>11, <1>12, <1>13 DEF ListsInv

LEMMA NumberSafe ==
    ASSUME ListsInv, O!ReceiveNumber
    PROVE  ListsInv'
<1> DEFINE of == answer.of.tool
           left == answer.left
           i == Head(left)
           gone == (last.tool + 1)..(i - 1)
           list == O!Without(known.tool, gone)
           room == O!GetOrCreate(list, i)
           new == IF i \in DOMAIN room THEN [room EXCEPT ![i].heaters = of[i]] ELSE room
           whole == answer.of
           full == answer.full
           k == answer.kind
<1>1. /\ answer # O!NoAnswer /\ answer.part = "number" /\ left # <<>>
      /\ known' = [known EXCEPT !.tool = new] /\ last' = [last EXCEPT !.tool = i]
      /\ answer' = [answer EXCEPT !.left = Tail(left), !.part = "element"]
      /\ told' = told
  BY DEF O!ReceiveNumber, O!Coming, O!RemoveGap
<1>2. /\ answer = [kind |-> k, left |-> left, of |-> whole, part |-> answer.part,
                   full |-> full]
      /\ Listing(k, left, whole[k], whole, answer.part, full)
  BY <1>1, Receiving
<1>3. k = "tool"  BY <1>1, <1>2 DEF Listing
<1>4. /\ last.tool \in Nat \cup {-1} /\ IsList("tool", known.tool) /\ DOMAIN known.tool \subseteq Nat
      /\ DOMAIN of \in SUBSET Nat /\ DOMAIN of \subseteq O!Indices.tool
  BY <1>1, <1>3, Receiving
<1>5. /\ IsLeft(left, last.tool, of) /\ full \in BOOLEAN
      /\ ~full => /\ AgreeUpTo(last.tool, known.tool, of)
                  /\ i \in DOMAIN known.tool /\ known.tool[i].heaters = of[i]
      /\ of \in O!Configurations("tool")
      /\ \A k2 \in O!Kinds \ {"tool"} : IsTold(k2)
  BY <1>1, <1>2, <1>3 DEF Listing
<1>6. /\ i \in DOMAIN of /\ i \in Nat /\ last.tool < i /\ IsLeft(Tail(left), i, of)
      /\ \A x \in DOMAIN of : x <= last.tool \/ i <= x
  BY <1>1, <1>4, <1>5, LeftNext
<1>7. answer' = [kind |-> "tool", left |-> Tail(left), of |-> whole, part |-> "element", full |-> full]
  <2>1. answer = [kind |-> "tool", left |-> left, of |-> whole, part |-> "number", full |-> full]
    BY <1>1, <1>2, <1>3
  <2> HIDE DEF left, whole, full
  <2> QED  BY <1>1, <2>1
<1>8. /\ answer' = [kind |-> answer'.kind, left |-> answer'.left, of |-> answer'.of,
                    part |-> answer'.part, full |-> answer'.full]
      /\ answer'.kind = "tool" /\ answer'.left = Tail(left) /\ answer'.of = whole
      /\ answer'.of.tool = of /\ answer'.part = "element" /\ answer'.full = full
  BY <1>7
<1> HIDE DEF of, i, left, gone, full, whole, k
<1>9. /\ IsList("tool", list) /\ DOMAIN list = DOMAIN known.tool \ gone
      /\ \A j \in DOMAIN known.tool \ gone : list[j] = known.tool[j]
  <2>1. "tool" \in O!Kinds /\ IsList("tool", known.tool)  BY <1>4, KindsAre
  <2> QED  BY <2>1 DEF IsList, O!Without
<1> HIDE DEF list
<1>10. /\ IsList("tool", new)
       /\ i \in DOMAIN list => /\ DOMAIN new = DOMAIN list /\ new[i].heaters = of[i]
                              /\ \A j \in DOMAIN list \ {i} : new[j] = list[j]
  <2>1. IsList("tool", room) /\ (i \in DOMAIN list => room = list)
    BY <1>4, <1>6, <1>9, KindsAre, GetOrCreateIsList
  <2> HIDE DEF room
  <2>2. CASE i \in DOMAIN room
    <3> DEFINE set == [room EXCEPT ![i].heaters = of[i]]
    <3>1. "tool" \in O!Kinds /\ IsList("tool", room) /\ i \in DOMAIN room
      BY <2>1, <2>2, KindsAre
    <3>2. /\ IsList("tool", set) /\ DOMAIN set = DOMAIN room /\ set[i].heaters = of[i]
          /\ \A j \in DOMAIN room \ {i} : set[j] = room[j]
      BY <3>1, HeatersAreSet
    <3>3. new = set  BY <2>2
    <3> HIDE DEF set, new
    <3> QED  BY <2>1, <3>2, <3>3
  <2>3. CASE i \notin DOMAIN room  BY <2>1, <2>3
  <2> QED  BY <2>2, <2>3
<1> HIDE DEF new
<1>11. ASSUME ~full PROVE AgreeUpTo(i, new, of)
  <2>1. i \notin gone  BY <1>4, <1>6 DEF gone
  <2>2. /\ DOMAIN new = DOMAIN list /\ i \in DOMAIN list /\ new[i].heaters = of[i]
        /\ \A j \in DOMAIN list \ {i} : new[j] = list[j]
    BY <1>5, <1>9, <1>10, <1>11, <2>1
  <2> SUFFICES ASSUME NEW j \in Nat, j <= i
               PROVE  /\ j \in DOMAIN new <=> j \in DOMAIN of
                      /\ j \in DOMAIN new => new[j].heaters = of[j]
    BY DEF AgreeUpTo
  <2>3. CASE j = i  BY <1>5, <1>6, <1>9, <1>11, <2>1, <2>2, <2>3
  <2>4. CASE j # i /\ j <= last.tool
    <3>1. j \notin gone  BY <1>4, <2>4 DEF gone
    <3>2. /\ j \in DOMAIN known.tool <=> j \in DOMAIN of
          /\ j \in DOMAIN known.tool => known.tool[j].heaters = of[j]
      BY <1>5, <1>11, <2>4 DEF AgreeUpTo
    <3> QED  BY <1>9, <2>2, <3>1, <3>2
  <2>5. CASE j # i /\ ~(j <= last.tool)
    <3>1. j \in gone  BY <1>4, <1>6, <2>5 DEF gone
    <3>2. j \notin DOMAIN of  BY <1>4, <1>6, <2>5
    <3> QED  BY <1>9, <2>2, <3>1, <3>2
  <2> QED  BY <2>3, <2>4, <2>5
<1>12. IsLists(known') /\ known'.tool = new /\ \A k2 \in O!Kinds \ {"tool"} : known'[k2] = known[k2]
  <2>1. IsLists(known) /\ known' = [known EXCEPT !.tool = new]  BY <1>1 DEF ListsInv
  <2> QED  BY <1>10, <2>1, KindsAre DEF IsLists
<1>13. /\ last' \in [O!Kinds -> Nat \cup {-1}] /\ last'.tool = i
  BY <1>1, <1>6, KindsAre DEF ListsInv
<1>14. Listing(answer.kind, answer.left, answer.of[answer.kind], answer.of, answer.part,
               answer.full)'
  <2>1. \A k2 \in O!Kinds \ {"tool"} : IsTold(k2)'
    BY <1>1, <1>5, <1>12 DEF IsTold
  <2>2. DOMAIN of # {}  BY <1>6
  <2>3. ~answer'.full => AgreeUpTo(last'.tool, known'.tool, of)  BY <1>8, <1>11, <1>12, <1>13
  <2>4. IsLeft(answer'.left, last'.tool, of)  BY <1>6, <1>8, <1>13
  <2>5. answer'.full \in BOOLEAN  BY <1>5, <1>8
  <2> QED  BY <1>5, <1>8, <2>1, <2>2, <2>3, <2>4, <2>5, KindsAre DEF Listing
<1>15. DOMAIN told' = O!Kinds  BY <1>1 DEF ListsInv
<1> QED  BY <1>8, <1>12, <1>13, <1>14, <1>15 DEF ListsInv

LEMMA ArrayEndSafe ==
    ASSUME ListsInv, O!ArrayEnd
    PROVE  ListsInv'
<1> DEFINE k == answer.kind
           whole == answer.of
           of == whole[k]
           rest == {i \in DOMAIN known[k] : i >= last[k] + 1}
           list == O!Without(known[k], rest)
           m == [known EXCEPT ![k] = list]
           empty == DOMAIN of = {} /\ k = "tool"
<1>1. /\ answer # O!NoAnswer /\ answer.part = "element" /\ answer.left = <<>>
      /\ IF empty THEN known' = known /\ told' = told
         ELSE /\ O!SeenIfInitialized(m)
              /\ told' = [told EXCEPT ![k] = IF answer.full THEN O!NotTold ELSE of]
      /\ answer' = IF k = "bed"
                   THEN [answer EXCEPT !.kind = "chamber", !.full = FALSE,
                                       !.left = O!Order(DOMAIN whole.chamber)]
                   ELSE O!NoAnswer
      /\ last' = last
  BY DEF O!ArrayEnd, O!RemoveRest
<1>2. /\ answer = [kind |-> k, left |-> answer.left, of |-> whole, part |-> answer.part,
                   full |-> answer.full]
      /\ k \in O!Kinds /\ Listing(k, answer.left, of, whole, answer.part, answer.full)
      /\ last[k] \in Nat \cup {-1} /\ IsList(k, known[k]) /\ DOMAIN known[k] \subseteq Nat
      /\ DOMAIN of \in SUBSET Nat /\ DOMAIN of \subseteq O!Indices[k]
  BY <1>1, Receiving
<1>3. /\ IsLeft(<<>>, last[k], of) /\ answer.full \in BOOLEAN
      /\ ~answer.full => AgreeUpTo(last[k], known[k], of)
      /\ of \in O!Configurations(k)
      /\ \A k2 \in O!Kinds \ {k} : IsTold(k2)
      /\ empty => IsTold(k)
      /\ k = "bed" => whole.chamber \in O!Configurations("chamber") /\ last.chamber = -1
  BY <1>1, <1>2 DEF Listing
<1>4. IsLists(known) /\ DOMAIN told = O!Kinds /\ last \in [O!Kinds -> Nat \cup {-1}]
  BY DEF ListsInv
<1>5. answer' = IF k = "bed" THEN [kind |-> "chamber", left |-> O!Order(DOMAIN whole.chamber),
                                   of |-> whole, part |-> "element", full |-> FALSE]
                ELSE O!NoAnswer
  <2> DEFINE order == O!Order(DOMAIN whole.chamber)
             was == answer.full
             left == answer.left
             no == FALSE
  <2>1. answer = [kind |-> k, left |-> left, of |-> whole, part |-> "element", full |-> was]
    BY <1>1, <1>2
  <2>2. CASE k = "bed"
    <3>1. answer' = [answer EXCEPT !.kind = "chamber", !.full = no, !.left = order]
      BY <1>1, <2>2
    <3> HIDE DEF order, was, left, whole, k, no
    <3>2. answer' = [kind |-> "chamber", left |-> order, of |-> whole, part |-> "element",
                     full |-> no]
      BY <2>1, <3>1
    <3> QED  BY <2>2, <3>2 DEF no, order
  <2>3. CASE k # "bed"  BY <1>1, <2>3
  <2> QED  BY <2>2, <2>3
<1>6. \A x \in DOMAIN of : x <= last[k]  BY <1>3 DEF IsLeft
<1>7. of = [i \in DOMAIN of |-> of[i]]  BY <1>2, <1>3, ConfigurationIs
<1>8. k = "tool" => answer' = O!NoAnswer  BY <1>5
<1> HIDE DEF of, whole, k
<1>9. /\ IsList(k, list) /\ DOMAIN list = DOMAIN known[k] \ rest
      /\ \A j \in DOMAIN known[k] \ rest : list[j] = known[k][j]
  <2>1. k \in O!Kinds /\ IsList(k, known[k])  BY <1>2
  <2> QED  BY <2>1 DEF IsList, O!Without
<1>10. ASSUME ~answer.full PROVE O!Heaters(list) = of
  <2>1. DOMAIN list = DOMAIN of
    <3>1. ASSUME NEW j \in DOMAIN list PROVE j \in DOMAIN of
      <4>1. j \in DOMAIN known[k] /\ j \in Nat /\ j <= last[k]  BY <1>2, <1>9
      <4> QED  BY <1>3, <1>10, <4>1 DEF AgreeUpTo
    <3>2. ASSUME NEW j \in DOMAIN of PROVE j \in DOMAIN list
      <4>1. j \in Nat /\ j <= last[k]  BY <1>2, <1>6
      <4>2. j \in DOMAIN known[k]  BY <1>3, <1>10, <4>1 DEF AgreeUpTo
      <4>3. j \notin rest  BY <1>2, <4>1
      <4> QED  BY <1>9, <4>2, <4>3
    <3> QED  BY <3>1, <3>2
  <2>2. ASSUME NEW j \in DOMAIN list PROVE list[j].heaters = of[j]
    <3>1. j \in DOMAIN known[k] /\ j \in Nat /\ j <= last[k] /\ list[j] = known[k][j]  BY <1>2, <1>9
    <3> QED  BY <1>3, <1>10, <3>1 DEF AgreeUpTo
  <2> HIDE DEF list
  <2> QED  BY <1>7, <2>1, <2>2 DEF O!Heaters
<1> HIDE DEF list
<1>11. IsLists(m) /\ m[k] = list /\ \A k2 \in O!Kinds \ {k} : m[k2] = known[k2]
  BY <1>2, <1>4, <1>9 DEF IsLists
<1> HIDE DEF m
<1>12. IsLists(known') /\ DOMAIN told' = O!Kinds /\ \A k2 \in O!Kinds : IsTold(k2)'
  <2>1. CASE empty  BY <1>1, <1>3, <1>4, <2>1 DEF IsTold
  <2>2. CASE ~empty
    <3>1. Shows(m, known')  BY <1>1, <1>11, <2>2, SeenShows
    <3>2. told'[k] = (IF answer.full THEN O!NotTold ELSE of) /\ DOMAIN told' = O!Kinds
          /\ \A k2 \in O!Kinds \ {k} : told'[k2] = told[k2]
      BY <1>1, <1>2, <1>4, <2>2
    <3>3. O!Heaters(known'[k]) = O!Heaters(list)
      BY <1>2, <1>11, <3>1, HeatersAgree DEF Shows
    <3>4. ASSUME NEW c \in O!Kinds, c = k PROVE IsTold(c)'
      BY <1>3, <1>10, <3>2, <3>3, <3>4 DEF IsTold
    <3>5. \A k2 \in O!Kinds \ {k} : IsTold(k2)'
      BY <1>3, <1>11, <3>1, <3>2, ToldStays DEF Shows
    <3> QED  BY <3>1, <3>2, <3>4, <3>5 DEF Shows
  <2> QED  BY <2>1, <2>2
<1>13. CASE k # "bed"
  <2>1. answer' = O!NoAnswer  BY <1>5, <1>13
  <2> QED  BY <1>1, <1>4, <1>12, <2>1 DEF ListsInv
<1>14. CASE k = "bed"
  <2>1. /\ answer' = [kind |-> "chamber", left |-> O!Order(DOMAIN whole.chamber),
                      of |-> whole, part |-> "element", full |-> FALSE]
    BY <1>5, <1>14
  <2>2. /\ answer'.kind = "chamber" /\ answer'.left = O!Order(DOMAIN whole.chamber)
        /\ answer'.of = whole /\ answer'.part = "element" /\ answer'.full = FALSE
        /\ answer' = [kind |-> answer'.kind, left |-> answer'.left, of |-> answer'.of,
                      part |-> answer'.part, full |-> answer'.full]
    BY <2>1
  <2>3. IsLeft(answer'.left, last'.chamber, whole.chamber)
    BY <1>1, <1>3, <1>14, <2>2, KindsAre, LeftAtStart
  <2>4. AgreeUpTo(last'.chamber, known'.chamber, whole.chamber)
    BY <1>1, <1>3, <1>14 DEF AgreeUpTo
  <2>5. Listing(answer.kind, answer.left, answer.of[answer.kind], answer.of, answer.part,
                answer.full)'
    BY <1>3, <1>12, <1>14, <2>2, <2>3, <2>4, KindsAre DEF Listing
  <2> QED  BY <1>1, <1>4, <1>12, <2>2, <2>5 DEF ListsInv
<1> QED  BY <1>13, <1>14

LEMMA CutOffSafe ==
    ASSUME ListsInv, O!AnswerIsCutOff
    PROVE  ListsInv'
<1>1. /\ answer # O!NoAnswer /\ answer' = O!NoAnswer /\ known' = known /\ last' = last
      /\ told' = [told EXCEPT ![answer.kind] = O!NotTold]
  BY DEF O!AnswerIsCutOff
<1>2. \A k \in O!Kinds \ {answer.kind} : IsTold(k)  BY <1>1, Receiving DEF Listing
<1>3. DOMAIN told = O!Kinds  BY DEF ListsInv
<1>4. ASSUME NEW k \in O!Kinds PROVE IsTold(k)'
  BY <1>1, <1>2, <1>3 DEF IsTold
<1> QED  BY <1>1, <1>3, <1>4 DEF ListsInv

\* Changing the columns, while an answer is received or not, changes nothing that is known.
LEMMA ColumnsSafe ==
    ASSUME ListsInv, Shows(known, known'), UNCHANGED <<last, answer, told>>
    PROVE  ListsInv'
<1>1. IsLists(known') /\ \A k \in O!Kinds : Agree(known[k], known'[k])  BY DEF Shows
<1>2. \A k \in O!Kinds : IsTold(k) => IsTold(k)'  BY <1>1, ToldStays
<1>3. DOMAIN told' = O!Kinds /\ last' \in [O!Kinds -> Nat \cup {-1}]  BY DEF ListsInv
<1>4. CASE answer = O!NoAnswer
  <2>1. \A k \in O!Kinds : IsTold(k)
    BY <1>4, Zenon DEF ListsInv, Listing, O!NoAnswer
  <2> QED  BY <1>1, <1>2, <1>3, <1>4, <2>1 DEF ListsInv
<1>5. CASE answer # O!NoAnswer
  <2> DEFINE k == answer.kind
             of == answer.of[k]
  <2>1. k \in O!Kinds /\ Listing(k, answer.left, of, answer.of, answer.part, answer.full)
    BY <1>5, Receiving
  <2>2. Agree(known[k], known'[k])  BY <1>1, <2>1
  <2>3. ~answer.full => AgreeUpTo(last[k], known'[k], of)
    <3>1. ~answer.full => AgreeUpTo(last[k], known[k], of)  BY <2>1 DEF Listing
    <3> HIDE DEF k, of
    <3> QED  BY <2>2, <3>1 DEF AgreeUpTo, Agree
  <2>4. ASSUME ~answer.full, answer.part = "number"
        PROVE  /\ Head(answer.left) \in DOMAIN known'.tool
               /\ known'.tool[Head(answer.left)].heaters = of[Head(answer.left)]
    <3>1. /\ Head(answer.left) \in DOMAIN known.tool
          /\ known.tool[Head(answer.left)].heaters = of[Head(answer.left)]
      BY <2>1, <2>4 DEF Listing
    <3> HIDE DEF k, of
    <3> QED  BY <1>1, <3>1, KindsAre DEF Agree
  <2>5. Listing(answer.kind, answer.left, answer.of[answer.kind], answer.of, answer.part,
                answer.full)'
    BY <1>2, <2>1, <2>3, <2>4 DEF Listing
  <2>6. answer = [kind |-> answer.kind, left |-> answer.left, of |-> answer.of,
                  part |-> answer.part, full |-> answer.full]
    BY <1>5, Receiving
  <2> QED  BY <1>1, <1>3, <2>5, <2>6 DEF ListsInv
<1> QED  BY <1>4, <1>5

LEMMA ListsNext == ListsInv /\ [PartsNext]_partsVars => ListsInv'
<1> SUFFICES ASSUME ListsInv, [PartsNext]_partsVars PROVE ListsInv'
  OBVIOUS
<1>1. CASE O!OMNext
  <2>1. CASE O!HeatKey \/ O!ToolsKey  BY <2>1, KeySafe
  <2>2. CASE O!ReceiveHeater  BY <2>2, HeaterSafe
  <2>3. CASE O!ReceiveTool  BY <2>3, ToolSafe
  <2>4. CASE O!ReceiveNumber  BY <2>4, NumberSafe
  <2>5. CASE O!ArrayEnd  BY <2>5, ArrayEndSafe
  <2>6. CASE O!AnswerIsCutOff  BY <2>6, CutOffSafe
  <2>7. CASE O!Initialize \/ O!ChangeHeaterCombineType
    <3>1. IsLists(known)  BY DEF ListsInv
    <3>2. \E together : O!AllToolsSeen(known, together)
      BY <2>7, Zenon DEF O!Initialize, O!ChangeHeaterCombineType
    <3>3. Shows(known, known')  BY <3>1, <3>2, AllToolsSeenShows
    <3>4. UNCHANGED <<last, answer, told>>
      BY <2>7, Zenon DEF O!Initialize, O!ChangeHeaterCombineType
    <3> QED  BY <3>3, <3>4, ColumnsSafe
  <2> QED
    BY <1>1, <2>1, <2>2, <2>3, <2>4, <2>5, <2>6, <2>7, Zenon DEF O!OMNext
<1>2. CASE UNCHANGED omVars
  BY <1>2 DEF ListsInv, Listing, IsTold, omVars
<1> QED
  BY <1>1, <1>2, Zenon DEF PartsNext, Previews, Objects, Setup, Log, Fields, partsVars

\* After an answer that arrived whole the panel knows just the beds, chambers and tools the
\* printer told of (src/PanelDue.cpp:2243, ProcessArrayElementEnd), however much of earlier
\* answers was lost, in whatever order the kinds come and whenever the columns are changed,
\* for any indices, numbers of heaters and columns.
THEOREM ListIsAlwaysTold == PartsSpec => []ListIsTold
<1>1. ListsInv => ListIsTold
  <2> SUFFICES ASSUME ListsInv, NEW k \in O!Kinds, answer = O!NoAnswer \/ answer.kind # k,
                      told[k] # O!NotTold
               PROVE  O!Heaters(known[k]) = told[k]
    BY DEF ListIsTold, O!ListIsTold
  <2>1. IsTold(k)
    <3>1. CASE answer = O!NoAnswer
      BY <3>1, Zenon DEF ListsInv, Listing, O!NoAnswer
    <3>2. CASE answer # O!NoAnswer  BY <3>2, Receiving DEF Listing
    <3> QED  BY <3>1, <3>2
  <2> QED  BY <2>1 DEF IsTold
<1> QED  BY <1>1, ListsInit, ListsNext, PTL DEF PartsSpec

-----------------------------------------------------------------------------
(* Sums over sets: in whatever order the elements are taken.                *)

Any(s) == CHOOSE x \in s : TRUE

\* it tells the sum of w over each subset of S.
IsSum(w, S, it) ==
    it = [s \in SUBSET S |-> IF s = {} THEN 0 ELSE w[Any(s)] + it[s \ {Any(s)}]]

LEMMA SmallerByAny ==
    ASSUME NEW s, IsFiniteSet(s), s # {}
    PROVE  /\ Any(s) \in s /\ IsFiniteSet(s \ {Any(s)})
           /\ Cardinality(s) \in Nat /\ Cardinality(s \ {Any(s)}) = Cardinality(s) - 1
BY FS_RemoveElement, FS_CardinalityType DEF Any

LEMMA SumExists ==
    ASSUME NEW S, IsFiniteSet(S), NEW w
    PROVE  \E it : IsSum(w, S, it)
<1> DEFINE Upto(n) == {s \in SUBSET S : Cardinality(s) <= n}
           Of(g, s) == IF s = {} THEN 0 ELSE w[Any(s)] + g[s \ {Any(s)}]
           Sums(g, n) == g = [s \in Upto(n) |-> Of(g, s)]
           N == {n \in Nat : \E g : Sums(g, n)}
<1>1. \A s \in SUBSET S : IsFiniteSet(s) /\ Cardinality(s) \in Nat
  BY FS_Subset, FS_CardinalityType
<1>2. 0 \in N
  <2> DEFINE g == [s \in Upto(0) |-> 0]
  <2>1. \A s \in Upto(0) : s = {}  BY <1>1, FS_EmptySet
  <2>2. Sums(g, 0)  BY <2>1
  <2> HIDE DEF Sums, g
  <2> QED  BY <2>2
<1>3. ASSUME NEW n \in N PROVE n + 1 \in N
  <2>1. PICK g : Sums(g, n)  BY <1>3
  <2> DEFINE h == [s \in Upto(n + 1) |-> Of(g, s)]
  <2>2. ASSUME NEW s \in Upto(n + 1) PROVE Of(g, s) = Of(h, s)
    <3>1. CASE s = {}  BY <3>1
    <3>2. CASE s # {}
      <4> DEFINE r == s \ {Any(s)}
      <4>1. r \in SUBSET S /\ Cardinality(r) <= n /\ Cardinality(r) <= n + 1
        <5>1. IsFiniteSet(s) /\ Cardinality(s) <= n + 1  BY <1>1
        <5>2. Cardinality(s) \in Nat /\ Cardinality(r) = Cardinality(s) - 1
          BY <3>2, <5>1, SmallerByAny
        <5> QED  BY <5>1, <5>2
      <4>2. g[r] = h[r]
        <5> HIDE DEF r, Of
        <5> QED  BY <2>1, <4>1
      <4> HIDE DEF h
      <4> QED  BY <3>2, <4>2
    <3> QED  BY <3>1, <3>2
  <2>3. Sums(h, n + 1)
    <3> HIDE DEF Of
    <3>1. h = [s \in Upto(n + 1) |-> Of(h, s)]  BY <2>2
    <3> QED  BY <3>1
  <2> HIDE DEF h, Sums
  <2> QED  BY <2>3
<1>4. N = Nat
  <2> HIDE DEF N
  <2>1. N \in SUBSET Nat  BY DEF N
  <2> QED  BY <1>2, <1>3, <2>1, Induction
<1>5. PICK g : Sums(g, Cardinality(S))
  <2>1. Cardinality(S) \in N  BY <1>1, <1>4
  <2> HIDE DEF Sums
  <2> QED  BY <2>1
<1>6. Upto(Cardinality(S)) = SUBSET S  BY FS_Subset
<1>7. IsSum(w, S, g)
  <2> HIDE DEF Upto
  <2> QED  BY <1>5, <1>6 DEF IsSum
<1> QED  BY <1>7

SumsUp(w, S, it) ==
    /\ it[{}] = 0
    /\ \A s \in SUBSET S : it[s] \in Nat
    /\ \A s \in SUBSET S : \A x \in S \ s : it[s \cup {x}] = it[s] + w[x]

LEMMA SumOfMore ==
    ASSUME NEW S, IsFiniteSet(S), NEW w, \A x \in S : w[x] \in Nat, NEW it, IsSum(w, S, it)
    PROVE  SumsUp(w, S, it)
<1>1. \A s \in SUBSET S : it[s] = IF s = {} THEN 0 ELSE w[Any(s)] + it[s \ {Any(s)}]
  BY DEF IsSum
<1>2. \A s \in SUBSET S : IsFiniteSet(s) /\ Cardinality(s) \in Nat
  BY FS_Subset, FS_CardinalityType
<1> DEFINE Good(s) == it[s] \in Nat /\ \A x \in S \ s : it[s \cup {x}] = it[s] + w[x]
           N == {n \in Nat : \A s \in SUBSET S : Cardinality(s) = n => Good(s)}
<1>3. it[{}] = 0  BY <1>1
<1>4. 0 \in N
  <2> SUFFICES ASSUME NEW s \in SUBSET S, Cardinality(s) = 0 PROVE Good(s)
    OBVIOUS
  <2>1. s = {}  BY <1>2, FS_EmptySet
  <2>2. ASSUME NEW x \in S PROVE it[{x}] = w[x]
    <3>1. Any({x}) = x /\ {x} \ {x} = {} /\ {x} # {} /\ {x} \in SUBSET S  BY DEF Any
    <3>2. it[{x}] = w[x] + it[{}]  BY <1>1, <3>1
    <3> QED  BY <1>3, <3>2
  <2> QED  BY <1>3, <2>1, <2>2
<1>5. ASSUME NEW n \in N PROVE n + 1 \in N
  <2> SUFFICES ASSUME NEW s \in SUBSET S, Cardinality(s) = n + 1 PROVE Good(s)
    OBVIOUS
  <2>1. s # {}
    <3>1. n \in Nat  OBVIOUS
    <3>2. n + 1 # 0  BY <3>1
    <3> QED  BY <3>2, FS_EmptySet
  <2>2. \A c \in s : Good(s \ {c})
    <3> SUFFICES ASSUME NEW c \in s PROVE Good(s \ {c})
      OBVIOUS
    <3>1. Cardinality(s \ {c}) = Cardinality(s) - 1  BY <1>2, FS_RemoveElement
    <3>2. n \in Nat /\ Cardinality(s \ {c}) = n /\ s \ {c} \in SUBSET S  BY <3>1
    <3> QED  BY <1>5, <3>2
  <2>3. ASSUME NEW c \in s PROVE it[s] = it[s \ {c}] + w[c]
    <3>1. (s \ {c}) \cup {c} = s /\ c \in S \ (s \ {c})  OBVIOUS
    <3> QED  BY <2>2, <3>1
  <2>4. it[s] \in Nat
    <3>1. PICK c \in s : TRUE  BY <2>1
    <3>2. it[s \ {c}] \in Nat /\ w[c] \in Nat  BY <2>2
    <3> QED  BY <2>3, <3>2
  <2>5. ASSUME NEW x \in S \ s PROVE it[s \cup {x}] = it[s] + w[x]
    <3> DEFINE t == s \cup {x}
               c == Any(t)
    <3>1. c \in t /\ it[t] = w[c] + it[t \ {c}]  BY <1>1 DEF Any
    <3>2. CASE c = x
      <4>1. t \ {c} = s  BY <3>2
      <4> HIDE DEF c
      <4>2. w[x] \in Nat /\ it[t] = w[x] + it[s]  BY <3>1, <3>2, <4>1
      <4> QED  BY <2>4, <4>2
    <3>3. CASE c # x
      <4> HIDE DEF c
      <4>1. c \in s /\ t \ {c} = (s \ {c}) \cup {x} /\ x \in S \ (s \ {c})  BY <3>1, <3>3
      <4>2. it[t \ {c}] = it[s \ {c}] + w[x] /\ it[s \ {c}] \in Nat  BY <2>2, <4>1
      <4>3. it[s] = it[s \ {c}] + w[c]  BY <2>3, <4>1
      <4>4. w[c] \in Nat /\ w[x] \in Nat  BY <4>1
      <4> QED  BY <3>1, <4>2, <4>3, <4>4
    <3> QED  BY <3>2, <3>3
  <2> QED  BY <2>4, <2>5
<1>6. N = Nat
  <2> HIDE DEF N
  <2>1. N \in SUBSET Nat  BY DEF N
  <2> QED  BY <1>4, <1>5, <2>1, Induction
<1>7. \A s \in SUBSET S : Good(s)  BY <1>2, <1>6
<1> QED  BY <1>3, <1>7 DEF SumsUp

LEMMA SumIsOne ==
    ASSUME NEW D, IsFiniteSet(D), NEW S \in SUBSET D, NEW w,
           NEW g, IsSum(w, S, g), NEW h, IsSum(w, D, h)
    PROVE  g[S] = h[S]
<1>1. \A s \in SUBSET S : IsFiniteSet(s) /\ Cardinality(s) \in Nat
  BY FS_Subset, FS_CardinalityType
<1> DEFINE N == {n \in Nat : \A s \in SUBSET S : Cardinality(s) = n => g[s] = h[s]}
<1>2. \A s \in SUBSET S : /\ g[s] = IF s = {} THEN 0 ELSE w[Any(s)] + g[s \ {Any(s)}]
                          /\ h[s] = IF s = {} THEN 0 ELSE w[Any(s)] + h[s \ {Any(s)}]
  BY DEF IsSum
<1>3. 0 \in N  BY <1>1, <1>2, FS_EmptySet
<1>4. ASSUME NEW n \in N PROVE n + 1 \in N
  <2> SUFFICES ASSUME NEW s \in SUBSET S, Cardinality(s) = n + 1 PROVE g[s] = h[s]
    OBVIOUS
  <2>1. n \in Nat /\ n + 1 # 0  OBVIOUS
  <2>2. s # {}  BY <2>1, FS_EmptySet
  <2> DEFINE r == s \ {Any(s)}
  <2>3. r \in SUBSET S /\ Cardinality(r) = n
    <3>1. Cardinality(r) = Cardinality(s) - 1  BY <1>1, <2>2, SmallerByAny
    <3> QED  BY <2>1, <3>1
  <2>4. g[r] = h[r]  BY <1>4, <2>3
  <2> QED  BY <1>2, <2>2, <2>4
<1>5. N = Nat
  <2> HIDE DEF N
  <2>1. N \in SUBSET Nat  BY DEF N
  <2> QED  BY <1>3, <1>4, <2>1, Induction
<1> QED  BY <1>1, <1>5

-----------------------------------------------------------------------------
(* The columns of the beds, tools and chambers.  AllToolsSeen gives columns  *)
(* to one element after the other: those that have been given some, the set *)
(* D of Placed, take all the columns before the next one, and share none as *)
(* long as their widths add up to no more than there are.                   *)

\* A list with columns; a bed or a chamber has one heater.
HasSlots(k, list) ==
    /\ IsList(k, list)
    /\ \A i \in DOMAIN list : /\ DOMAIN list[i] = {"heaters", "slot"}
                              /\ list[i].heaters \in Nat /\ list[i].slot \in Nat
                              /\ k # "tool" => list[i].heaters \in {0, 1}

IsSlotted(m) == DOMAIN m = O!Kinds /\ \A k \in O!Kinds : HasSlots(k, m[k])

\* What there is.
ShownIn(m) == {<<"bed", i>> : i \in DOMAIN m.bed} \cup {<<"tool", i>> : i \in DOMAIN m.tool}
                \cup {<<"chamber", i>> : i \in DOMAIN m.chamber}

WidthIn(m, together, e) == O!Width(m[e[1]][e[2]], together)

ColumnsIn(m, together, e) ==
    m[e[1]][e[2]].slot..(O!AtMost(m[e[1]][e[2]].slot + WidthIn(m, together, e)) - 1)

WidthsOfAll(m, together, S) == O!MapThenSumSet(LAMBDA e : WidthIn(m, together, e), S)

LaidOut ==
    /\ UNION {ColumnsIn(known, combined, e) : e \in ShownIn(known)} = 0..(numToolColsUsed - 1)
    /\ WidthsOfAll(known, combined, ShownIn(known)) <= MaxSlots =>
           \A e, f \in ShownIn(known) :
              e # f => ColumnsIn(known, combined, e) \cap ColumnsIn(known, combined, f) = {}

\* No answer has changed anything since the columns were given out.
Undisturbed == answer = O!NoAnswer \/ (answer.kind = "tool" /\ DOMAIN answer.of.tool = {})

\* Between two answers, none of them damaged, everything there is has its columns; while one
\* is received what is known changes under the columns given out before.
ColumnsInv ==
    /\ IsSlotted(known) /\ numToolColsUsed \in 0..MaxSlots
    /\ initialized /\ (\A k \in O!Kinds : told[k] # O!NotTold) /\ Undisturbed => LaidOut

LEMMA AtMostIs ==
    ASSUME NEW n \in Nat
    PROVE  /\ O!AtMost(n) \in Nat /\ O!AtMost(n) <= MaxSlots /\ O!AtMost(n) <= n
           /\ \/ O!AtMost(n) = n
              \/ O!AtMost(n) = MaxSlots /\ MaxSlots <= n
BY PartsAssumption DEF O!AtMost

LEMMA WidthIsPositive ==
    ASSUME NEW m, IsSlotted(m), NEW k \in O!Kinds, NEW i \in DOMAIN m[k], NEW together
    PROVE  /\ O!Width(m[k][i], together) \in Nat \ {0}
           /\ k # "tool" => O!Width(m[k][i], together) = 1
<1>1. m[k][i].heaters \in Nat /\ (k # "tool" => m[k][i].heaters \in {0, 1})  BY DEF IsSlotted, HasSlots
<1> QED  BY <1>1 DEF O!Width

\* What there is does not depend on the columns.
LEMMA ShownAre ==
    ASSUME NEW m, NEW m2, Shows(m, m2)
    PROVE  /\ ShownIn(m2) = ShownIn(m)
           /\ \A k \in O!Kinds : \A i : <<k, i>> \in ShownIn(m) <=> i \in DOMAIN m[k]
           /\ \A e \in ShownIn(m) : /\ e = <<e[1], e[2]>> /\ e[1] \in O!Kinds
                                    /\ e[2] \in DOMAIN m[e[1]] /\ e[2] \in DOMAIN m2[e[1]]
                                    /\ m2[e[1]][e[2]].heaters = m[e[1]][e[2]].heaters
<1>1. \A k \in O!Kinds : Agree(m[k], m2[k])  BY DEF Shows
<1>2. ShownIn(m2) = ShownIn(m)  BY <1>1, KindsAre DEF ShownIn, Agree
<1>3. \A k \in O!Kinds : \A i : <<k, i>> \in ShownIn(m) <=> i \in DOMAIN m[k]
  BY DEF ShownIn, O!Kinds
<1>4. \A e \in ShownIn(m) : e = <<e[1], e[2]>> /\ e[1] \in O!Kinds
  BY KindsAre DEF ShownIn
<1> QED  BY <1>1, <1>2, <1>3, <1>4 DEF Agree

\* One element's first column is changed.
LEMMA SlotSet ==
    ASSUME NEW m2, IsSlotted(m2), NEW k \in O!Kinds, NEW i \in DOMAIN m2[k], NEW slot \in Nat
    PROVE  LET m3 == [m2 EXCEPT ![k][i].slot = slot]
           IN  /\ IsSlotted(m3) /\ m3[k][i].slot = slot
               /\ \A k2 \in O!Kinds : \A j \in DOMAIN m2[k2] :
                     <<k2, j>> # <<k, i>> => m3[k2][j].slot = m2[k2][j].slot
<1> DEFINE was == m2[k][i]
           is == [was EXCEPT !.slot = slot]
           m3 == [m2 EXCEPT ![k][i].slot = slot]
<1>1. /\ IsLists(m2) /\ DOMAIN m2 = O!Kinds
      /\ \A k2 \in O!Kinds : \A j \in DOMAIN m2[k2] : DOMAIN m2[k2][j] = {"heaters", "slot"}
  BY DEF IsSlotted, HasSlots, IsLists
<1>2. DOMAIN was = {"heaters", "slot"}  BY <1>1
<1>3. is.slot = slot /\ is.heaters = was.heaters /\ DOMAIN is = {"heaters", "slot"}
  <2> HIDE DEF was
  <2> QED  BY <1>2
<1>4. m3 = [m2 EXCEPT ![k] = [m2[k] EXCEPT ![i] = is]]  OBVIOUS
<1> HIDE DEF is, m3
<1>5. DOMAIN m3 = O!Kinds /\ \A k2 \in O!Kinds : DOMAIN m3[k2] = DOMAIN m2[k2]  BY <1>1, <1>4
<1>6. m3[k][i] = is  BY <1>1, <1>4
<1>7. \A k2 \in O!Kinds : \A j \in DOMAIN m2[k2] : k2 # k \/ j # i => m3[k2][j] = m2[k2][j]
  BY <1>1, <1>4
<1>8. \A k2 \in O!Kinds : \A j \in DOMAIN m2[k2] : <<k2, j>> # <<k, i>> => k2 # k \/ j # i
  OBVIOUS
<1>9. \A k2 \in O!Kinds : \A j \in DOMAIN m2[k2] :
         /\ DOMAIN m3[k2][j] = {"heaters", "slot"} /\ m3[k2][j].heaters = m2[k2][j].heaters
         /\ m3[k2][j].slot = m2[k2][j].slot \/ m3[k2][j].slot = slot
  BY <1>1, <1>3, <1>6, <1>7
<1>10. IsSlotted(m3)
  <2>1. IsLists(m3)  BY <1>1, <1>5, <1>9 DEF IsLists, IsList
  <2>2. ASSUME NEW k2 \in O!Kinds, NEW j \in DOMAIN m3[k2]
        PROVE  /\ DOMAIN m3[k2][j] = {"heaters", "slot"}
               /\ m3[k2][j].heaters \in Nat /\ m3[k2][j].slot \in Nat
               /\ k2 # "tool" => m3[k2][j].heaters \in {0, 1}
    <3>1. /\ j \in DOMAIN m2[k2] /\ m2[k2][j].heaters \in Nat /\ m2[k2][j].slot \in Nat
          /\ k2 # "tool" => m2[k2][j].heaters \in {0, 1}
      BY <1>5 DEF IsSlotted, HasSlots
    <3> QED  BY <1>9, <3>1
  <2> QED  BY <2>1, <2>2 DEF IsSlotted, HasSlots, IsLists
<1>11. m3[k][i].slot = slot  BY <1>3, <1>6
<1>12. \A k2 \in O!Kinds : \A j \in DOMAIN m2[k2] :
          <<k2, j>> # <<k, i>> => m3[k2][j].slot = m2[k2][j].slot
  BY <1>7, <1>8
<1> QED  BY <1>10, <1>11, <1>12 DEF m3

\* The elements of D have been given columns, slot is the next column; it tells the sum of
\* the widths of any elements.
Placed(m, together, it, m2, slot, D) ==
    /\ Shows(m, m2) /\ IsSlotted(m2) /\ D \subseteq ShownIn(m) /\ slot = O!AtMost(it[D])
    /\ \A c \in Nat : c < slot => \E e \in D : c \in ColumnsIn(m2, together, e)
    /\ \A e \in D : \A c \in ColumnsIn(m2, together, e) : c \in Nat /\ c < slot
    /\ it[D] <= MaxSlots =>
          \A e, f \in D : e # f => ColumnsIn(m2, together, e) \cap ColumnsIn(m2, together, f) = {}

WidthsIn(m, together) == [e \in ShownIn(m) |-> WidthIn(m, together, e)]

LEMMA SameColumns ==
    ASSUME NEW m2, NEW m3, NEW together, NEW e,
           m3[e[1]][e[2]].slot = m2[e[1]][e[2]].slot,
           m3[e[1]][e[2]].heaters = m2[e[1]][e[2]].heaters
    PROVE  ColumnsIn(m3, together, e) = ColumnsIn(m2, together, e)
BY DEF ColumnsIn, WidthIn, O!Width

\* One element more, in the next columns.
LEMMA PlacedNext ==
    ASSUME NEW m, IsSlotted(m), NEW together, NEW it, SumsUp(WidthsIn(m, together), ShownIn(m), it),
           NEW m2, NEW slot, NEW D, Placed(m, together, it, m2, slot, D),
           NEW k \in O!Kinds, NEW i \in DOMAIN m[k], <<k, i>> \notin D
    PROVE  /\ Placed(m, together, it, [m2 EXCEPT ![k][i].slot = slot],
                     O!ColumnsAfter(slot, m2[k][i], together), D \cup {<<k, i>>})
           /\ slot >= MaxSlots => Placed(m, together, it, m2, slot, D \cup {<<k, i>>})
<1> DEFINE x == <<k, i>>
           w == O!Width(m2[k][i], together)
           more == D \cup {x}
           m3 == [m2 EXCEPT ![k][i].slot = slot]
           next == O!AtMost(slot + w)
<1>1. /\ Shows(m, m2) /\ IsSlotted(m2) /\ D \in SUBSET ShownIn(m) /\ slot = O!AtMost(it[D])
      /\ \A c \in Nat : c < slot => \E e \in D : c \in ColumnsIn(m2, together, e)
      /\ \A e \in D : \A c \in ColumnsIn(m2, together, e) : c \in Nat /\ c < slot
      /\ it[D] <= MaxSlots =>
            \A e, f \in D : e # f => ColumnsIn(m2, together, e) \cap ColumnsIn(m2, together, f) = {}
  BY DEF Placed
<1>2. x \in ShownIn(m) /\ more \in SUBSET ShownIn(m) /\ x \notin D
  BY <1>1, ShownAre
<1>3. i \in DOMAIN m2[k] /\ m2[k][i].heaters = m[k][i].heaters
  BY <1>1 DEF Shows, Agree
<1>4. w \in Nat \ {0} /\ w = WidthsIn(m, together)[x]
  <2>1. w = O!Width(m[k][i], together)  BY <1>3 DEF O!Width
  <2> QED  BY <1>2, <2>1, WidthIsPositive DEF WidthsIn, WidthIn
<1>5. it[D] \in Nat /\ it[more] = it[D] + w
  BY <1>1, <1>2, <1>4 DEF SumsUp
<1>6. /\ slot \in Nat /\ slot <= MaxSlots
      /\ \/ slot = it[D]
         \/ slot = MaxSlots /\ MaxSlots <= it[D]
  BY <1>1, <1>5, AtMostIs
<1> HIDE DEF w
<1>7. next = O!AtMost(it[more]) /\ next \in Nat /\ slot <= next
  BY <1>4, <1>5, <1>6, PartsAssumption DEF O!AtMost
<1>8. /\ Shows(m, m3) /\ IsSlotted(m3) /\ m3[k][i].slot = slot
      /\ \A e \in D : ColumnsIn(m3, together, e) = ColumnsIn(m2, together, e)
      /\ ColumnsIn(m3, together, x) = slot..(next - 1)
  <2>1. Shows(m, m3)  BY <1>1, SlotIsShown
  <2>2. /\ IsSlotted(m3) /\ m3[k][i].slot = slot
        /\ \A k2 \in O!Kinds : \A j \in DOMAIN m2[k2] :
              <<k2, j>> # x => m3[k2][j].slot = m2[k2][j].slot
    BY <1>1, <1>3, <1>6, SlotSet
  <2>3. ASSUME NEW e \in D PROVE ColumnsIn(m3, together, e) = ColumnsIn(m2, together, e)
    <3>1. /\ e = <<e[1], e[2]>> /\ e # x /\ e[1] \in O!Kinds /\ e[2] \in DOMAIN m2[e[1]]
          /\ m2[e[1]][e[2]].heaters = m[e[1]][e[2]].heaters
      BY <1>1, <1>2, ShownAre
    <3>2. m3[e[1]][e[2]].heaters = m[e[1]][e[2]].heaters  BY <1>1, <2>1, ShownAre
    <3>3. m3[e[1]][e[2]].slot = m2[e[1]][e[2]].slot  BY <2>2, <3>1
    <3> HIDE DEF m3
    <3> QED  BY <3>1, <3>2, <3>3, SameColumns
  <2>4. m3[k][i].heaters = m2[k][i].heaters  BY <1>3, <2>1 DEF Shows, Agree
  <2> HIDE DEF m3
  <2>5. WidthIn(m3, together, x) = w  BY <2>4 DEF WidthIn, w, O!Width
  <2>6. ColumnsIn(m3, together, x) = slot..(next - 1)
    BY <2>2, <2>5 DEF ColumnsIn
  <2> QED  BY <2>1, <2>2, <2>3, <2>6
<1> HIDE DEF m3
<1>9. Placed(m, together, it, m3, next, more)
  <2>1. ASSUME NEW c \in Nat, c < next PROVE \E e \in more : c \in ColumnsIn(m3, together, e)
    <3>1. CASE c < slot
      <4>1. PICK e \in D : c \in ColumnsIn(m2, together, e)  BY <1>1, <3>1
      <4> QED  BY <1>8, <4>1
    <3>2. CASE ~(c < slot)
      <4>1. c \in slot..(next - 1)  BY <1>6, <1>7, <2>1, <3>2
      <4> HIDE DEF next
      <4> QED  BY <1>8, <4>1
    <3> QED  BY <3>1, <3>2
  <2>2. ASSUME NEW e \in more, NEW c \in ColumnsIn(m3, together, e) PROVE c \in Nat /\ c < next
    <3> HIDE DEF next
    <3>1. CASE e = x  BY <1>6, <1>7, <1>8, <2>2, <3>1
    <3>2. CASE e # x  BY <1>1, <1>6, <1>7, <1>8, <2>2, <3>2
    <3> QED  BY <3>1, <3>2
  <2>3. ASSUME it[more] <= MaxSlots, NEW e \in more, NEW f \in more, e # f
        PROVE  ColumnsIn(m3, together, e) \cap ColumnsIn(m3, together, f) = {}
    <3> HIDE DEF next
    <3>1. it[D] <= MaxSlots  BY <1>4, <1>5, <2>3, PartsAssumption
    <3>2. CASE e \in D /\ f \in D  BY <1>1, <1>8, <2>3, <3>1, <3>2
    <3>3. \A g \in D : ColumnsIn(m3, together, g) \cap ColumnsIn(m3, together, x) = {}
      BY <1>1, <1>6, <1>7, <1>8
    <3> QED  BY <2>3, <3>2, <3>3
  <2> HIDE DEF next, more
  <2> QED  BY <1>2, <1>7, <1>8, <2>1, <2>2, <2>3 DEF Placed
<1>10. ASSUME slot >= MaxSlots PROVE Placed(m, together, it, m2, slot, more)
  <2>1. slot = MaxSlots /\ MaxSlots <= it[D] /\ it[more] > MaxSlots
    BY <1>4, <1>5, <1>6, <1>10, PartsAssumption
  <2>2. slot = O!AtMost(it[more])
    <3>1. it[more] \in Nat  BY <1>4, <1>5
    <3> HIDE DEF more
    <3> QED  BY <2>1, <3>1, PartsAssumption DEF O!AtMost
  <2>3. ASSUME NEW c \in ColumnsIn(m2, together, x) PROVE c \in Nat /\ c < slot
    <3>1. m2[k][i].slot \in Nat  BY <1>1, <1>3 DEF IsSlotted, HasSlots
    <3>2. WidthIn(m2, together, x) = w  BY DEF WidthIn, w
    <3>3. m2[k][i].slot + w \in Nat  BY <1>4, <3>1
    <3>4. c \in m2[k][i].slot..(O!AtMost(m2[k][i].slot + w) - 1)
      BY <2>3, <3>2 DEF ColumnsIn
    <3> QED  BY <2>1, <3>1, <3>3, <3>4, AtMostIs, PartsAssumption
  <2>4. ~(it[more] <= MaxSlots)  BY <1>4, <1>5, <2>1, PartsAssumption
  <2> HIDE DEF x
  <2> QED  BY <1>1, <1>2, <2>2, <2>3, <2>4 DEF Placed
<1> QED  BY <1>9, <1>10 DEF m3, w, O!ColumnsAfter

\* The others of a kind, one after the other.
LEMMA PlacedOthers ==
    ASSUME NEW m, IsSlotted(m), NEW together, NEW it, SumsUp(WidthsIn(m, together), ShownIn(m), it),
           NEW s, NEW D, Placed(m, together, it, s.known, s.slot, D),
           NEW k \in O!Kinds, NEW n \in Nat, NEW list \in [1..n -> DOMAIN m[k]], Ascending(list),
           \A j \in 1..n : <<k, list[j]>> \notin D,
           NEW E, E = D \cup {<<k, list[j]>> : j \in 1..n},
           NEW to, to = O!AddOthers(k, list, together, s)
    PROVE  Placed(m, together, it, to.known, to.slot, E)
<1> DEFINE Upto(j) == D \cup {<<k, list[h]>> : h \in 1..j}
           P(t, j) == Placed(m, together, it, t.known, t.slot, Upto(j))
<1>1. PICK g : /\ g[1..0] = s /\ O!AddOthers(k, list, together, s) = g[1..n]
               /\ \A j \in 1..n : g[1..j] = AddOne(k, together, g[1..(j - 1)], list[j])
  <2>1. DOMAIN list = 1..n  OBVIOUS
  <2> QED  BY <2>1, OneByOne
<1> DEFINE N == {j \in Nat : j <= n => P(g[1..j], j)}
<1>2. 0 \in N
  <2>1. Upto(0) = D  OBVIOUS
  <2> QED  BY <1>1, <2>1
<1>3. ASSUME NEW j \in N PROVE j + 1 \in N
  <2> SUFFICES ASSUME j + 1 <= n PROVE P(g[1..(j + 1)], j + 1)
    OBVIOUS
  <2> DEFINE t == g[1..j]
             i == list[j + 1]
             t2 == g[1..(j + 1)]
  <2>1. j \in Nat /\ j + 1 \in 1..n /\ i \in DOMAIN m[k]  OBVIOUS
  <2>2. P(t, j)  OBVIOUS
  <2>3. t2 = AddOne(k, together, t, i)
    <3>1. (j + 1) - 1 = j  OBVIOUS
    <3> QED  BY <1>1, <2>1, <3>1
  <2>4. Upto(j + 1) = Upto(j) \cup {<<k, i>>}
    <3>1. 1..(j + 1) = (1..j) \cup {j + 1}  BY <2>1
    <3> QED  BY <3>1
  <2>5. <<k, i>> \notin Upto(j)
    <3>1. ASSUME NEW h \in 1..j PROVE list[h] # i
      <4>1. h \in 1..n /\ h < j + 1  BY <2>1
      <4>2. list[h] < i  BY <2>1, <4>1 DEF Ascending
      <4>3. i \in Nat
        <5>1. DOMAIN m[k] \in SUBSET O!Indices[k]  BY DEF IsSlotted, HasSlots, IsLists, IsList
        <5> QED  BY <2>1, <5>1, IndicesAreFinite
      <4> HIDE DEF i
      <4> QED  BY <4>2, <4>3
    <3> QED  BY <2>1, <3>1
  <2> HIDE DEF t, t2, i, Upto
  <2>6. /\ Placed(m, together, it, [t.known EXCEPT ![k][i].slot = t.slot],
                  O!ColumnsAfter(t.slot, t.known[k][i], together), Upto(j) \cup {<<k, i>>})
        /\ t.slot >= MaxSlots =>
              Placed(m, together, it, t.known, t.slot, Upto(j) \cup {<<k, i>>})
    BY <2>1, <2>2, <2>5, PlacedNext
  <2>7. CASE t.slot >= MaxSlots
    <3>1. t2 = t  BY <2>3, <2>7 DEF AddOne
    <3> QED  BY <2>4, <2>6, <2>7, <3>1 DEF t2
  <2>8. CASE ~(t.slot >= MaxSlots)
    <3>1. /\ t2.known = [t.known EXCEPT ![k][i].slot = t.slot]
          /\ t2.slot = O!ColumnsAfter(t.slot, t.known[k][i], together)
      BY <2>3, <2>8 DEF AddOne
    <3> QED  BY <2>4, <2>6, <3>1 DEF t2
  <2> QED  BY <2>7, <2>8
<1>4. N = Nat
  <2> HIDE DEF N
  <2>1. N \in SUBSET Nat  BY DEF N
  <2> QED  BY <1>2, <1>3, <2>1, Induction
<1>5. P(g[1..n], n)
  <2> HIDE DEF P
  <2> QED  BY <1>4
<1> QED  BY <1>1, <1>5

\* The first of a kind, if there is one.
LEMMA PlacedFirst ==
    ASSUME NEW m, IsSlotted(m), NEW together, NEW it, SumsUp(WidthsIn(m, together), ShownIn(m), it),
           NEW s, NEW D, Placed(m, together, it, s.known, s.slot, D),
           NEW k \in O!Kinds, k # "tool", \A i : <<k, i>> \notin D
    PROVE  LET t == O!AddFirst(k, s)
           IN  Placed(m, together, it, t.known, t.slot,
                      D \cup {<<k, i>> : i \in {i \in DOMAIN m[k] : i = O!Min(DOMAIN m[k])}})
<1> DEFINE i == O!Min(DOMAIN m[k])
           t == O!AddFirst(k, s)
<1>1. /\ Shows(m, s.known) /\ IsSlotted(s.known) /\ DOMAIN s.known[k] = DOMAIN m[k]
  BY DEF Placed, Shows, Agree
<1>2. CASE DOMAIN m[k] = {}
  <2>1. t = s  BY <1>1, <1>2 DEF O!AddFirst
  <2>2. {<<k, j>> : j \in {j \in DOMAIN m[k] : j = i}} = {}  BY <1>2
  <2> QED  BY <2>1, <2>2
<1>3. CASE DOMAIN m[k] # {}
  <2>1. i \in DOMAIN m[k]
    <3>1. DOMAIN m[k] \in SUBSET O!Indices[k]  BY DEF IsSlotted, HasSlots, IsLists, IsList
    <3>2. DOMAIN m[k] \in SUBSET Nat  BY <3>1, IndicesAreFinite
    <3>3. PICK j \in DOMAIN m[k] : \A h \in DOMAIN m[k] : j <= h  BY <1>3, <3>2, LeastNumber
    <3> QED  BY <3>3 DEF O!Min
  <2>2. /\ t.known = [s.known EXCEPT ![k][i].slot = s.slot]
        /\ t.slot = O!AtMost(s.slot + 1)
    BY <1>1, <1>3 DEF O!AddFirst
  <2>3. O!Width(s.known[k][i], together) = 1
    BY <1>1, <2>1, WidthIsPositive
  <2>4. t.slot = O!ColumnsAfter(s.slot, s.known[k][i], together)
    BY <2>2, <2>3 DEF O!ColumnsAfter
  <2>5. {<<k, j>> : j \in {j \in DOMAIN m[k] : j = i}} = {<<k, i>>}  BY <2>1
  <2> HIDE DEF i, t
  <2>6. Placed(m, together, it, [s.known EXCEPT ![k][i].slot = s.slot],
               O!ColumnsAfter(s.slot, s.known[k][i], together), D \cup {<<k, i>>})
    BY <2>1, PlacedNext
  <2> QED  BY <2>2, <2>4, <2>5, <2>6 DEF i, t
<1> QED  BY <1>2, <1>3

\* The first in order is the least; the others follow.
LEMMA OthersAre ==
    ASSUME NEW S \in SUBSET Nat, IsFiniteSet(S)
    PROVE  \E n \in Nat : /\ O!NotFirst(O!Order(S)) \in [1..n -> S]
                          /\ Ascending(O!NotFirst(O!Order(S)))
                          /\ \A j \in 1..n : O!NotFirst(O!Order(S))[j] # O!Min(S)
                          /\ \A x \in S : \/ x = O!Min(S)
                                          \/ \E j \in 1..n : x = O!NotFirst(O!Order(S))[j]
<1> DEFINE n == Cardinality(S)
           o == O!Order(S)
           r == O!NotFirst(o)
<1>1. /\ n \in Nat /\ o \in [1..n -> S] /\ Ascending(o)
      /\ \A x \in S : \E i \in 1..n : x = o[i]
  BY OrderIsOf
<1>2. CASE S = {}
  <2>1. n = 0  BY <1>2, FS_EmptySet
  <2>2. o \in Seq(S) /\ Len(o) = 0  BY <1>1, <2>1
  <2>3. o = <<>>  BY <2>2
  <2>4. r = <<>>  BY <2>3 DEF O!NotFirst
  <2>5. r \in [1..0 -> S] /\ Ascending(r)  BY <2>4 DEF Ascending
  <2> QED  BY <1>2, <2>5
<1>3. CASE S # {}
  <2>1. n # 0 /\ n - 1 \in Nat  BY <1>1, <1>3, FS_EmptySet
  <2>2. o \in Seq(S) /\ Len(o) = n /\ o # <<>>  BY <1>1, <2>1
  <2>3. r = Tail(o)  BY <2>2 DEF O!NotFirst
  <2> HIDE DEF n, o
  <2>4. r \in [1..(n - 1) -> S] /\ \A j \in 1..(n - 1) : r[j] = o[j + 1] /\ j + 1 \in 1..n
    <3>1. /\ r \in Seq(S) /\ Len(r) = n - 1 /\ DOMAIN r = 1..(n - 1)
          /\ \A j \in 1..(n - 1) : r[j] = o[j + 1] /\ j + 1 \in 1..n
      <4> HIDE DEF r
      <4>1. r \in Seq(S) /\ Len(r) = n - 1  BY <2>1, <2>2, <2>3
      <4>2. DOMAIN r = 1..(n - 1)  BY <4>1
      <4>3. ASSUME NEW j \in 1..(n - 1) PROVE r[j] = o[j + 1] /\ j + 1 \in 1..n
        BY <2>1, <2>2, <2>3
      <4> QED  BY <4>1, <4>2, <4>3
    <3> HIDE DEF r
    <3> QED  BY <1>1, <3>1
  <2> HIDE DEF r
  <2>5. \A i \in 1..n : i # 1 => o[1] < o[i] /\ \E j \in 1..(n - 1) : i = j + 1
    <3> SUFFICES ASSUME NEW i \in 1..n, i # 1
                 PROVE  o[1] < o[i] /\ \E j \in 1..(n - 1) : i = j + 1
      OBVIOUS
    <3>1. 1 \in 1..n /\ 1 < i /\ i - 1 \in 1..(n - 1) /\ i = (i - 1) + 1  BY <1>1, <2>1
    <3> QED  BY <1>1, <3>1 DEF Ascending
  <2>6. o[1] \in S /\ \A x \in S : o[1] <= x
    <3>1. 1 \in 1..n  BY <1>1, <2>1
    <3>2. ASSUME NEW x \in S PROVE o[1] <= x
      <4>1. PICK i \in 1..n : x = o[i]  BY <1>1
      <4>2. o[1] \in Nat  BY <1>1, <3>1
      <4>3. CASE i = 1  BY <4>1, <4>2, <4>3
      <4>4. CASE i # 1
        <5>1. o[1] < x /\ x \in Nat  BY <2>5, <4>1, <4>4
        <5> QED  BY <4>2, <5>1
      <4> QED  BY <4>3, <4>4
    <3> QED  BY <1>1, <3>1, <3>2
  <2>7. O!Min(S) = o[1]
    <3>1. O!Min(S) \in S /\ \A x \in S : O!Min(S) <= x  BY <2>6 DEF O!Min
    <3>2. O!Min(S) <= o[1] /\ o[1] <= O!Min(S) /\ O!Min(S) \in Nat /\ o[1] \in Nat
      BY <2>6, <3>1
    <3> QED  BY <3>2
  <2>8. Ascending(r)
    <3> SUFFICES ASSUME NEW i \in 1..(n - 1), NEW j \in 1..(n - 1), i < j PROVE r[i] < r[j]
      BY <2>4 DEF Ascending
    <3>1. i + 1 \in 1..n /\ j + 1 \in 1..n /\ i + 1 < j + 1  BY <2>4
    <3> QED  BY <1>1, <2>4, <3>1 DEF Ascending
  <2>9. ASSUME NEW j \in 1..(n - 1) PROVE r[j] # O!Min(S)
    <3>1. j + 1 \in 1..n /\ j + 1 # 1  BY <2>4
    <3>2. o[1] < o[j + 1] /\ o[1] \in Nat  BY <2>5, <2>6, <3>1
    <3> QED  BY <2>4, <2>7, <3>2
  <2>10. ASSUME NEW x \in S, x # O!Min(S) PROVE \E j \in 1..(n - 1) : x = r[j]
    <3>1. PICK i \in 1..n : x = o[i]  BY <1>1
    <3>2. i # 1  BY <2>7, <2>10, <3>1
    <3> QED  BY <2>4, <2>5, <3>1, <3>2
  <2> QED  BY <2>1, <2>4, <2>8, <2>9, <2>10 DEF r, o
<1> QED  BY <1>2, <1>3

\* AllToolsSeen places everything there is.
LEMMA AllArePlaced ==
    ASSUME NEW m, IsSlotted(m), NEW together, O!AllToolsSeen(m, together),
           NEW it, SumsUp(WidthsIn(m, together), ShownIn(m), it)
    PROVE  Placed(m, together, it, known', numToolColsUsed', ShownIn(m))
<1> DEFINE start == [known |-> m, slot |-> 0]
           bed == O!AddFirst("bed", start)
           tools == O!AddOthers("tool", O!Order(DOMAIN m.tool), together, bed)
           chamber == O!AddFirst("chamber", tools)
           bedsLeft == O!NotFirst(O!Order(DOMAIN m.bed))
           chambersLeft == O!NotFirst(O!Order(DOMAIN m.chamber))
           beds == O!AddOthers("bed", bedsLeft, together, chamber)
           all == O!AddOthers("chamber", chambersLeft, together, beds)
           First(k) == {<<k, i>> : i \in {i \in DOMAIN m[k] : i = O!Min(DOMAIN m[k])}}
           D1 == First("bed")
           D2 == D1 \cup {<<"tool", i>> : i \in DOMAIN m.tool}
           D3 == D2 \cup First("chamber")
           D4 == D3 \cup {<<"bed", i>> : i \in DOMAIN m.bed}
           P(t, D) == Placed(m, together, it, t.known, t.slot, D)
<1>1. known' = all.known /\ numToolColsUsed' = all.slot  BY DEF O!AllToolsSeen
<1>2. ASSUME NEW k \in O!Kinds PROVE DOMAIN m[k] \in SUBSET Nat /\ IsFiniteSet(DOMAIN m[k])
  <2>1. DOMAIN m[k] \in SUBSET O!Indices[k]  BY DEF IsSlotted, HasSlots, IsLists, IsList
  <2> QED  BY <2>1, IndicesAreFinite
<1>3. P(start, {})
  <2>1. Shows(m, m)  BY DEF IsSlotted, HasSlots, Shows, IsLists, Agree
  <2>2. it[{}] = 0  BY DEF SumsUp
  <2>3. 0 = O!AtMost(0)  BY PartsAssumption DEF O!AtMost
  <2> QED  BY <2>1, <2>2, <2>3 DEF Placed
<1> HIDE DEF start
<1>4. P(bed, D1)
  <2>1. P(bed, {} \cup D1)
    <3>1. \A i : <<"bed", i>> \notin {}  OBVIOUS
    <3> HIDE DEF bed, start
    <3> QED  BY <1>3, <3>1, KindsAre, PlacedFirst DEF bed
  <2>2. {} \cup D1 = D1  OBVIOUS
  <2> QED  BY <2>1, <2>2
<1> HIDE DEF bed
<1>5. P(tools, D2)
  <2> DEFINE n == Cardinality(DOMAIN m.tool)
             o == O!Order(DOMAIN m.tool)
  <2>1. /\ n \in Nat /\ o \in [1..n -> DOMAIN m.tool] /\ Ascending(o)
        /\ \A x \in DOMAIN m.tool : \E i \in 1..n : x = o[i]
    BY <1>2, KindsAre, OrderIsOf
  <2> HIDE DEF n, o
  <2>2. \A j \in 1..n : <<"tool", o[j]>> \notin D1  OBVIOUS
  <2>3. D2 = D1 \cup {<<"tool", o[j]>> : j \in 1..n}  BY <2>1
  <2>4. tools = O!AddOthers("tool", o, together, bed)  BY DEF o
  <2> HIDE DEF D1, D2, tools
  <2> QED  BY <1>4, <2>1, <2>2, <2>3, <2>4, KindsAre, PlacedOthers
<1> HIDE DEF tools
<1>6. P(chamber, D3)
  <2>1. \A i : <<"chamber", i>> \notin D2  OBVIOUS
  <2> HIDE DEF D2
  <2> QED  BY <1>5, <2>1, KindsAre, PlacedFirst
<1> HIDE DEF chamber
<1>7. P(beds, D4)
  <2>1. PICK n \in Nat :
           /\ bedsLeft \in [1..n -> DOMAIN m.bed] /\ Ascending(bedsLeft)
           /\ \A j \in 1..n : bedsLeft[j] # O!Min(DOMAIN m.bed)
           /\ \A x \in DOMAIN m.bed : x = O!Min(DOMAIN m.bed) \/ \E j \in 1..n : x = bedsLeft[j]
    BY <1>2, KindsAre, OthersAre
  <2> HIDE DEF bedsLeft
  <2>2. \A j \in 1..n : <<"bed", bedsLeft[j]>> \notin D3  BY <2>1
  <2>3. D4 = D3 \cup {<<"bed", bedsLeft[j]>> : j \in 1..n}  BY <2>1
  <2>4. beds = O!AddOthers("bed", bedsLeft, together, chamber)  OBVIOUS
  <2> HIDE DEF D3, D4, beds
  <2> QED  BY <1>6, <2>1, <2>2, <2>3, <2>4, KindsAre, PlacedOthers
<1> HIDE DEF beds
<1>8. P(all, ShownIn(m))
  <2>1. PICK n \in Nat :
           /\ chambersLeft \in [1..n -> DOMAIN m.chamber] /\ Ascending(chambersLeft)
           /\ \A j \in 1..n : chambersLeft[j] # O!Min(DOMAIN m.chamber)
           /\ \A x \in DOMAIN m.chamber :
                 x = O!Min(DOMAIN m.chamber) \/ \E j \in 1..n : x = chambersLeft[j]
    BY <1>2, KindsAre, OthersAre
  <2> HIDE DEF chambersLeft
  <2>2. \A j \in 1..n : <<"chamber", chambersLeft[j]>> \notin D4  BY <2>1
  <2>3. ShownIn(m) = D4 \cup {<<"chamber", chambersLeft[j]>> : j \in 1..n}
    BY <2>1 DEF ShownIn
  <2>4. all = O!AddOthers("chamber", chambersLeft, together, beds)  OBVIOUS
  <2> HIDE DEF D4, all
  <2> QED  BY <1>7, <2>1, <2>2, <2>3, <2>4, KindsAre, PlacedOthers
<1> QED  BY <1>1, <1>8

\* The widths of what there is have a sum, and MapThenSumSet tells it.
LEMMA AllWidthsAreSummed ==
    ASSUME NEW m, IsSlotted(m), NEW together
    PROVE  \E it : /\ SumsUp(WidthsIn(m, together), ShownIn(m), it)
                   /\ WidthsOfAll(m, together, ShownIn(m)) = it[ShownIn(m)]
<1> DEFINE S == ShownIn(m)
           w == WidthsIn(m, together)
           Sums(g) == g = [s \in SUBSET S |->
                              IF s = {} THEN 0
                              ELSE WidthIn(m, together, CHOOSE x \in s : TRUE)
                                       + g[s \ {CHOOSE x \in s : TRUE}]]
           sum == CHOOSE g : Sums(g)
<1>1. \A g : Sums(g) <=> IsSum(w, S, g)
  <2>1. \A s \in SUBSET S :
           s # {} => w[Any(s)] = WidthIn(m, together, CHOOSE x \in s : TRUE)
    BY DEF Any, WidthsIn
  <2> HIDE DEF w, S
  <2> SUFFICES ASSUME NEW g PROVE Sums(g) <=> IsSum(w, S, g)
    OBVIOUS
  <2> DEFINE E1(s) == IF s = {} THEN 0
                      ELSE WidthIn(m, together, CHOOSE x \in s : TRUE)
                               + g[s \ {CHOOSE x \in s : TRUE}]
             E2(s) == IF s = {} THEN 0 ELSE w[Any(s)] + g[s \ {Any(s)}]
  <2>2. \A s \in SUBSET S : E1(s) = E2(s)  BY <2>1 DEF Any
  <2>3. [s \in SUBSET S |-> E1(s)] = [s \in SUBSET S |-> E2(s)]
    <3> HIDE DEF E1, E2
    <3> QED  BY <2>2
  <2> QED  BY <2>3 DEF IsSum
<1>2. IsFiniteSet(S)
  <2>1. ASSUME NEW k \in O!Kinds PROVE IsFiniteSet({<<k, i>> : i \in DOMAIN m[k]})
    <3> DEFINE D == DOMAIN m[k]
               E == {<<k, i>> : i \in D}
               f == [i \in D |-> <<k, i>>]
    <3>1. D \in SUBSET O!Indices[k]  BY DEF IsSlotted, HasSlots, IsList
    <3>2. IsFiniteSet(D)  BY <3>1, IndicesAreFinite
    <3> HIDE DEF D
    <3>3. f \in Surjection(D, E)  BY DEF Surjection
    <3> HIDE DEF E, f
    <3>4. IsFiniteSet(E)  BY <3>2, <3>3, FS_Surjection
    <3> QED  BY <3>4 DEF E, D
  <2> DEFINE Bd == {<<"bed", i>> : i \in DOMAIN m.bed}
             Tl == {<<"tool", i>> : i \in DOMAIN m.tool}
             Ch == {<<"chamber", i>> : i \in DOMAIN m.chamber}
  <2>2. IsFiniteSet(Bd) /\ IsFiniteSet(Tl) /\ IsFiniteSet(Ch)  BY <2>1, KindsAre
  <2>3. S = (Bd \cup Tl) \cup Ch  BY DEF ShownIn
  <2> HIDE DEF Bd, Tl, Ch, S
  <2>4. IsFiniteSet(Bd \cup Tl)  BY <2>2, FS_Union
  <2>5. IsFiniteSet((Bd \cup Tl) \cup Ch)  BY <2>2, <2>4, FS_Union
  <2> QED  BY <2>3, <2>5
<1>3. IsSum(w, S, sum)
  <2>1. \E g : Sums(g)
    <3> HIDE DEF Sums, w, S
    <3> QED  BY <1>1, <1>2, SumExists
  <2>2. Sums(sum)
    <3> HIDE DEF Sums
    <3> QED  BY <2>1
  <2> HIDE DEF sum
  <2> QED  BY <1>1, <2>2
<1>4. WidthsOfAll(m, together, S) = sum[S]
  <2> HIDE DEF S
  <2> QED  BY DEF WidthsOfAll, O!MapThenSumSet, O!MapThenFoldSet
<1>5. \A e \in S : w[e] \in Nat
  <2> SUFFICES ASSUME NEW e \in S PROVE WidthIn(m, together, e) \in Nat
    BY DEF WidthsIn
  <2>1. Shows(m, m)  BY DEF IsSlotted, HasSlots, Shows, IsLists, Agree
  <2>2. e[1] \in O!Kinds /\ e[2] \in DOMAIN m[e[1]]  BY <2>1, ShownAre
  <2> QED  BY <2>2, WidthIsPositive DEF WidthIn
<1> HIDE DEF sum, w, S
<1>6. SumsUp(w, S, sum)  BY <1>2, <1>3, <1>5, SumOfMore
<1> QED  BY <1>4, <1>6 DEF w, S

\* Giving out the columns lays everything out.
LEMMA SeenLaysOut ==
    ASSUME NEW m, IsSlotted(m), O!AllToolsSeen(m, combined')
    PROVE  IsSlotted(known') /\ numToolColsUsed' \in 0..MaxSlots /\ LaidOut'
<1> DEFINE n == numToolColsUsed'
           S == ShownIn(m)
           ws == WidthsIn(m, combined')
<1>1. PICK it : /\ SumsUp(WidthsIn(known', combined'), ShownIn(known'), it)
                /\ WidthsOfAll(known', combined', ShownIn(known')) = it[ShownIn(known')]
  <2>1. PICK it0 : SumsUp(WidthsIn(m, combined'), ShownIn(m), it0)  BY AllWidthsAreSummed
  <2>2. Placed(m, combined', it0, known', n, ShownIn(m))  BY <2>1, AllArePlaced
  <2>3. IsSlotted(known')  BY <2>2 DEF Placed
  <2> QED  BY <2>3, AllWidthsAreSummed
<1>2. Shows(m, known')
  <2>1. IsLists(m)  BY DEF IsSlotted, HasSlots, IsLists
  <2> QED  BY <2>1, AllToolsSeenShows
<1>3. ShownIn(known') = ShownIn(m)  BY <1>2, ShownAre
<1>4. WidthsIn(known', combined') = WidthsIn(m, combined')
  <2>1. ASSUME NEW e \in ShownIn(m) PROVE WidthIn(known', combined', e) = WidthIn(m, combined', e)
    <3>1. known'[e[1]][e[2]].heaters = m[e[1]][e[2]].heaters  BY <1>2, ShownAre
    <3> QED  BY <3>1 DEF WidthIn, O!Width
  <2> QED  BY <1>3, <2>1 DEF WidthsIn
<1>5. Placed(m, combined', it, known', n, S)  BY <1>1, <1>3, <1>4, AllArePlaced
<1> HIDE DEF n, S
<1>6. /\ IsSlotted(known') /\ n = O!AtMost(it[S])
      /\ \A c \in Nat : c < n => \E e \in S : c \in ColumnsIn(known', combined', e)
      /\ \A e \in S : \A c \in ColumnsIn(known', combined', e) : c \in Nat /\ c < n
      /\ it[S] <= MaxSlots =>
            \A e, f \in S : e # f =>
               ColumnsIn(known', combined', e) \cap ColumnsIn(known', combined', f) = {}
  BY <1>5 DEF Placed
<1>7. it[S] \in Nat  BY <1>1, <1>3 DEF SumsUp, S
<1>8. n \in Nat /\ n <= MaxSlots  BY <1>6, <1>7, AtMostIs
<1>9. UNION {ColumnsIn(known', combined', e) : e \in S} = 0..(n - 1)
  BY <1>6, <1>8
<1>10. LaidOut'
  <2>1. ShownIn(known') = S /\ WidthsOfAll(known', combined', ShownIn(known')) = it[S]
    BY <1>1, <1>3 DEF S
  <2> QED  BY <1>6, <1>9, <2>1 DEF LaidOut, n
<1>11. n \in 0..MaxSlots  BY <1>8, PartsAssumption
<1> QED  BY <1>6, <1>10, <1>11 DEF n

\* The same where the columns are given out only after the start.
LEMMA SeenColumns ==
    ASSUME ColumnsInv, NEW m, IsSlotted(m), O!SeenIfInitialized(m), UNCHANGED <<combined, initialized>>
    PROVE  ColumnsInv'
<1>1. CASE initialized
  <2>1. O!AllToolsSeen(m, combined')  BY <1>1 DEF O!SeenIfInitialized
  <2> QED  BY <2>1, SeenLaysOut DEF ColumnsInv
<1>2. CASE ~initialized
  <2>1. known' = m /\ numToolColsUsed' = numToolColsUsed  BY <1>2 DEF O!SeenIfInitialized
  <2> QED  BY <1>2, <2>1 DEF ColumnsInv
<1> QED  BY <1>1, <1>2

-----------------------------------------------------------------------------
(* The lists keep their shape.                                              *)

LEMMA SlotsCreated ==
    ASSUME NEW k \in O!Kinds, NEW list, HasSlots(k, list), NEW i \in O!Indices[k]
    PROVE  HasSlots(k, O!GetOrCreate(list, i))
<1>1. IsList(k, O!GetOrCreate(list, i))  BY GetOrCreateIsList DEF HasSlots
<1>2. CASE O!GetOrCreate(list, i) = list  BY <1>2
<1>3. CASE O!GetOrCreate(list, i) # list
  <2> DEFINE new == [heaters |-> 0, slot |-> MaxSlots]
  <2>1. O!GetOrCreate(list, i) = [j \in DOMAIN list \cup {i} |-> IF j = i THEN new ELSE list[j]]
    BY <1>3 DEF O!GetOrCreate
  <2>2. DOMAIN new = {"heaters", "slot"} /\ new.heaters = 0 /\ new.slot = MaxSlots
    OBVIOUS
  <2> HIDE DEF new
  <2> QED  BY <1>1, <2>1, <2>2, PartsAssumption DEF HasSlots
<1> QED  BY <1>2, <1>3

LEMMA SlotsWithout ==
    ASSUME NEW k \in O!Kinds, NEW list, HasSlots(k, list), NEW S
    PROVE  HasSlots(k, O!Without(list, S))
<1>1. /\ IsList(k, O!Without(list, S)) /\ DOMAIN O!Without(list, S) = DOMAIN list \ S
      /\ \A j \in DOMAIN list \ S : O!Without(list, S)[j] = list[j]
  <2>1. IsList(k, list)  BY DEF HasSlots
  <2> QED  BY <2>1 DEF IsList, O!Without
<1> QED  BY <1>1 DEF HasSlots

LEMMA SlotsOfHeaters ==
    ASSUME NEW k \in O!Kinds, NEW list, HasSlots(k, list), NEW i \in DOMAIN list,
           NEW n \in Nat, k # "tool" => n \in {0, 1}
    PROVE  HasSlots(k, [list EXCEPT ![i].heaters = n])
<1> DEFINE was == list[i]
           is == [was EXCEPT !.heaters = n]
           set == [list EXCEPT ![i].heaters = n]
<1>1. /\ IsList(k, set) /\ DOMAIN set = DOMAIN list
      /\ \A j \in DOMAIN list \ {i} : set[j] = list[j]
  BY HeatersAreSet DEF HasSlots
<1>2. DOMAIN was = {"heaters", "slot"} /\ was.slot \in Nat  BY DEF HasSlots
<1>3. set[i] = is  OBVIOUS
<1> HIDE DEF was, set
<1>4. DOMAIN is = {"heaters", "slot"} /\ is.heaters = n /\ is.slot = was.slot  BY <1>2
<1> HIDE DEF is
<1> QED  BY <1>1, <1>2, <1>3, <1>4 DEF HasSlots, set

LEMMA SlotsOfKind ==
    ASSUME NEW m, IsSlotted(m), NEW k \in O!Kinds, NEW list, HasSlots(k, list)
    PROVE  IsSlotted([m EXCEPT ![k] = list])
BY DEF IsSlotted

LEMMA ColumnsInit == PartsInit => ColumnsInv
<1> SUFFICES ASSUME PartsInit PROVE ColumnsInv
  OBVIOUS
<1>1. /\ known = [k \in O!Kinds |-> O!Nothing] /\ initialized = FALSE /\ numToolColsUsed = 0
  BY DEF PartsInit, O!OMInit
<1>2. IsSlotted(known)  BY <1>1 DEF IsSlotted, HasSlots, IsList, O!Nothing
<1>3. numToolColsUsed \in 0..MaxSlots  BY <1>1, PartsAssumption
<1> QED  BY <1>1, <1>2, <1>3 DEF ColumnsInv

-----------------------------------------------------------------------------
(* What each step does to the columns.                                      *)

\* A step that changes the lists but while an answer tells of something.
LEMMA ColumnsDisturbed ==
    ASSUME ColumnsInv, IsSlotted(known'), UNCHANGED numToolColsUsed,
           answer' # O!NoAnswer, answer'.kind # "tool" \/ DOMAIN answer'.of.tool # {}
    PROVE  ColumnsInv'
BY Zenon DEF ColumnsInv, Undisturbed

LEMMA KeyColumns ==
    ASSUME ColumnsInv, O!HeatKey \/ O!ToolsKey
    PROVE  ColumnsInv'
<1>1. /\ answer = O!NoAnswer
      /\ UNCHANGED <<known, combined, initialized, numToolColsUsed, told>>
  BY DEF O!HeatKey, O!ToolsKey, O!Key
<1>2. Undisturbed  BY <1>1 DEF Undisturbed
<1>3. LaidOut => LaidOut'  BY <1>1 DEF LaidOut
<1> QED  BY <1>1, <1>2, <1>3 DEF ColumnsInv

LEMMA HeaterColumns ==
    ASSUME ListsInv, ColumnsInv, O!ReceiveHeater
    PROVE  ColumnsInv'
<1> DEFINE k == answer.kind
           of == answer.of[k]
           left == answer.left
           i == Head(left)
           list == O!GetOrCreate(known[k], i)
           set == IF i \in DOMAIN list THEN [list EXCEPT ![i].heaters = 1] ELSE list
           new == O!Without(set, (last[k] + 1)..(i - 1))
<1>1. /\ answer # O!NoAnswer /\ left # <<>> /\ k # "tool"
      /\ known' = [known EXCEPT ![k] = new]
      /\ answer' = [answer EXCEPT !.left = Tail(left),
                                  !.full = answer.full \/ i \notin DOMAIN list]
      /\ numToolColsUsed' = numToolColsUsed
  BY DEF O!ReceiveHeater, O!Coming, O!RemoveGap, O!Refused
<1>2. /\ k \in O!Kinds /\ Listing(k, left, of, answer.of, answer.part, answer.full)
      /\ last[k] \in Nat \cup {-1} /\ DOMAIN of \in SUBSET Nat /\ DOMAIN of \subseteq O!Indices[k]
      /\ answer = [kind |-> k, left |-> left, of |-> answer.of, part |-> answer.part,
                   full |-> answer.full]
  BY <1>1, Receiving
<1>3. i \in O!Indices[k]
  <2>1. IsLeft(left, last[k], of)  BY <1>2 DEF Listing
  <2> HIDE DEF k, left, of
  <2> QED  BY <1>1, <1>2, <2>1, LeftNext
<1>4. answer'.kind = k /\ answer' # O!NoAnswer
  <2> DEFINE at == answer.part
             whole == answer.of
             was == answer.full
             full == answer.full \/ i \notin DOMAIN list
  <2>1. /\ answer = [kind |-> k, left |-> left, of |-> whole, part |-> at, full |-> was]
        /\ answer' = [answer EXCEPT !.left = Tail(left), !.full = full]
    BY <1>1, <1>2
  <2> HIDE DEF k, left, at, whole, was, full
  <2>2. answer' = [kind |-> k, left |-> Tail(left), of |-> whole, part |-> at, full |-> full]
    BY <2>1
  <2> QED  BY <2>2 DEF O!NoAnswer
<1> HIDE DEF k, i
<1>5. HasSlots(k, list)  BY <1>2, <1>3, SlotsCreated DEF ColumnsInv, IsSlotted
<1> HIDE DEF list
<1>6. HasSlots(k, set)  BY <1>2, <1>5, SlotsOfHeaters
<1> HIDE DEF set
<1>7. HasSlots(k, new)  BY <1>2, <1>6, SlotsWithout
<1> HIDE DEF new
<1>8. IsSlotted(known')  BY <1>1, <1>2, <1>7, SlotsOfKind DEF ColumnsInv
<1> QED  BY <1>1, <1>4, <1>8, ColumnsDisturbed

LEMMA ToolColumns ==
    ASSUME ListsInv, ColumnsInv, O!ReceiveTool
    PROVE  ColumnsInv'
<1> DEFINE of == answer.of.tool
           left == answer.left
           i == Head(left)
           list == O!GetOrCreate(known.tool, i)
           set == [list EXCEPT ![i].heaters = of[i]]
           m == [known EXCEPT !.tool = set]
           full == answer.full \/ i \notin DOMAIN list
           whole == answer.of
           was == answer.full
<1>1. /\ answer # O!NoAnswer /\ answer.part = "element" /\ left # <<>> /\ answer.kind = "tool"
      /\ IF i \in DOMAIN list
         THEN \/ O!SeenIfInitialized(m)
              \/ known' = m /\ numToolColsUsed' = numToolColsUsed
         ELSE known' = known /\ numToolColsUsed' = numToolColsUsed
      /\ answer' = [answer EXCEPT !.part = "number", !.full = full]
      /\ UNCHANGED <<combined, initialized>>
  BY DEF O!ReceiveTool, O!Coming, O!Refused
<1>2. /\ answer = [kind |-> "tool", left |-> left, of |-> whole, part |-> "element", full |-> was]
      /\ Listing("tool", left, of, whole, "element", was)
      /\ last.tool \in Nat \cup {-1}
      /\ DOMAIN of \in SUBSET Nat /\ DOMAIN of \subseteq O!Indices.tool
      /\ \A j \in DOMAIN of : of[j] \in O!Counts("tool")
  BY <1>1, Receiving
<1>3. i \in DOMAIN of /\ i \in O!Indices.tool
  <2>1. IsLeft(left, last.tool, of)  BY <1>2 DEF Listing
  <2> HIDE DEF left, of
  <2> QED  BY <1>1, <1>2, <2>1, LeftNext
<1>4. of[i] \in Nat  BY <1>2, <1>3, IndexAssumption DEF O!Counts
<1>5. answer'.kind = "tool" /\ answer'.of = whole /\ answer' # O!NoAnswer
  <2> HIDE DEF left, whole, was, full
  <2>1. answer' = [kind |-> "tool", left |-> left, of |-> whole, part |-> "number", full |-> full]
    BY <1>1, <1>2
  <2> QED  BY <2>1 DEF O!NoAnswer
<1>6. answer' # O!NoAnswer /\ DOMAIN answer'.of.tool # {}  BY <1>3, <1>5
<1> HIDE DEF of, i
<1>7. HasSlots("tool", list)
  BY <1>3, KindsAre, SlotsCreated DEF ColumnsInv, IsSlotted
<1> HIDE DEF list
<1>8. ASSUME i \in DOMAIN list PROVE IsSlotted(m)
  <2>1. HasSlots("tool", set)  BY <1>4, <1>7, <1>8, KindsAre, SlotsOfHeaters
  <2> HIDE DEF set
  <2> QED  BY <2>1, KindsAre, SlotsOfKind DEF ColumnsInv
<1> HIDE DEF m
<1>9. CASE i \in DOMAIN list /\ O!SeenIfInitialized(m)  BY <1>1, <1>8, <1>9, SeenColumns
<1>10. CASE i \in DOMAIN list /\ known' = m /\ numToolColsUsed' = numToolColsUsed
  BY <1>6, <1>8, <1>10, ColumnsDisturbed
<1>11. CASE known' = known /\ numToolColsUsed' = numToolColsUsed
  BY <1>6, <1>11, ColumnsDisturbed DEF ColumnsInv
<1> QED  BY <1>1, <1>9, <1>10, <1>11

LEMMA NumberColumns ==
    ASSUME ListsInv, ColumnsInv, O!ReceiveNumber
    PROVE  ColumnsInv'
<1> DEFINE of == answer.of.tool
           left == answer.left
           i == Head(left)
           list == O!Without(known.tool, (last.tool + 1)..(i - 1))
           room == O!GetOrCreate(list, i)
           set == [room EXCEPT ![i].heaters = of[i]]
           new == IF i \in DOMAIN room THEN set ELSE room
           whole == answer.of
           full == answer.full
           k == answer.kind
<1>1. /\ answer # O!NoAnswer /\ answer.part = "number" /\ left # <<>>
      /\ known' = [known EXCEPT !.tool = new] /\ numToolColsUsed' = numToolColsUsed
      /\ answer' = [answer EXCEPT !.left = Tail(left), !.part = "element"]
  BY DEF O!ReceiveNumber, O!Coming, O!RemoveGap
<1>2. /\ answer = [kind |-> k, left |-> left, of |-> whole, part |-> "number", full |-> full]
      /\ Listing(k, left, whole[k], whole, answer.part, full)
  BY <1>1, Receiving
<1>3. k = "tool"  BY <1>1, <1>2 DEF Listing
<1>4. /\ last.tool \in Nat \cup {-1}
      /\ DOMAIN of \in SUBSET Nat /\ DOMAIN of \subseteq O!Indices.tool
      /\ \A j \in DOMAIN of : of[j] \in O!Counts("tool")
  BY <1>1, <1>3, Receiving
<1>5. i \in DOMAIN of /\ i \in O!Indices.tool
  <2>1. IsLeft(left, last.tool, of)  BY <1>2, <1>3 DEF Listing
  <2> HIDE DEF left, of
  <2> QED  BY <1>1, <1>4, <2>1, LeftNext
<1>6. answer'.kind = "tool" /\ answer'.of = whole /\ answer' # O!NoAnswer
  <2>1. answer = [kind |-> "tool", left |-> left, of |-> whole, part |-> "number", full |-> full]
    BY <1>2, <1>3
  <2> HIDE DEF left, whole, full
  <2>2. answer' = [kind |-> "tool", left |-> Tail(left), of |-> whole, part |-> "element",
                   full |-> full]
    BY <1>1, <2>1
  <2> QED  BY <2>2 DEF O!NoAnswer
<1>7. DOMAIN answer'.of.tool # {}  BY <1>5, <1>6
<1> HIDE DEF of, i
<1>8. HasSlots("tool", list)  BY KindsAre, SlotsWithout DEF ColumnsInv, IsSlotted
<1> HIDE DEF list
<1>9. HasSlots("tool", new)
  <2>1. HasSlots("tool", room)  BY <1>5, <1>8, KindsAre, SlotsCreated
  <2>2. of[i] \in Nat  BY <1>4, <1>5, IndexAssumption DEF O!Counts
  <2> HIDE DEF room
  <2>3. i \in DOMAIN room => HasSlots("tool", set)  BY <2>1, <2>2, KindsAre, SlotsOfHeaters
  <2> HIDE DEF set
  <2> QED  BY <2>1, <2>3
<1> HIDE DEF new
<1>10. IsSlotted(known')  BY <1>1, <1>9, KindsAre, SlotsOfKind DEF ColumnsInv
<1> QED  BY <1>1, <1>6, <1>7, <1>10, ColumnsDisturbed

LEMMA ArrayEndColumns ==
    ASSUME ListsInv, ColumnsInv, O!ArrayEnd
    PROVE  ColumnsInv'
<1> DEFINE k == answer.kind
           list == O!Without(known[k], {i \in DOMAIN known[k] : i >= last[k] + 1})
           m == [known EXCEPT ![k] = list]
<1>1. /\ answer # O!NoAnswer /\ UNCHANGED <<combined, initialized>>
      /\ \/ /\ DOMAIN answer.of[k] = {} /\ k = "tool" /\ answer' = O!NoAnswer
            /\ UNCHANGED <<known, numToolColsUsed, told>>
         \/ O!SeenIfInitialized(m)
  BY DEF O!ArrayEnd, O!RemoveRest
<1>2. k \in O!Kinds  BY <1>1, Receiving
<1>3. CASE O!SeenIfInitialized(m)
  <2> HIDE DEF k
  <2>1. HasSlots(k, list)  BY <1>2, SlotsWithout DEF ColumnsInv, IsSlotted
  <2> HIDE DEF list
  <2>2. IsSlotted(m)  BY <1>2, <2>1, SlotsOfKind DEF ColumnsInv
  <2> HIDE DEF m
  <2> QED  BY <1>1, <1>3, <2>2, SeenColumns
<1>4. CASE /\ DOMAIN answer.of[k] = {} /\ k = "tool"
           /\ UNCHANGED <<known, numToolColsUsed, told>>
  <2>1. Undisturbed  BY <1>4 DEF Undisturbed
  <2>2. LaidOut => LaidOut'  BY <1>1, <1>4 DEF LaidOut
  <2> QED  BY <1>1, <1>4, <2>1, <2>2 DEF ColumnsInv
<1> QED  BY <1>1, <1>3, <1>4

LEMMA CutOffColumns ==
    ASSUME ListsInv, ColumnsInv, O!AnswerIsCutOff
    PROVE  ColumnsInv'
<1>1. /\ answer # O!NoAnswer /\ UNCHANGED <<known, numToolColsUsed>>
      /\ told' = [told EXCEPT ![answer.kind] = O!NotTold]
  BY DEF O!AnswerIsCutOff
<1>2. answer.kind \in O!Kinds  BY <1>1, Receiving
<1>3. told'[answer.kind] = O!NotTold  BY <1>1, <1>2 DEF ListsInv
<1> QED  BY <1>1, <1>2, <1>3 DEF ColumnsInv

LEMMA ColumnsNext == ListsInv /\ ColumnsInv /\ [PartsNext]_partsVars => ColumnsInv'
<1> SUFFICES ASSUME ListsInv, ColumnsInv, [PartsNext]_partsVars PROVE ColumnsInv'
  OBVIOUS
<1>1. CASE O!OMNext
  <2>1. CASE O!HeatKey \/ O!ToolsKey  BY <2>1, KeyColumns
  <2>2. CASE O!ReceiveHeater  BY <2>2, HeaterColumns
  <2>3. CASE O!ReceiveTool  BY <2>3, ToolColumns
  <2>4. CASE O!ReceiveNumber  BY <2>4, NumberColumns
  <2>5. CASE O!ArrayEnd  BY <2>5, ArrayEndColumns
  <2>6. CASE O!AnswerIsCutOff  BY <2>6, CutOffColumns
  <2>7. CASE O!Initialize \/ O!ChangeHeaterCombineType
    <3>1. IsSlotted(known)  BY DEF ColumnsInv
    <3>2. O!AllToolsSeen(known, combined')
      BY <2>7 DEF O!Initialize, O!ChangeHeaterCombineType
    <3> QED  BY <3>1, <3>2, SeenLaysOut DEF ColumnsInv
  <2> QED
    BY <1>1, <2>1, <2>2, <2>3, <2>4, <2>5, <2>6, <2>7, Zenon DEF O!OMNext
<1>2. CASE UNCHANGED omVars
  BY <1>2 DEF ColumnsInv, LaidOut, Undisturbed, omVars
<1> QED
  BY <1>1, <1>2, Zenon DEF PartsNext, Previews, Objects, Setup, Log, Fields, partsVars

\* Whatever the printer tells of and however much of it is lost, once no answer is under way
\* and none was damaged that was not asked for again, the columns in use are those of the
\* beds, tools and chambers known, without a hole, never beyond the last one, and shared by
\* no two as long as there are enough (src/UI/UserInterface.cpp:5172, AllToolsSeen).
THEOREM ColumnsAreAlwaysOfElements == PartsSpec => []ColumnsAreOfElements
<1>1. ColumnsInv => ColumnsAreOfElements
  <2> SUFFICES ASSUME ColumnsInv PROVE O!ColumnsAreOfElements
    BY DEF ColumnsAreOfElements
  <2>1. numToolColsUsed <= MaxSlots  BY PartsAssumption DEF ColumnsInv
  <2>2. O!Shown = ShownIn(known)
    <3>1. \A e : e \in O!Shown <=> \E k \in O!Kinds : \E i \in DOMAIN known[k] : e = <<k, i>>
      BY DEF O!Shown, O!Elements
    <3>2. \A e : e \in ShownIn(known) <=> \E k \in O!Kinds : \E i \in DOMAIN known[k] : e = <<k, i>>
      BY DEF ShownIn, O!Kinds
    <3> QED  BY <3>1, <3>2
  <2>3. \A e : O!Columns(e) = ColumnsIn(known, combined, e)
    BY DEF O!Columns, ColumnsIn, WidthIn
  <2>4. ASSUME O!Settled PROVE LaidOut
    BY <2>4 DEF O!Settled, ColumnsInv, Undisturbed
  <2>5. O!MapThenSumSet(LAMBDA e : O!Width(known[e[1]][e[2]], combined), O!Shown)
          = WidthsOfAll(known, combined, ShownIn(known))
    BY <2>2 DEF WidthsOfAll, WidthIn
  <2> QED  BY <2>1, <2>2, <2>3, <2>4, <2>5, Zenon DEF O!ColumnsAreOfElements, LaidOut
<1>2. PartsSpec => [](ListsInv /\ ColumnsInv)
  <2>1. PartsInit => ListsInv /\ ColumnsInv  BY ListsInit, ColumnsInit
  <2>2. ListsInv /\ ColumnsInv /\ [PartsNext]_partsVars => (ListsInv /\ ColumnsInv)'
    BY ListsNext, ColumnsNext
  <2> QED  BY <2>1, <2>2, PTL DEF PartsSpec
<1> QED  BY <1>1, <1>2, PTL

-----------------------------------------------------------------------------
(* The columns of the temperature fields.                                   *)

WidthOf(tools) == [u \in DOMAIN tools |-> A!Width(u, tools)]

WidthsOf(tools, S) == A!MapThenSumSet(LAMBDA u : A!Width(u, tools), S)

LEMMA WidthsAreSummed ==
    ASSUME NEW tools, IsFiniteSet(DOMAIN tools), NEW S \in SUBSET DOMAIN tools,
           NEW it, IsSum(WidthOf(tools), DOMAIN tools, it)
    PROVE  WidthsOf(tools, S) = it[S]
<1> DEFINE w == WidthOf(tools)
           Sums(g) == g = [s \in SUBSET S |->
                              IF s = {} THEN 0
                              ELSE A!Width(CHOOSE x \in s : TRUE, tools)
                                       + g[s \ {CHOOSE x \in s : TRUE}]]
           sum == CHOOSE g : Sums(g)
<1>1. \A g : Sums(g) <=> IsSum(w, S, g)
  <2>1. \A s \in SUBSET S : s # {} => w[Any(s)] = A!Width(CHOOSE x \in s : TRUE, tools)
    BY DEF Any, WidthOf
  <2> HIDE DEF w
  <2> SUFFICES ASSUME NEW g PROVE Sums(g) <=> IsSum(w, S, g)
    OBVIOUS
  <2> DEFINE E1(s) == IF s = {} THEN 0
                      ELSE A!Width(CHOOSE x \in s : TRUE, tools) + g[s \ {CHOOSE x \in s : TRUE}]
             E2(s) == IF s = {} THEN 0 ELSE w[Any(s)] + g[s \ {Any(s)}]
  <2>2. \A s \in SUBSET S : E1(s) = E2(s)  BY <2>1 DEF Any
  <2>3. [s \in SUBSET S |-> E1(s)] = [s \in SUBSET S |-> E2(s)]
    <3> HIDE DEF E1, E2
    <3> QED  BY <2>2
  <2> QED  BY <2>3 DEF IsSum
<1>2. IsFiniteSet(S)  BY FS_Subset
<1>3. IsSum(w, S, sum)
  <2>1. \E g : Sums(g)
    <3> HIDE DEF Sums, w
    <3> QED  BY <1>1, <1>2, SumExists
  <2>2. Sums(sum)
    <3> HIDE DEF Sums
    <3> QED  BY <2>1
  <2> HIDE DEF sum
  <2> QED  BY <1>1, <2>2
<1>4. WidthsOf(tools, S) = sum[S]
  BY DEF WidthsOf, A!MapThenSumSet, A!MapThenFoldSet
<1> HIDE DEF sum
<1>5. sum[S] = it[S]  BY <1>3, SumIsOne
<1> QED  BY <1>4, <1>5

LEMMA CardinalityIsOne == \A S : A!Cardinality(S) = Cardinality(S)
BY DEF A!Cardinality, Cardinality

LEMMA LargerOfTwo ==
    ASSUME NEW x \in Nat
    PROVE  A!Max({1, x}) \in {1, x} /\ A!Max({1, x}) \in Nat \ {0}
<1>1. \E m \in {1, x} : \A k \in {1, x} : m >= k
  <2>1. CASE x >= 1  BY <2>1
  <2>2. CASE ~(x >= 1)  BY <2>2
  <2> QED  BY <2>1, <2>2
<1>2. A!Max({1, x}) \in {1, x} /\ A!Max({1, x}) >= 1
  BY <1>1 DEF A!Max
<1> QED  BY <1>2

\* The tools whose temperatures are known.
IsTemps(tools) ==
    /\ DOMAIN tools \subseteq FieldTools
    /\ \A t \in DOMAIN tools : DOMAIN tools[t] \subseteq 0..(MaxHeaters - 1)

\* Of a tool every column but the first is one of its heaters'.
LEMMA WidthIs ==
    ASSUME NEW tools, IsTemps(tools), NEW t \in DOMAIN tools
    PROVE  /\ A!Width(t, tools) \in Nat \ {0}
           /\ \A h \in Nat : ~oneColumn /\ h < A!Width(t, tools) =>
                  h = 0 \/ 0..h \subseteq DOMAIN tools[t]
<1> DEFINE H == A!Heaters(tools[t])
           n == Cardinality(H)
<1>1. H \subseteq 0..(MaxHeaters - 1)  BY DEF A!Heaters, IsTemps
<1>2. IsFiniteSet(H) /\ n \in Nat
  <2>1. 0 \in Int /\ MaxHeaters - 1 \in Int  BY FieldAssumption
  <2>2. IsFiniteSet(0..(MaxHeaters - 1))  BY <2>1, FS_Interval
  <2> QED  BY <1>1, <2>2, FS_Subset, FS_CardinalityType
<1>3. A!Width(t, tools) = IF oneColumn THEN 1 ELSE A!Max({1, n})
  BY CardinalityIsOne DEF A!Width
<1>4. A!Width(t, tools) \in {1, n} /\ A!Width(t, tools) \in Nat \ {0}
  <2> HIDE DEF n
  <2> QED  BY <1>2, <1>3, LargerOfTwo
<1>5. ASSUME NEW h \in Nat, h < n PROVE h \in H
  <2> SUFFICES ASSUME h \notin H PROVE FALSE
    OBVIOUS
  <2>1. H \subseteq 0..(h - 1)
    <3> SUFFICES ASSUME NEW k \in H, k >= h PROVE FALSE
      BY <1>1
    <3>1. k \in Nat /\ 0..k \subseteq DOMAIN tools[t]  BY <1>1 DEF A!Heaters
    <3>2. h \in 0..k /\ 0..h \subseteq 0..k  BY <3>1
    <3> QED  BY <3>1, <3>2 DEF A!Heaters
  <2>2. IsFiniteSet(0..(h - 1)) /\ Cardinality(0..(h - 1)) = h
    <3>1. 0 \in Int /\ h - 1 \in Int  OBVIOUS
    <3>2. /\ IsFiniteSet(0..(h - 1))
          /\ Cardinality(0..(h - 1)) = IF 0 > h - 1 THEN 0 ELSE (h - 1) - 0 + 1
      BY <3>1, FS_Interval
    <3> QED  BY <3>2
  <2>3. n <= h  BY <2>1, <2>2, FS_Subset
  <2> HIDE DEF n
  <2> QED  BY <1>2, <1>5, <2>3
<1>6. ASSUME NEW h \in Nat, ~oneColumn, h < A!Width(t, tools)
      PROVE  h = 0 \/ 0..h \subseteq DOMAIN tools[t]
  <2>1. CASE A!Width(t, tools) = 1  BY <1>6, <2>1
  <2>2. CASE A!Width(t, tools) = n
    <3>1. h \in H  BY <1>5, <1>6, <2>2
    <3> QED  BY <3>1 DEF A!Heaters
  <2> QED  BY <1>4, <2>1, <2>2
<1> QED  BY <1>4, <1>6

\* The columns of a tool begin where those of the tool before it end.
LEMMA BeforeIs ==
    ASSUME NEW tools, IsTemps(tools)
    PROVE  /\ \A t \in DOMAIN tools : A!Before(t, tools) \in Nat \ {0}
           /\ \A t \in DOMAIN tools :
                 (\A u \in DOMAIN tools : ~(u < t)) => A!Before(t, tools) = 1
           /\ \A t, u \in DOMAIN tools :
                 u < t /\ (\A v \in DOMAIN tools : ~(u < v /\ v < t)) =>
                     A!Before(t, tools) = A!Before(u, tools) + A!Width(u, tools)
<1> DEFINE D == DOMAIN tools
           w == WidthOf(tools)
           Less(t) == {u \in D : u < t}
<1>1. D \in SUBSET Nat /\ IsFiniteSet(D)
  <2>1. D \in SUBSET FieldTools  BY DEF IsTemps
  <2> QED  BY <2>1, FieldAssumption, FS_Subset
<1>2. \A u \in D : w[u] = A!Width(u, tools) /\ w[u] \in Nat
  BY WidthIs DEF WidthOf
<1> HIDE DEF w
<1>3. PICK it : IsSum(w, D, it)  BY <1>1, SumExists
<1>4. /\ it[{}] = 0 /\ \A s \in SUBSET D : it[s] \in Nat
      /\ \A s \in SUBSET D : \A x \in D \ s : it[s \cup {x}] = it[s] + w[x]
  <2>1. IsFiniteSet(D) /\ \A x \in D : w[x] \in Nat  BY <1>1, <1>2
  <2>2. SumsUp(w, D, it)
    <3> HIDE DEF D
    <3> QED  BY <1>3, <2>1, SumOfMore
  <2> QED  BY <2>2, Zenon DEF SumsUp
<1>5. ASSUME NEW t \in D PROVE A!Before(t, tools) = 1 + it[Less(t)]
  <2>1. A!Before(t, tools) = 1 + WidthsOf(tools, Less(t))
    BY DEF A!Before, WidthsOf
  <2>2. WidthsOf(tools, Less(t)) = it[Less(t)]
    BY <1>1, <1>3, WidthsAreSummed DEF w
  <2> QED  BY <2>1, <2>2
<1>6. ASSUME NEW t \in D PROVE A!Before(t, tools) \in Nat \ {0}
  <2>1. it[Less(t)] \in Nat  BY <1>4
  <2> HIDE DEF Less
  <2> QED  BY <1>5, <2>1
<1>7. ASSUME NEW t \in D, \A u \in D : ~(u < t) PROVE A!Before(t, tools) = 1
  <2>1. Less(t) = {}  BY <1>7
  <2>2. it[Less(t)] = 0  BY <1>4, <2>1
  <2> HIDE DEF Less
  <2> QED  BY <1>5, <2>2
<1>8. ASSUME NEW t \in D, NEW u \in D, u < t, \A v \in D : ~(u < v /\ v < t)
      PROVE  A!Before(t, tools) = A!Before(u, tools) + A!Width(u, tools)
  <2>1. Less(t) = Less(u) \cup {u} /\ u \notin Less(u)
    <3>1. ASSUME NEW v \in D PROVE v < t <=> v < u \/ v = u
      <4>1. v \in Nat /\ u \in Nat /\ t \in Nat  BY <1>1
      <4> QED  BY <1>8, <4>1
    <3>2. ~(u < u)  BY <1>1
    <3> QED  BY <3>1, <3>2
  <2>2. it[Less(t)] = it[Less(u)] + w[u] /\ it[Less(u)] \in Nat /\ w[u] \in Nat
    <3>1. Less(u) \in SUBSET D /\ u \in D \ Less(u)  BY <2>1
    <3> HIDE DEF Less
    <3> QED  BY <1>2, <1>4, <2>1, <3>1
  <2> HIDE DEF Less
  <2> QED  BY <1>2, <1>5, <2>2
<1> QED  BY <1>6, <1>7, <1>8

LEMMA LargestOfFinite ==
    ASSUME NEW S \in SUBSET Nat, IsFiniteSet(S), S # {}
    PROVE  \E m \in S : \A k \in S : m >= k
<1> DEFINE n == Cardinality(S)
           o == O!Order(S)
<1>1. /\ n \in Nat /\ o \in [1..n -> S] /\ Ascending(o)
      /\ \A x \in S : \E i \in 1..n : x = o[i]
  BY OrderIsOf
<1>2. n # 0  BY FS_EmptySet
<1> HIDE DEF n, o
<1>3. o[n] \in S  BY <1>1, <1>2
<1>4. ASSUME NEW k \in S PROVE o[n] >= k
  <2>1. PICK i \in 1..n : k = o[i]  BY <1>1
  <2>2. CASE i = n  BY <1>3, <2>1, <2>2
  <2>3. CASE i # n
    <3>1. i < n /\ n \in 1..n  BY <1>1, <2>3
    <3>2. o[i] < o[n]  BY <1>1, <3>1 DEF Ascending
    <3>3. o[n] \in Nat /\ k \in Nat  BY <1>3
    <3> QED  BY <2>1, <3>2, <3>3
  <2> QED  BY <2>2, <2>3
<1> QED  BY <1>3, <1>4

LEMMA AfterIs ==
    ASSUME NEW tools, IsTemps(tools)
    PROVE  /\ A!After(tools) \in Nat \ {0}
           /\ \/ A!After(tools) = 1
              \/ \E t \in A!Seen(tools) :
                    A!After(tools) = A!Before(t, tools) + A!Width(t, tools)
           /\ A!Min({A!After(tools), FieldSlots}) \in 1..FieldSlots
           /\ A!Min({A!After(tools), FieldSlots}) <= A!After(tools)
<1> DEFINE E(t) == A!Before(t, tools) + A!Width(t, tools)
           Ends == A!Seen(tools)
           R == {E(t) : t \in Ends}
<1>1. Ends \subseteq DOMAIN tools  BY DEF A!Seen
<1>2. IsFiniteSet(Ends)
  <2>1. Ends \in SUBSET FieldTools  BY <1>1 DEF IsTemps
  <2> QED  BY <2>1, FieldAssumption, FS_Subset
<1>3. \A t \in Ends : E(t) \in Nat \ {0}
  <2> SUFFICES ASSUME NEW t \in Ends PROVE E(t) \in Nat \ {0}
    OBVIOUS
  <2>1. A!Before(t, tools) \in Nat \ {0} /\ A!Width(t, tools) \in Nat \ {0}
    BY <1>1, BeforeIs, WidthIs
  <2> QED  BY <2>1
<1> HIDE DEF E, Ends
<1>4. IsFiniteSet(R)
  <2> DEFINE f == [t \in Ends |-> E(t)]
  <2>1. f \in Surjection(Ends, R)  BY DEF Surjection
  <2> HIDE DEF f, R
  <2> QED  BY <1>2, <2>1, FS_Surjection
<1>5. /\ {1} \cup R \in SUBSET Nat /\ IsFiniteSet({1} \cup R) /\ {1} \cup R # {}
      /\ 0 \notin {1} \cup R
  <2>1. IsFiniteSet(R \cup {1})  BY <1>4, FS_AddElement
  <2> QED  BY <1>3, <2>1
<1>6. A!After(tools) \in {1} \cup R
  <2>1. \E m \in {1} \cup R : \A k \in {1} \cup R : m >= k
    <3> HIDE DEF R
    <3> QED  BY <1>5, LargestOfFinite
  <2>2. A!After(tools) = A!Max({1} \cup R)  BY DEF A!After, E, Ends
  <2> HIDE DEF R
  <2> QED  BY <2>1, <2>2 DEF A!Max
<1>7. /\ A!Min({A!After(tools), FieldSlots}) \in {A!After(tools), FieldSlots}
      /\ A!Min({A!After(tools), FieldSlots}) <= A!After(tools)
      /\ A!Min({A!After(tools), FieldSlots}) <= FieldSlots
  <2> DEFINE a == A!After(tools)
  <2>1. a \in Nat /\ FieldSlots \in Nat  BY <1>5, <1>6, FieldAssumption
  <2> HIDE DEF a
  <2>2. \E m \in {a, FieldSlots} : \A k \in {a, FieldSlots} : m =< k
    <3>1. CASE a <= FieldSlots  BY <2>1, <3>1
    <3>2. CASE ~(a <= FieldSlots)  BY <2>1, <3>2
    <3> QED  BY <3>1, <3>2
  <2>3. A!Min({a, FieldSlots}) \in {a, FieldSlots} /\ \A k \in {a, FieldSlots} : A!Min({a, FieldSlots}) <= k
    BY <2>2 DEF A!Min
  <2> QED  BY <2>3 DEF a
<1>8. A!After(tools) \in Nat \ {0}  BY <1>5, <1>6
<1>9. A!After(tools) = 1 \/ \E t \in Ends : A!After(tools) = E(t)  BY <1>6
<1> QED  BY <1>7, <1>8, <1>9, FieldAssumption DEF E, Ends

\* Every column before After is of a tool that was reached.
LEMMA ColumnIsOfOne ==
    ASSUME NEW tools, IsTemps(tools), NEW c \in 1..(A!After(tools) - 1), c < FieldSlots
    PROVE  LET t == A!ColumnIsOf(c, tools)
           IN  t \in A!Seen(tools) /\ c \in A!ColumnsOf(t, tools)
<1> DEFINE D == DOMAIN tools
           B(t) == A!Before(t, tools)
           W(t) == A!Width(t, tools)
           U == {t \in D : c < B(t) + W(t)}
<1>1. D \in SUBSET Nat /\ IsFiniteSet(D)
  <2>1. D \in SUBSET FieldTools  BY DEF IsTemps
  <2> QED  BY <2>1, FieldAssumption, FS_Subset
<1>2. /\ \A t \in D : B(t) \in Nat \ {0} /\ W(t) \in Nat \ {0}
      /\ \A t \in D : (\A u \in D : ~(u < t)) => B(t) = 1
      /\ \A t, u \in D : u < t /\ (\A v \in D : ~(u < v /\ v < t)) => B(t) = B(u) + W(u)
  BY BeforeIs, WidthIs
<1>3. A!After(tools) \in Nat /\ \E t \in D : A!After(tools) = B(t) + W(t)
  <2>1. A!After(tools) \in Nat \ {0}  BY AfterIs
  <2>2. A!After(tools) # 1  BY <2>1
  <2>3. PICK t \in A!Seen(tools) : A!After(tools) = B(t) + W(t)  BY <2>2, AfterIs
  <2>4. t \in D  BY DEF A!Seen
  <2> QED  BY <2>1, <2>3, <2>4
<1> HIDE DEF B, W, D
<1>4. U \in SUBSET Nat /\ U # {}
  <2>1. PICK t \in D : A!After(tools) = B(t) + W(t)  BY <1>3
  <2>2. c < B(t) + W(t)  BY <1>3, <2>1
  <2> QED  BY <1>1, <2>2
<1>5. PICK t \in U : \A u \in U : t <= u  BY <1>4, LeastNumber
<1>6. B(t) <= c
  <2> SUFFICES ASSUME ~(B(t) <= c) PROVE FALSE
    OBVIOUS
  <2> DEFINE Below == {u \in D : u < t}
  <2>1. Below # {}
    <3>1. B(t) # 1  BY <1>2
    <3> QED  BY <1>2, <3>1
  <2>2. Below \in SUBSET Nat /\ IsFiniteSet(Below)
    <3>1. Below \in SUBSET D  OBVIOUS
    <3> QED  BY <1>1, <3>1, FS_Subset
  <2>3. PICK u \in Below : \A v \in Below : u >= v
    <3> HIDE DEF Below
    <3> QED  BY <2>1, <2>2, LargestOfFinite
  <2>4. \A v \in D : ~(u < v /\ v < t)
    <3> SUFFICES ASSUME NEW v \in D, u < v, v < t PROVE FALSE
      OBVIOUS
    <3>1. u >= v /\ u \in Nat /\ v \in Nat  BY <1>1, <2>3
    <3> QED  BY <3>1
  <2>5. B(t) = B(u) + W(u)  BY <1>2, <2>3, <2>4
  <2>6. u \in U  BY <1>2, <2>3, <2>5
  <2>7. t <= u /\ u < t /\ u \in Nat /\ t \in Nat  BY <1>1, <1>5, <2>3, <2>6
  <2> QED  BY <2>7
<1>7. t \in A!Seen(tools) /\ c \in A!ColumnsOf(t, tools)
  <2>1. B(t) \in Nat /\ W(t) \in Nat /\ c < B(t) + W(t)  BY <1>2
  <2>2. B(t) < FieldSlots  BY <1>6, <2>1, FieldAssumption
  <2> QED  BY <1>6, <2>1, <2>2 DEF A!Seen, A!ColumnsOf, B, W, D
<1> QED  BY <1>7 DEF A!ColumnIsOf

-----------------------------------------------------------------------------
(* Setting a temperature: until the columns are given out anew the field    *)
(* being adjusted is of what was chosen, and of a heater the tool has, or   *)
(* its tool has gone from the columns.                                      *)

\* A column is of a tool's first heater, or of one that the tool has with all before it.
Laid ==
    \A c \in 1..(used - 1) :
        fields[c].of \in DOMAIN temps /\ ~oneColumn /\ slots[fields[c].of] <= c =>
            \/ c = slots[fields[c].of]
            \/ 0..(c - slots[fields[c].of]) \subseteq DOMAIN temps[fields[c].of]

BeingAdjusted(c) ==
    /\ c \in 0..(FieldSlots - 1) /\ sent = A!Nothing
    /\ {"of", "heater", "value"} \subseteq DOMAIN chosen
    /\ ~relaid =>
          /\ c < used /\ fields[c].of = chosen.of /\ fields[c].value = chosen.value
          /\ oneColumn \/ chosen.of = A!Bed => chosen.heater = 0
          /\ ~oneColumn /\ chosen.of \in DOMAIN temps /\ slots[chosen.of] <= c =>
                 chosen.heater = c - slots[chosen.of]

FieldsInv ==
    /\ IsTemps(temps) /\ DOMAIN slots = DOMAIN temps /\ \A t \in DOMAIN temps : slots[t] \in Nat
    /\ DOMAIN fields = 0..(FieldSlots - 1)
    /\ \A c \in 0..(FieldSlots - 1) : {"of", "value"} \subseteq DOMAIN fields[c]
    /\ used \in 1..FieldSlots /\ fields[0].of = A!Bed /\ Laid
    /\ fieldBeingAdjusted = FieldSlots \/ BeingAdjusted(fieldBeingAdjusted)
    /\ SetIsChosen

\* What is laid out before After is laid out soundly.
LEMMA LaidAnew ==
    ASSUME NEW tools, IsTemps(tools), NEW c \in 1..(A!After(tools) - 1), c < FieldSlots
    PROVE  LET t == A!ColumnIsOf(c, tools)
               b == A!Before(t, tools)
           IN  /\ t \in A!Seen(tools) /\ t \in DOMAIN tools /\ b \in Nat /\ b <= c
               /\ ~oneColumn => c = b \/ 0..(c - b) \subseteq DOMAIN tools[t]
<1> DEFINE t == A!ColumnIsOf(c, tools)
           b == A!Before(t, tools)
           w == A!Width(t, tools)
<1>1. t \in A!Seen(tools) /\ c \in b..(b + w - 1)
  BY ColumnIsOfOne DEF A!ColumnsOf
<1>2. t \in DOMAIN tools  BY <1>1 DEF A!Seen
<1> HIDE DEF t
<1>3. b \in Nat \ {0} /\ w \in Nat \ {0}  BY <1>2, BeforeIs, WidthIs
<1>4. ASSUME ~oneColumn PROVE c = b \/ 0..(c - b) \subseteq DOMAIN tools[t]
  <2>1. c - b \in Nat /\ c - b < w
    <3> HIDE DEF b, w
    <3> QED  BY <1>1, <1>3
  <2>2. c - b = 0 \/ 0..(c - b) \subseteq DOMAIN tools[t]  BY <1>2, <1>4, <2>1, WidthIs
  <2>3. c - b = 0 => c = b
    <3> HIDE DEF b, w
    <3> QED  BY <1>3
  <2> QED  BY <2>2, <2>3
<1>5. b <= c
  <2> HIDE DEF b, w
  <2> QED  BY <1>1, <1>3
<1> QED  BY <1>1, <1>2, <1>3, <1>4, <1>5 DEF t

LEMMA FieldsInit == PartsInit => FieldsInv
<1> SUFFICES ASSUME PartsInit PROVE FieldsInv
  OBVIOUS
<1> USE FieldAssumption
<1>1. A!AdjustInit  BY DEF PartsInit
<1>2. PICK several : temps = [t \in FieldTools |-> [h \in 0..(IF t = several THEN 1 ELSE 0) |-> 0]]
  BY <1>1 DEF A!AdjustInit
<1>3. /\ slots = [t \in FieldTools |-> A!Before(t, temps)]
      /\ used = A!Min({A!After(temps), FieldSlots})
      /\ fields = [c \in 0..(FieldSlots - 1) |->
             [of |-> IF c < used THEN A!ColumnIsOf(c, temps) ELSE A!NoElement, value |-> 0]]
      /\ fieldBeingAdjusted = FieldSlots /\ sent = A!Nothing
  BY <1>1 DEF A!AdjustInit, A!NoColumn
<1>4. IsTemps(temps) /\ DOMAIN temps = FieldTools  BY <1>2 DEF IsTemps
<1>5. \A t \in DOMAIN temps : slots[t] \in Nat  BY <1>3, <1>4, BeforeIs
<1>6. used \in 1..FieldSlots /\ used <= A!After(temps) /\ A!After(temps) \in Nat
  BY <1>3, <1>4, AfterIs
<1>7. fields[0].of = A!Bed
  <2>1. A!ColumnIsOf(0, temps) = A!Bed  BY Zenon DEF A!ColumnIsOf
  <2>2. 0 \in 0..(FieldSlots - 1) /\ 0 < used  BY <1>6
  <2> QED  BY <1>3, <2>1, <2>2
<1>8. Laid
  <2> SUFFICES ASSUME NEW c \in 1..(used - 1), fields[c].of \in DOMAIN temps, ~oneColumn
               PROVE  \/ c = slots[fields[c].of]
                      \/ 0..(c - slots[fields[c].of]) \subseteq DOMAIN temps[fields[c].of]
    BY DEF Laid
  <2> DEFINE t == A!ColumnIsOf(c, temps)
  <2>1. c \in 1..(A!After(temps) - 1) /\ c < FieldSlots /\ c < used /\ c \in 0..(FieldSlots - 1)
    BY <1>6
  <2>2. fields[c].of = t  BY <1>3, <2>1
  <2>3. t \in DOMAIN temps /\ (c = A!Before(t, temps) \/ 0..(c - A!Before(t, temps)) \subseteq DOMAIN temps[t])
    BY <1>4, <2>1, LaidAnew
  <2> HIDE DEF t
  <2>4. slots[t] = A!Before(t, temps)  BY <1>3, <1>4, <2>3
  <2> QED  BY <2>2, <2>3, <2>4
<1>9. SetIsChosen  BY <1>3 DEF SetIsChosen, A!SetIsChosen
<1> QED  BY <1>3, <1>4, <1>5, <1>6, <1>7, <1>8, <1>9 DEF FieldsInv

LEMMA AdjustingSafe ==
    ASSUME FieldsInv, A!Adjusting
    PROVE  FieldsInv'
<1> USE FieldAssumption
<1>1. PICK c \in 0..(used - 1) :
          /\ fields' = [fields EXCEPT ![c].value = A!Max({0, fields[c].value})]
          /\ chosen' = [of |-> fields[c].of, heater |-> A!HeaterOf(c),
                        value |-> A!Max({0, fields[c].value})]
          /\ fieldBeingAdjusted' = c
  BY Zenon DEF A!Adjusting
<1>2. relaid' = FALSE /\ sent' = A!Nothing /\ UNCHANGED <<temps, slots, used, oneColumn>>
  BY Zenon DEF A!Adjusting
<1> DEFINE v == A!Max({0, fields[c].value})
<1> HIDE DEF v
<1>3. c \in 0..(FieldSlots - 1) /\ c < used  BY DEF FieldsInv
<1>4. /\ DOMAIN fields' = DOMAIN fields /\ fields'[c].value = v
      /\ \A d \in 0..(FieldSlots - 1) : /\ fields'[d].of = fields[d].of
                                        /\ {"of", "value"} \subseteq DOMAIN fields'[d]
  BY <1>1, <1>3 DEF FieldsInv, v
<1>5. Laid'
  <2> SUFFICES ASSUME NEW d \in 1..(used - 1)
               PROVE  fields[d].of \in DOMAIN temps /\ ~oneColumn /\ slots[fields[d].of] <= d =>
                          \/ d = slots[fields[d].of]
                          \/ 0..(d - slots[fields[d].of]) \subseteq DOMAIN temps[fields[d].of]
    BY <1>2, <1>4 DEF Laid, FieldsInv
  <2> QED  BY DEF FieldsInv, Laid
<1>6. BeingAdjusted(c)'
  <2>1. /\ chosen'.of = fields[c].of /\ chosen'.heater = A!HeaterOf(c) /\ chosen'.value = v
        /\ {"of", "heater", "value"} \subseteq DOMAIN chosen'
    BY <1>1 DEF v
  <2>2. chosen'.of = A!Bed => chosen'.of \notin DOMAIN temps
    BY DEF A!Bed, FieldsInv, IsTemps
  <2>3. A!HeaterOf(c) = IF oneColumn \/ fields[c].of \notin DOMAIN temps THEN 0
                        ELSE c - slots[fields[c].of]
    BY DEF A!HeaterOf, FieldsInv
  <2>4. oneColumn \/ chosen'.of = A!Bed => chosen'.heater = 0  BY <2>1, <2>2, <2>3
  <2>5. ~oneColumn /\ chosen'.of \in DOMAIN temps => chosen'.heater = c - slots[chosen'.of]
    BY <2>1, <2>3
  <2> QED  BY <1>2, <1>3, <1>4, <2>1, <2>4, <2>5 DEF BeingAdjusted
<1>7. SetIsChosen'  BY <1>2 DEF SetIsChosen, A!SetIsChosen
<1>8. /\ IsTemps(temps') /\ DOMAIN slots' = DOMAIN temps' /\ \A t \in DOMAIN temps' : slots'[t] \in Nat
      /\ used' \in 1..FieldSlots
  BY <1>2 DEF FieldsInv
<1>9. fields'[0].of = A!Bed /\ DOMAIN fields' = 0..(FieldSlots - 1)  BY <1>4 DEF FieldsInv
<1>10. BeingAdjusted(fieldBeingAdjusted)'  BY <1>1, <1>6 DEF BeingAdjusted
<1> QED  BY <1>4, <1>5, <1>7, <1>8, <1>9, <1>10 DEF FieldsInv

\* A change of a field's value, of the field being adjusted together with what is chosen.
LEMMA ValueSafe ==
    ASSUME FieldsInv, NEW c, NEW v, NEW w, fields' = [fields EXCEPT ![c].value = v],
           UNCHANGED <<slots, used, oneColumn, fieldBeingAdjusted, sent, relaid>>,
           IsTemps(temps'), DOMAIN temps' = DOMAIN temps,
           \A t \in DOMAIN temps : DOMAIN temps[t] \subseteq DOMAIN temps'[t],
           \/ chosen' = chosen /\ c # fieldBeingAdjusted
           \/ /\ chosen' = [chosen EXCEPT !.value = w] /\ c = fieldBeingAdjusted /\ c # FieldSlots
              /\ relaid \/ w = v
    PROVE  FieldsInv'
<1> USE FieldAssumption
<1>1. /\ DOMAIN fields' = DOMAIN fields
      /\ \A d \in 0..(FieldSlots - 1) : /\ fields'[d].of = fields[d].of
                                        /\ {"of", "value"} \subseteq DOMAIN fields'[d]
                                        /\ d # c => fields'[d].value = fields[d].value
      /\ c \in 0..(FieldSlots - 1) => fields'[c].value = v
  BY DEF FieldsInv
<1>2. Laid'
  <2> SUFFICES ASSUME NEW d \in 1..(used - 1), fields[d].of \in DOMAIN temps, ~oneColumn,
                      slots[fields[d].of] <= d
               PROVE  \/ d = slots[fields[d].of]
                      \/ 0..(d - slots[fields[d].of]) \subseteq DOMAIN temps'[fields[d].of]
    BY <1>1 DEF Laid, FieldsInv
  <2> QED  BY DEF FieldsInv, Laid
<1>3. fieldBeingAdjusted = FieldSlots \/ BeingAdjusted(fieldBeingAdjusted)'
  <2> SUFFICES ASSUME fieldBeingAdjusted # FieldSlots PROVE BeingAdjusted(fieldBeingAdjusted)'
    OBVIOUS
  <2>1. BeingAdjusted(fieldBeingAdjusted)  BY DEF FieldsInv
  <2>2. /\ chosen'.of = chosen.of /\ chosen'.heater = chosen.heater
        /\ DOMAIN chosen' = DOMAIN chosen
        /\ c = fieldBeingAdjusted => relaid \/ chosen'.value = v
        /\ c # fieldBeingAdjusted => chosen'.value = chosen.value
    BY <2>1 DEF BeingAdjusted
  <2> QED  BY <1>1, <2>1, <2>2 DEF BeingAdjusted
<1>4. SetIsChosen'
  <2>1. CASE chosen' = chosen  BY <2>1 DEF FieldsInv, SetIsChosen, A!SetIsChosen
  <2>2. CASE fieldBeingAdjusted # FieldSlots
    <3>1. sent' = A!Nothing  BY <2>2 DEF FieldsInv, BeingAdjusted
    <3> QED  BY <3>1 DEF SetIsChosen, A!SetIsChosen
  <2> QED  BY <2>1, <2>2
<1>5. /\ DOMAIN slots' = DOMAIN temps' /\ \A t \in DOMAIN temps' : slots'[t] \in Nat
      /\ used' \in 1..FieldSlots
  BY DEF FieldsInv
<1>6. fields'[0].of = A!Bed /\ DOMAIN fields' = 0..(FieldSlots - 1)  BY <1>1 DEF FieldsInv
<1> QED  BY <1>1, <1>2, <1>3, <1>4, <1>5, <1>6 DEF FieldsInv

LEMMA AdjustIntSafe ==
    ASSUME FieldsInv, A!AdjustInt
    PROVE  FieldsInv'
<1> DEFINE c == fieldBeingAdjusted
<1>1. PICK change \in {-1, 1} :
          /\ fields' = [fields EXCEPT ![c].value = A!Confined(fields[c].value + change)]
          /\ chosen' = [chosen EXCEPT !.value = A!Confined(chosen.value + change)]
  BY Zenon DEF A!AdjustInt
<1>2. /\ UNCHANGED <<temps, slots, used, oneColumn, fieldBeingAdjusted, sent, relaid>>
      /\ c # FieldSlots
  BY DEF A!AdjustInt, A!Touchable, A!NoColumn
<1>3. PICK d, v, w : d = c /\ v = A!Confined(fields[c].value + change)
                     /\ w = A!Confined(chosen.value + change)
  OBVIOUS
<1>4. relaid \/ w = v  BY <1>2, <1>3 DEF FieldsInv, BeingAdjusted
<1>5. fields' = [fields EXCEPT ![d].value = v] /\ chosen' = [chosen EXCEPT !.value = w]
  BY <1>1, <1>3
<1>6. IsTemps(temps')  BY <1>2 DEF FieldsInv
<1> QED  BY <1>2, <1>3, <1>4, <1>5, <1>6, ValueSafe

\* What is sent is for the heater chosen.
LEMMA SetIntSafe ==
    ASSUME FieldsInv, A!SetInt
    PROVE  FieldsInv'
<1> USE FieldAssumption
<1> DEFINE c == fieldBeingAdjusted
           t == fields[c].of
           v == fields[c].value
           heater == IF oneColumn THEN 0 ELSE c - slots[t]
           heads == IF oneColumn THEN {0} ELSE A!Heaters(temps'[t])
           more == [temps EXCEPT ![t] = [i \in DOMAIN temps[t] \cup {heater} |->
                                            IF i = heater THEN v ELSE temps[t][i]]]
           Sends == /\ t \in DOMAIN temps /\ heater \in 0..(FieldSlots - 1)
                    /\ temps' = IF heater >= MaxHeaters THEN temps ELSE more
                    /\ sent' = [of |-> t, heaters |-> [h \in heads |-> temps'[t][h]]]
<1>1. c # FieldSlots /\ fieldBeingAdjusted' = FieldSlots
      /\ UNCHANGED <<slots, fields, used, oneColumn, chosen, relaid>>
  BY DEF A!SetInt, A!Touchable, A!NoColumn, A!columns
<1>2. \/ t = A!Bed /\ sent' = [of |-> A!Bed, heaters |-> [h \in {0} |-> v]] /\ temps' = temps
      \/ t # A!Bed /\ Sends
      \/ sent' = sent /\ temps' = temps
  BY Zenon DEF A!SetInt, A!SetTool, A!WithTemp
<1>3. BeingAdjusted(c)  BY <1>1 DEF FieldsInv
<1>4. sent = A!Nothing /\ c \in 0..(FieldSlots - 1)
      /\ (~relaid => /\ c < used /\ t = chosen.of /\ v = chosen.value
                     /\ oneColumn \/ t = A!Bed => chosen.heater = 0
                     /\ ~oneColumn /\ t \in DOMAIN temps /\ slots[t] <= c =>
                            chosen.heater = c - slots[t])
  BY <1>3 DEF BeingAdjusted
<1>5. /\ IsTemps(temps) /\ DOMAIN slots = DOMAIN temps /\ fields[0].of = A!Bed
      /\ \A u \in DOMAIN temps : slots[u] \in Nat
  BY DEF FieldsInv
<1>6. /\ DOMAIN temps' = DOMAIN temps /\ IsTemps(temps')
      /\ \A u \in DOMAIN temps : DOMAIN temps[u] \subseteq DOMAIN temps'[u]
  <2>1. CASE temps' = temps  BY <1>5, <2>1
  <2>2. CASE Sends /\ temps' # temps
    <3>1. temps' = more /\ heater \in 0..(MaxHeaters - 1) /\ t \in DOMAIN temps
      <4> HIDE DEF heater, more, t
      <4> QED  BY <2>2
    <3> HIDE DEF heater, t
    <3> QED  BY <1>5, <3>1 DEF IsTemps
  <2> QED  BY <1>2, <2>1, <2>2
<1>7. SetIsChosen'
  <2> SUFFICES ASSUME ~relaid, sent' # A!Nothing
               PROVE  /\ sent'.of = chosen.of /\ chosen.heater \in DOMAIN sent'.heaters
                      /\ sent'.heaters[chosen.heater] = chosen.value
    BY <1>1 DEF SetIsChosen, A!SetIsChosen
  <2>1. CASE t = A!Bed /\ sent' = [of |-> A!Bed, heaters |-> [h \in {0} |-> v]]
    <3> HIDE DEF t, v
    <3> QED  BY <1>4, <2>1
  <2>2. CASE t # A!Bed /\ Sends
    <3>1. slots[t] \in Nat /\ (~oneColumn => slots[t] <= c /\ heater = c - slots[t])
      <4>1. slots[t] \in Nat  BY <1>5, <2>2
      <4> HIDE DEF t, c
      <4> QED  BY <1>4, <2>2, <4>1
    <3>2. chosen.heater = heater  BY <1>4, <2>2, <3>1
    <3>3. ~oneColumn => heater = 0 \/ 0..heater \subseteq DOMAIN temps[t]
      <4> SUFFICES ASSUME ~oneColumn PROVE heater = 0 \/ 0..heater \subseteq DOMAIN temps[t]
        OBVIOUS
      <4>1. c # 0  BY <1>5, <2>2
      <4>2. c \in 1..(used - 1)  BY <1>4, <4>1 DEF FieldsInv
      <4>3. c = slots[t] \/ 0..(c - slots[t]) \subseteq DOMAIN temps[t]
        BY <2>2, <3>1, <4>2 DEF FieldsInv, Laid
      <4> QED  BY <3>1, <4>3
    <3>4. heater \in 0..(MaxHeaters - 1)
      <4>1. heater = 0 \/ heater \in DOMAIN temps[t]
        <5>1. heater \in 0..heater
          <6> HIDE DEF heater
          <6> QED  BY <2>2
        <5> QED  BY <3>3, <5>1
      <4>2. DOMAIN temps[t] \subseteq 0..(MaxHeaters - 1)  BY <1>5, <2>2 DEF IsTemps
      <4> HIDE DEF heater, t
      <4> QED  BY <4>1, <4>2
    <3>5. temps' = more
      <4> HIDE DEF heater, more, t
      <4> QED  BY <2>2, <3>4
    <3>6. DOMAIN temps'[t] = DOMAIN temps[t] \cup {heater} /\ temps'[t][heater] = v
      <4> HIDE DEF heater, t, v
      <4> QED  BY <2>2, <3>5
    <3>7. heater \in heads
      <4>1. CASE oneColumn  BY <4>1
      <4>2. CASE ~oneColumn
        <5>1. 0..heater \subseteq DOMAIN temps'[t]
          <6>1. heater = 0 => 0..heater = {0}
            <7> HIDE DEF heater
            <7> QED  OBVIOUS
          <6> HIDE DEF heater, t
          <6> QED  BY <3>3, <3>6, <4>2, <6>1
        <5> HIDE DEF heater, t
        <5> QED  BY <3>6, <4>2, <5>1 DEF A!Heaters
      <4> QED  BY <4>1, <4>2
    <3> HIDE DEF heater, heads, t, v
    <3> QED  BY <1>4, <2>2, <3>2, <3>6, <3>7
  <2>3. CASE sent' = sent  BY <1>4, <2>3
  <2> QED  BY <1>2, <2>1, <2>2, <2>3
<1>8. Laid'
  <2> SUFFICES ASSUME NEW d \in 1..(used - 1), fields[d].of \in DOMAIN temps, ~oneColumn,
                      slots[fields[d].of] <= d
               PROVE  \/ d = slots[fields[d].of]
                      \/ 0..(d - slots[fields[d].of]) \subseteq DOMAIN temps'[fields[d].of]
    BY <1>1, <1>6 DEF Laid
  <2>1. \/ d = slots[fields[d].of]
        \/ 0..(d - slots[fields[d].of]) \subseteq DOMAIN temps[fields[d].of]
    BY DEF FieldsInv, Laid
  <2> QED  BY <1>6, <2>1
<1> QED  BY <1>1, <1>6, <1>7, <1>8 DEF FieldsInv

LEMMA BedTempSafe ==
    ASSUME FieldsInv, A!UpdateBedTemp
    PROVE  FieldsInv'
<1>1. PICK value : \/ fields' = fields
                   \/ fields' = [fields EXCEPT ![0].value = value] /\ 0 # fieldBeingAdjusted
  BY Zenon DEF A!UpdateBedTemp, A!UpdateField
<1>2. UNCHANGED <<temps, slots, used, oneColumn, fieldBeingAdjusted, sent, chosen, relaid>>
  BY Zenon DEF A!UpdateBedTemp, A!history
<1>3. CASE fields' = fields
  BY <1>2, <1>3 DEF FieldsInv, Laid, BeingAdjusted, SetIsChosen, A!SetIsChosen
<1>4. CASE fields' = [fields EXCEPT ![0].value = value] /\ 0 # fieldBeingAdjusted
  <2>1. IsTemps(temps')  BY <1>2 DEF FieldsInv
  <2> QED  BY <1>2, <1>4, <2>1, ValueSafe
<1> QED  BY <1>1, <1>3, <1>4

\* Temperatures and slots change, of no column's tool for the worse; what is sent does not.
LEMMA ToolsSafe ==
    ASSUME FieldsInv,
           UNCHANGED <<fields, used, oneColumn, fieldBeingAdjusted, sent, chosen, relaid>>,
           IsTemps(temps'), DOMAIN slots' = DOMAIN temps',
           \A t \in DOMAIN temps' :
              \/ /\ t \in DOMAIN temps /\ slots'[t] = slots[t]
                 /\ DOMAIN temps[t] \subseteq DOMAIN temps'[t]
              \/ slots'[t] = FieldSlots
    PROVE  FieldsInv'
<1> USE FieldAssumption
<1>1. \A t \in DOMAIN temps' : slots'[t] \in Nat  BY DEF FieldsInv
<1>2. Laid'
  <2> SUFFICES ASSUME NEW d \in 1..(used - 1), fields[d].of \in DOMAIN temps', ~oneColumn,
                      slots'[fields[d].of] <= d
               PROVE  \/ d = slots'[fields[d].of]
                      \/ 0..(d - slots'[fields[d].of]) \subseteq DOMAIN temps'[fields[d].of]
    BY DEF Laid
  <2> DEFINE t == fields[d].of
  <2>1. slots'[t] # FieldSlots  BY DEF FieldsInv
  <2>2. /\ t \in DOMAIN temps /\ slots'[t] = slots[t]
        /\ DOMAIN temps[t] \subseteq DOMAIN temps'[t]
    BY <2>1
  <2>3. d = slots[t] \/ 0..(d - slots[t]) \subseteq DOMAIN temps[t]
    BY <2>2 DEF FieldsInv, Laid
  <2> HIDE DEF t
  <2> QED  BY <2>2, <2>3 DEF t
<1>3. fieldBeingAdjusted = FieldSlots \/ BeingAdjusted(fieldBeingAdjusted)'
  <2> SUFFICES ASSUME fieldBeingAdjusted # FieldSlots PROVE BeingAdjusted(fieldBeingAdjusted)'
    OBVIOUS
  <2> DEFINE c == fieldBeingAdjusted
             t == chosen.of
  <2>1. BeingAdjusted(c)  BY DEF FieldsInv
  <2>2. ASSUME ~relaid, ~oneColumn, t \in DOMAIN temps', slots'[t] <= c
        PROVE  chosen.heater = c - slots'[t]
    <3>1. slots'[t] # FieldSlots  BY <2>1, <2>2 DEF BeingAdjusted
    <3>2. t \in DOMAIN temps /\ slots'[t] = slots[t]  BY <2>2, <3>1
    <3> QED  BY <2>1, <2>2, <3>2 DEF BeingAdjusted
  <2> QED  BY <2>1, <2>2 DEF BeingAdjusted
<1> QED  BY <1>1, <1>2, <1>3 DEF FieldsInv, SetIsChosen, A!SetIsChosen

LEMMA ToolTempSafe ==
    ASSUME FieldsInv, A!UpdateToolTemp
    PROVE  FieldsInv'
<1> USE FieldAssumption
<1>1. UNCHANGED <<used, oneColumn, fieldBeingAdjusted, sent, chosen, relaid>>
  BY Zenon DEF A!UpdateToolTemp, A!history
<1>2. PICK t \in FieldTools, value \in 1..MaxTemp :
         IF t \notin DOMAIN temps
         THEN /\ temps' = [u \in DOMAIN temps \cup {t} |->
                               IF u = t THEN [h \in {0} |-> value] ELSE temps[u]]
              /\ slots' = [u \in DOMAIN temps' |-> IF u = t THEN FieldSlots ELSE slots[u]]
              /\ UNCHANGED fields
         ELSE \E h \in 0..A!Cardinality(A!Heaters(temps[t])) :
              /\ temps' = A!WithTemp(t, h, value)
              /\ IF (h = 0 \/ ~oneColumn) /\ slots[t] + h < FieldSlots
                 THEN A!UpdateField(slots[t] + h, value) ELSE UNCHANGED fields
              /\ UNCHANGED slots
  BY Zenon DEF A!UpdateToolTemp
<1>3. IsTemps(temps) /\ DOMAIN slots = DOMAIN temps  BY DEF FieldsInv
<1>4. CASE t \notin DOMAIN temps
  <2>1. /\ temps' = [u \in DOMAIN temps \cup {t} |->
                         IF u = t THEN [h \in {0} |-> value] ELSE temps[u]]
        /\ slots' = [u \in DOMAIN temps' |-> IF u = t THEN FieldSlots ELSE slots[u]]
        /\ fields' = fields
    BY <1>2, <1>4
  <2>2. IsTemps(temps')  BY <1>3, <2>1 DEF IsTemps
  <2>3. DOMAIN slots' = DOMAIN temps'  BY <2>1
  <2>4. \A u \in DOMAIN temps' : \/ /\ u \in DOMAIN temps /\ slots'[u] = slots[u]
                                    /\ DOMAIN temps[u] \subseteq DOMAIN temps'[u]
                                 \/ slots'[u] = FieldSlots
    BY <2>1
  <2> QED  BY <1>1, <2>1, <2>2, <2>3, <2>4, ToolsSafe
<1>5. CASE t \in DOMAIN temps
  <2>1. PICK h \in Nat :
              /\ temps' = A!WithTemp(t, h, value)
              /\ IF (h = 0 \/ ~oneColumn) /\ slots[t] + h < FieldSlots
                 THEN A!UpdateField(slots[t] + h, value) ELSE fields' = fields
              /\ slots' = slots
    BY <1>2, <1>5
  <2>2. /\ IsTemps(temps') /\ DOMAIN temps' = DOMAIN temps
        /\ \A u \in DOMAIN temps : DOMAIN temps[u] \subseteq DOMAIN temps'[u]
    <3>1. CASE temps' = temps  BY <1>3, <3>1
    <3>2. CASE temps' # temps
      <4>1. /\ temps' = [temps EXCEPT ![t] = [i \in DOMAIN temps[t] \cup {h} |->
                                                  IF i = h THEN value ELSE temps[t][i]]]
            /\ h \in 0..(MaxHeaters - 1)
        BY <2>1, <3>2 DEF A!WithTemp
      <4> QED  BY <1>3, <1>5, <4>1 DEF IsTemps
    <3> QED  BY <3>1, <3>2
  <2>3. CASE fields' = fields
    BY <1>1, <1>3, <2>1, <2>2, <2>3, ToolsSafe
  <2>4. CASE fields' # fields
    <3>1. PICK c : /\ c = slots[t] + h /\ c # fieldBeingAdjusted
                   /\ fields' = [fields EXCEPT ![c].value = value]
      BY <2>1, <2>4, Zenon DEF A!UpdateField
    <3> QED  BY <1>1, <2>1, <2>2, <3>1, ValueSafe
  <2> QED  BY <2>3, <2>4
<1> QED  BY <1>4, <1>5

LEMMA RemoveToolSafe ==
    ASSUME FieldsInv, A!RemoveTool
    PROVE  FieldsInv'
<1>1. UNCHANGED <<fields, used, oneColumn, fieldBeingAdjusted, sent, chosen, relaid>>
  BY Zenon DEF A!RemoveTool, A!history
<1>2. PICK t \in DOMAIN temps : /\ temps' = [u \in DOMAIN temps \ {t} |-> temps[u]]
                                /\ slots' = [u \in DOMAIN temps \ {t} |-> slots[u]]
  BY Zenon DEF A!RemoveTool
<1>3. IsTemps(temps')  BY <1>2 DEF FieldsInv, IsTemps
<1> QED  BY <1>1, <1>2, <1>3, ToolsSafe

\* Whatever the columns were, they are laid out soundly anew.
LEMMA GivenOutSafe ==
    ASSUME FieldsInv, A!ColumnsAreGivenOut
    PROVE  FieldsInv'
<1> USE FieldAssumption
<1>1. /\ UNCHANGED <<oneColumn, fieldBeingAdjusted, sent, chosen>> /\ relaid' = TRUE
      /\ A!AllToolsSeen(temps', slots)
  BY Zenon DEF A!ColumnsAreGivenOut
<1>2. \/ temps' = temps
      \/ \E t \in DOMAIN temps : \E S :
             temps' = [temps EXCEPT ![t] = [h \in DOMAIN temps[t] \ S |-> temps[t][h]]]
  BY Zenon DEF A!ColumnsAreGivenOut
<1>3. IsTemps(temps) /\ DOMAIN slots = DOMAIN temps /\ \A t \in DOMAIN temps : slots[t] \in Nat
  BY DEF FieldsInv
<1>4. IsTemps(temps') /\ DOMAIN temps' = DOMAIN temps
  <2>1. CASE temps' = temps  BY <1>3, <2>1
  <2>2. CASE temps' # temps
    <3>1. PICK t \in DOMAIN temps :
              \E S : temps' = [temps EXCEPT ![t] = [h \in DOMAIN temps[t] \ S |-> temps[t][h]]]
      BY <1>2, <2>2
    <3>2. /\ DOMAIN temps' = DOMAIN temps /\ DOMAIN temps'[t] \subseteq DOMAIN temps[t]
          /\ \A u \in DOMAIN temps \ {t} : temps'[u] = temps[u]
      BY <3>1
    <3> QED  BY <1>3, <3>2 DEF IsTemps
  <2> QED  BY <2>1, <2>2
<1>5. PICK tools : tools = temps'  OBVIOUS
<1>6. /\ slots' = [t \in DOMAIN tools |->
                      IF t \in A!Seen(tools) THEN A!Before(t, tools) ELSE slots[t]]
      /\ used' = A!Min({A!After(tools), FieldSlots})
      /\ fields' = [c \in 0..(FieldSlots - 1) |->
             IF c < A!After(tools) THEN [of |-> A!ColumnIsOf(c, tools), value |-> 0] ELSE fields[c]]
  BY <1>1, <1>5, Zenon DEF A!AllToolsSeen
<1>7. IsTemps(tools) /\ DOMAIN tools = DOMAIN temps  BY <1>4, <1>5
<1>8. used' \in 1..FieldSlots /\ used' <= A!After(tools) /\ A!After(tools) \in Nat \ {0}
  BY <1>6, <1>7, AfterIs
<1>9. \A t \in DOMAIN tools : slots'[t] \in Nat  BY <1>3, <1>6, <1>7, BeforeIs
<1>10. /\ DOMAIN fields' = 0..(FieldSlots - 1)
       /\ \A c \in 0..(FieldSlots - 1) : {"of", "value"} \subseteq DOMAIN fields'[c]
  BY <1>6 DEF FieldsInv
<1>11. fields'[0].of = A!Bed
  <2>1. A!ColumnIsOf(0, tools) = A!Bed  BY Zenon DEF A!ColumnIsOf
  <2>2. 0 \in 0..(FieldSlots - 1) /\ 0 < A!After(tools)  BY <1>8
  <2> QED  BY <1>6, <2>1, <2>2
<1>12. Laid'
  <2> SUFFICES ASSUME NEW c \in 1..(used' - 1), fields'[c].of \in DOMAIN tools, ~oneColumn
               PROVE  \/ c = slots'[fields'[c].of]
                      \/ 0..(c - slots'[fields'[c].of]) \subseteq DOMAIN tools[fields'[c].of]
    BY <1>1, <1>5 DEF Laid
  <2> DEFINE t == A!ColumnIsOf(c, tools)
  <2>1. /\ c \in 1..(A!After(tools) - 1) /\ c < FieldSlots /\ c \in 0..(FieldSlots - 1)
        /\ c < A!After(tools)
    BY <1>8
  <2>2. fields'[c].of = t  BY <1>6, <2>1
  <2>3. /\ t \in DOMAIN tools /\ t \in A!Seen(tools)
        /\ c = A!Before(t, tools) \/ 0..(c - A!Before(t, tools)) \subseteq DOMAIN tools[t]
    BY <1>7, <2>1, LaidAnew
  <2> HIDE DEF t
  <2>4. slots'[t] = A!Before(t, tools)  BY <1>6, <2>3
  <2> QED  BY <2>2, <2>3, <2>4
<1>13. fieldBeingAdjusted = FieldSlots \/ BeingAdjusted(fieldBeingAdjusted)'
  BY <1>1 DEF FieldsInv, BeingAdjusted
<1>14. SetIsChosen'  BY <1>1 DEF SetIsChosen, A!SetIsChosen
<1>15. fieldBeingAdjusted' = FieldSlots \/ BeingAdjusted(fieldBeingAdjusted)'
  BY <1>1, <1>13 DEF BeingAdjusted
<1>16. DOMAIN slots' = DOMAIN temps' /\ \A t \in DOMAIN temps' : slots'[t] \in Nat
  BY <1>5, <1>6, <1>9
<1> QED
  BY <1>4, <1>8, <1>10, <1>11, <1>12, <1>14, <1>15, <1>16 DEF FieldsInv

LEMMA FieldsNext == FieldsInv /\ [PartsNext]_partsVars => FieldsInv'
<1> SUFFICES ASSUME FieldsInv, [PartsNext]_partsVars PROVE FieldsInv'
  OBVIOUS
<1>1. CASE A!AdjustNext
  <2>1. CASE A!OtherWindow \/ A!StatusClearsPopups
    <3>1. UNCHANGED <<temps, slots, fields, used, oneColumn, fieldBeingAdjusted, sent, chosen, relaid>>
      BY <2>1, Zenon DEF A!OtherWindow, A!StatusClearsPopups, A!columns, A!history
    <3> QED  BY <3>1 DEF FieldsInv, Laid, BeingAdjusted, SetIsChosen, A!SetIsChosen
  <2> QED
    BY <1>1, <2>1, AdjustingSafe, AdjustIntSafe, SetIntSafe, BedTempSafe, ToolTempSafe,
       RemoveToolSafe, GivenOutSafe, Zenon DEF A!AdjustNext
<1>2. CASE UNCHANGED adjustVars
  BY <1>2 DEF FieldsInv, Laid, BeingAdjusted, SetIsChosen, A!SetIsChosen, adjustVars
<1> QED
  BY <1>1, <1>2, Zenon DEF PartsNext, Previews, Objects, Setup, Log, Fields, partsVars

\* What Set sends is the value the user gave, for the heater whose field was touched
\* (src/UI/UserInterface.cpp:3895, evSetInt), whatever the printer tells of temperatures and
\* tools meanwhile, for any number of tools, heaters and columns.
THEOREM SetIsAlwaysChosen == PartsSpec => []SetIsChosen
<1>1. FieldsInv => SetIsChosen  BY DEF FieldsInv
<1> QED  BY <1>1, FieldsInit, FieldsNext, PTL DEF PartsSpec

-----------------------------------------------------------------------------
(* Recursion: what a recursive function of the models is known to be.        *)

\* G gives the value at x of a function that is known where some rank is lower.
IsBefore(G, D, R, rank) ==
    \A x \in D : \A f, g \in [D -> R] :
       (\A y \in D : rank[y] < rank[x] => f[y] = g[y]) => G[<<x, f>>] = G[<<x, g>>]

IsRecursive(G, D, R) ==
    /\ G \in [D \X [D -> R] -> R] /\ R # {}
    /\ \E m \in Nat : \E rank \in [D -> 0..m] : IsBefore(G, D, R, rank)

\* A function defined by such a recursion exists.
LEMMA Recursion ==
    ASSUME NEW D, NEW R, NEW G, IsRecursive(G, D, R)
    PROVE  \E f \in [D -> R] : \A x \in D : f[x] = G[<<x, f>>]
<1>0. PICK m \in Nat : \E rank \in [D -> 0..m] : IsBefore(G, D, R, rank)  BY DEF IsRecursive
<1>r. PICK rank \in [D -> 0..m] : IsBefore(G, D, R, rank)  BY <1>0
<1>g. G \in [D \X [D -> R] -> R] /\ R # {}  BY DEF IsRecursive
<1>s. PICK r \in R : TRUE  BY <1>g
<1> DEFINE Upto(n) == \E f \in [D -> R] : \A x \in D : rank[x] < n => f[x] = G[<<x, f>>]
           N == {n \in Nat : Upto(n)}
<1>1. 0 \in N
  <2>1. [x \in D |-> r] \in [D -> R]  OBVIOUS
  <2>2. \A x \in D : ~(rank[x] < 0)  OBVIOUS
  <2>3. Upto(0)  BY <2>1, <2>2
  <2> HIDE DEF Upto
  <2> QED  BY <2>3
<1>2. ASSUME NEW n \in N PROVE n + 1 \in N
  <2>1. PICK f \in [D -> R] : \A x \in D : rank[x] < n => f[x] = G[<<x, f>>]  OBVIOUS
  <2> DEFINE h == [x \in D |-> G[<<x, f>>]]
  <2>2. h \in [D -> R] /\ \A x \in D : h[x] = G[<<x, f>>]  BY <1>g
  <2> HIDE DEF h
  <2>3. ASSUME NEW x \in D, rank[x] < n + 1 PROVE h[x] = G[<<x, h>>]
    <3>1. ASSUME NEW y \in D, rank[y] < rank[x] PROVE f[y] = h[y]
      <4>1. rank[y] \in Nat /\ rank[x] \in Nat /\ n \in Nat  OBVIOUS
      <4>2. rank[y] < n  BY <2>3, <3>1, <4>1
      <4> QED  BY <2>1, <2>2, <4>2
    <3>2. G[<<x, f>>] = G[<<x, h>>]  BY <1>r, <2>2, <3>1 DEF IsBefore
    <3> QED  BY <2>2, <3>2
  <2>4. Upto(n + 1)  BY <2>2, <2>3
  <2> HIDE DEF Upto
  <2> QED  BY <2>4
<1>3. m + 1 \in N
  <2> HIDE DEF N
  <2>1. N \in SUBSET Nat  BY DEF N
  <2>2. N = Nat  BY <1>1, <1>2, <2>1, Induction
  <2> QED  BY <2>2
<1>4. PICK f \in [D -> R] : \A x \in D : rank[x] < m + 1 => f[x] = G[<<x, f>>]  BY <1>3
<1>5. \A x \in D : rank[x] < m + 1  OBVIOUS
<1> QED  BY <1>4, <1>5


-----------------------------------------------------------------------------
(* The message log: the width of a text.                                    *)

LEMMA SameCardinality == \A S : L!Cardinality(S) = Cardinality(S)
BY DEF L!Cardinality, Cardinality

\* The first characters are no wider than more of them.
LEMMA TextWidths ==
    ASSUME NEW s, NEW n \in Nat
    PROVE  /\ L!TextWidth(s, n) \in Nat
           /\ \A m \in 0..n : L!TextWidth(s, m) <= L!TextWidth(s, n)
<1> DEFINE wide(k) == {i \in 1..k : s[i] = "W"}
<1>1. \A k \in Nat : L!TextWidth(s, k) = k + Cardinality(wide(k))
  BY SameCardinality DEF L!TextWidth
<1>2. ASSUME NEW k \in Nat PROVE IsFiniteSet(wide(k)) /\ Cardinality(wide(k)) \in Nat
  <2>1. IsFiniteSet(1..k)  BY FS_Interval
  <2>2. wide(k) \subseteq 1..k  OBVIOUS
  <2> QED  BY <2>1, <2>2, FS_Subset, FS_CardinalityType
<1>3. ASSUME NEW m \in 0..n PROVE Cardinality(wide(m)) <= Cardinality(wide(n))
  <2>1. wide(m) \subseteq wide(n)  OBVIOUS
  <2> HIDE DEF wide
  <2> QED  BY <1>2, <2>1, FS_Subset
<1> HIDE DEF wide
<1> QED  BY <1>1, <1>2, <1>3

LEMMA NoWidth == \A s : L!TextWidth(s, 0) = 0
<1> SUFFICES ASSUME NEW s PROVE L!TextWidth(s, 0) = 0  OBVIOUS
<1>1. {i \in 1..0 : s[i] = "W"} = {}  OBVIOUS
<1> QED  BY <1>1, FS_EmptySet, SameCardinality DEF L!TextWidth

\* A text is as wide as the same characters of another.
LEMMA SameWidth ==
    ASSUME NEW s, NEW t, NEW n \in Nat, \A i \in 1..n : s[i] = t[i]
    PROVE  L!TextWidth(s, n) = L!TextWidth(t, n)
<1>1. {i \in 1..n : s[i] = "W"} = {i \in 1..n : t[i] = "W"}  OBVIOUS
<1> QED  BY <1>1 DEF L!TextWidth


-----------------------------------------------------------------------------
(* Texts put together, and what is left of them without their spaces.       *)

LEMMA FunctionIsSeq ==
    ASSUME NEW S, NEW n \in Nat, NEW f \in [1..n -> S]
    PROVE  f \in Seq(S) /\ Len(f) = n
<1>1. f \in Seq(S)  BY SeqDef
<1> QED  BY <1>1

\* What FlattenSeq has put together after each of the sequences.
IsFlattened(f, ss) ==
    f[0] = <<>> /\ \A i \in 1..Len(ss) : f[i] = f[i - 1] \o ss[i]

LEMMA FlattenExists ==
    ASSUME NEW C, NEW ss \in Seq(Seq(C))
    PROVE  \E f \in [0..Len(ss) -> Seq(C)] : IsFlattened(f, ss) /\ f[Len(ss)] = L!FlattenSeq(ss)
<1> DEFINE n == Len(ss)
           D == 1..n
           R == Seq(C)
           Of(f, i) == IF i = 1 THEN ss[i] ELSE f[i - 1] \o ss[i]
           Flattens(f) == f = [i \in D |-> Of(f, i)]
           it == CHOOSE f : Flattens(f)
<1>1. n \in Nat /\ \A i \in D : ss[i] \in R  OBVIOUS
<1>2. \E f \in [D -> R] : Flattens(f)
  <2> DEFINE G == [a \in D \X [D -> R] |-> Of(a[2], a[1])]
             rank == [i \in D |-> i]
  <2>1. \A i \in D : \A f \in [D -> R] : Of(f, i) \in R
    <3> SUFFICES ASSUME NEW i \in D, NEW f \in [D -> R], i # 1 PROVE f[i - 1] \o ss[i] \in R
      BY <1>1
    <3>1. i - 1 \in D  OBVIOUS
    <3>2. f[i - 1] \in R /\ ss[i] \in R  BY <1>1, <3>1
    <3> HIDE DEF D
    <3> QED  BY <3>2, ConcatProperties
  <2>2. \A i \in D : \A f \in [D -> R] : G[<<i, f>>] = Of(f, i)
    <3> HIDE DEF Of, D, R
    <3> QED  OBVIOUS
  <2>3. G \in [D \X [D -> R] -> R]
    <3> HIDE DEF Of, D, R
    <3> QED  BY <2>1
  <2>4. rank \in [D -> 0..n] /\ <<>> \in R  BY <1>1
  <2>5. IsBefore(G, D, R, rank)
    <3> SUFFICES ASSUME NEW i \in D, NEW f \in [D -> R], NEW g \in [D -> R],
                        \A y \in D : rank[y] < rank[i] => f[y] = g[y]
                 PROVE  G[<<i, f>>] = G[<<i, g>>]
      <4> HIDE DEF D, R, G, rank
      <4> QED  BY DEF IsBefore
    <3>1. i # 1 => i - 1 \in D /\ rank[i - 1] < rank[i]  BY <1>1
    <3>2. Of(f, i) = Of(g, i)  BY <3>1
    <3> HIDE DEF Of, D, R, G
    <3> QED  BY <2>2, <3>2
  <2>6. PICK f \in [D -> R] : \A i \in D : f[i] = G[<<i, f>>]
    <3>1. n \in Nat  BY <1>1
    <3> HIDE DEF D, G, rank, R, n
    <3>2. IsRecursive(G, D, R)  BY <2>3, <2>4, <2>5, <3>1 DEF IsRecursive
    <3> QED  BY <3>2, Recursion
  <2>7. Flattens(f)
    <3> HIDE DEF Of, D, R, G
    <3> QED  BY <2>2, <2>6
  <2> HIDE DEF Flattens
  <2> QED  BY <2>7
<1>3. Flattens(it)
  <2> HIDE DEF Flattens
  <2> QED  BY <1>2
<1>4. n # 0 => L!FlattenSeq(ss) = it[n]
  BY DEF L!FlattenSeq
<1>5. n = 0 => L!FlattenSeq(ss) = <<>>  BY DEF L!FlattenSeq
<1> HIDE DEF it
<1>6. \A i \in D : it[i] = Of(it, i)
  <2> HIDE DEF Of, D
  <2> QED  BY <1>3
<1> DEFINE N == {i \in Nat : i \in D => it[i] \in R}
<1>7. N = Nat
  <2>1. 0 \in N  OBVIOUS
  <2>2. ASSUME NEW i \in N PROVE i + 1 \in N
    <3> SUFFICES ASSUME i + 1 \in D PROVE it[i + 1] \in R  OBVIOUS
    <3>1. CASE i = 0
      <4>1. it[i + 1] = ss[i + 1]  BY <1>6, <3>1
      <4> QED  BY <1>1, <4>1
    <3>2. CASE i # 0
      <4>1. i \in D /\ (i + 1) - 1 = i /\ i + 1 # 1  BY <1>1, <3>2
      <4>2. it[i + 1] = it[i] \o ss[i + 1]
        <5> HIDE DEF D
        <5> QED  BY <1>6, <4>1
      <4>3. it[i] \in R /\ ss[i + 1] \in R  BY <1>1, <4>1
      <4> HIDE DEF D
      <4> QED  BY <4>2, <4>3, ConcatProperties
    <3> QED  BY <3>1, <3>2
  <2> HIDE DEF N
  <2>3. N \in SUBSET Nat  BY DEF N
  <2> QED  BY <2>1, <2>2, <2>3, Induction
<1> DEFINE h == [i \in 0..n |-> IF i = 0 THEN <<>> ELSE it[i]]
<1>8. h \in [0..n -> R]
  <2>1. ASSUME NEW i \in 0..n, i # 0 PROVE it[i] \in R
    <3>1. i \in D /\ i \in Nat  BY <1>1, <2>1
    <3>2. i \in N
      <4> HIDE DEF N
      <4> QED  BY <1>7, <3>1
    <3> HIDE DEF D, R
    <3> QED  BY <3>1, <3>2
  <2>2. <<>> \in R  OBVIOUS
  <2> HIDE DEF D, R, N
  <2> QED  BY <2>1, <2>2
<1>9. IsFlattened(h, ss)
  <2>1. h[0] = <<>>  BY <1>1
  <2>2. ASSUME NEW i \in D PROVE h[i] = h[i - 1] \o ss[i]
    <3>1. h[i] = it[i]  BY <1>1
    <3>2. CASE i = 1
      <4>1. it[i] = ss[i] /\ h[i - 1] = <<>> /\ ss[i] \in R  BY <1>1, <1>6, <3>2
      <4> QED  BY <3>1, <4>1, ConcatEmptySeq
    <3>3. CASE i # 1
      <4>1. i - 1 \in 0..n /\ i - 1 # 0  BY <1>1, <3>3
      <4>2. h[i - 1] = it[i - 1]  BY <4>1
      <4>3. it[i] = it[i - 1] \o ss[i]
        <5> HIDE DEF D
        <5> QED  BY <1>6, <3>3
      <4> QED  BY <3>1, <4>2, <4>3
    <3> QED  BY <3>2, <3>3
  <2> HIDE DEF h
  <2> QED  BY <2>1, <2>2 DEF IsFlattened
<1>10. h[n] = L!FlattenSeq(ss)  BY <1>1, <1>4, <1>5
<1> HIDE DEF h
<1> QED  BY <1>8, <1>9, <1>10

\* There is one way to put them together.
LEMMA FlattenIs ==
    ASSUME NEW C, NEW ss \in Seq(Seq(C)), NEW f \in [0..Len(ss) -> Seq(C)], IsFlattened(f, ss)
    PROVE  f[Len(ss)] = L!FlattenSeq(ss)
<1> DEFINE n == Len(ss)
<1>1. PICK g \in [0..n -> Seq(C)] : IsFlattened(g, ss) /\ g[n] = L!FlattenSeq(ss)
  BY FlattenExists
<1> DEFINE N == {i \in Nat : i <= n => f[i] = g[i]}
<1>2. 0 \in N  BY <1>1 DEF IsFlattened
<1>3. ASSUME NEW i \in N PROVE i + 1 \in N
  <2> SUFFICES ASSUME i + 1 <= n PROVE f[i + 1] = g[i + 1]  OBVIOUS
  <2>1. n \in Nat /\ i + 1 \in 1..n /\ (i + 1) - 1 = i /\ i <= n  OBVIOUS
  <2>2. f[i + 1] = f[i] \o ss[i + 1]  BY <2>1 DEF IsFlattened
  <2>3. g[i + 1] = g[i] \o ss[i + 1]  BY <1>1, <2>1 DEF IsFlattened
  <2>4. f[i] = g[i]  BY <2>1
  <2> QED  BY <2>2, <2>3, <2>4
<1>4. N = Nat
  <2> HIDE DEF N
  <2>1. N \in SUBSET Nat  BY DEF N
  <2> QED  BY <1>2, <1>3, <2>1, Induction
<1>5. n \in N /\ n <= n
  <2>1. n \in Nat /\ n <= n  OBVIOUS
  <2> HIDE DEF n, N
  <2> QED  BY <1>4, <2>1
<1> QED  BY <1>1, <1>5

LEMMA FlattenType ==
    ASSUME NEW C, NEW ss \in Seq(Seq(C))
    PROVE  L!FlattenSeq(ss) \in Seq(C)
<1>1. PICK f \in [0..Len(ss) -> Seq(C)] : f[Len(ss)] = L!FlattenSeq(ss)  BY FlattenExists
<1>2. Len(ss) \in 0..Len(ss)  OBVIOUS
<1> QED  BY <1>1, <1>2

LEMMA FlattenConcat ==
    ASSUME NEW C, NEW ss \in Seq(Seq(C)), NEW tt \in Seq(Seq(C))
    PROVE  L!FlattenSeq(ss \o tt) = L!FlattenSeq(ss) \o L!FlattenSeq(tt)
<1> DEFINE n == Len(ss)
           m == Len(tt)
           R == Seq(C)
<1>1. PICK f \in [0..n -> R] : IsFlattened(f, ss) /\ f[n] = L!FlattenSeq(ss)
  BY FlattenExists
<1>2. PICK g \in [0..m -> R] : IsFlattened(g, tt) /\ g[m] = L!FlattenSeq(tt)
  BY FlattenExists
<1>3. /\ n \in Nat /\ m \in Nat
      /\ ss \o tt \in Seq(R) /\ Len(ss \o tt) = n + m
      /\ \A i \in 1..(n + m) : (ss \o tt)[i] = IF i <= n THEN ss[i] ELSE tt[i - n]
  BY ConcatProperties
<1> DEFINE a == L!FlattenSeq(ss)
           h == [i \in 0..(n + m) |-> IF i <= n THEN f[i] ELSE a \o g[i - n]]
<1>4. a \in R  BY FlattenType
<1> HIDE DEF a
<1>5. h \in [0..(n + m) -> R]
  <2>1. ASSUME NEW i \in 0..(n + m) PROVE (IF i <= n THEN f[i] ELSE a \o g[i - n]) \in R
    <3>1. CASE i <= n
      <4>1. i \in 0..n  BY <1>3, <3>1
      <4> QED  BY <3>1, <4>1
    <3>2. CASE ~(i <= n)
      <4>1. i - n \in 0..m  BY <1>3, <3>2
      <4>2. g[i - n] \in R  BY <4>1
      <4> QED  BY <1>4, <3>2, <4>2, ConcatProperties
    <3> QED  BY <3>1, <3>2
  <2> HIDE DEF n, m, R
  <2> QED  BY <2>1
<1>6. h[0] = <<>>  BY <1>1, <1>3 DEF IsFlattened
<1>7. ASSUME NEW i \in 1..(n + m) PROVE h[i] = h[i - 1] \o (ss \o tt)[i]
  <2>0. i \in Nat  BY <1>3
  <2>1. CASE i <= n
    <3>1. i \in 1..n /\ i - 1 \in 0..(n + m) /\ i - 1 <= n  BY <1>3, <2>1
    <3>2. f[i] = f[i - 1] \o ss[i]  BY <1>1, <3>1 DEF IsFlattened
    <3>3. h[i] = f[i] /\ h[i - 1] = f[i - 1] /\ (ss \o tt)[i] = ss[i]  BY <1>3, <2>1, <3>1
    <3> QED  BY <3>2, <3>3
  <2>2. CASE i > n
    <3> DEFINE k == i - n
    <3>1. k \in 1..m /\ k - 1 \in 0..m /\ k \in 0..m /\ i - 1 \in 0..(n + m)  BY <1>3, <2>2
    <3>2. g[k] = g[k - 1] \o tt[k]  BY <1>2, <3>1 DEF IsFlattened
    <3>3. h[i] = a \o g[k] /\ (ss \o tt)[i] = tt[k]  BY <1>3, <2>2
    <3>4. h[i - 1] = a \o g[k - 1]
      <4>1. CASE k = 1
        <5>1. i - 1 = n /\ k - 1 = 0 /\ n \in 0..(n + m)  BY <1>3, <4>1
        <5>2. h[i - 1] = f[n] /\ g[k - 1] = <<>>  BY <1>2, <1>3, <5>1 DEF IsFlattened
        <5>3. f[n] = a  BY <1>1 DEF a
        <5> QED  BY <1>4, <5>2, <5>3, ConcatEmptySeq
      <4>2. CASE k # 1
        <5>1. ~(i - 1 <= n) /\ (i - 1) - n = k - 1
          <6> HIDE DEF n, m
          <6> QED  BY <1>3, <2>0, <2>2, <4>2
        <5> QED  BY <3>1, <5>1
      <4> QED  BY <4>1, <4>2
    <3>5. g[k - 1] \in R /\ tt[k] \in R
      <4>1. tt \in [1..m -> R]  BY LenProperties
      <4> HIDE DEF k, m, R
      <4> QED  BY <3>1, <4>1
    <3> HIDE DEF h, k, n, m, R
    <3>6. a \o (g[k - 1] \o tt[k]) = (a \o g[k - 1]) \o tt[k]
      <4> DEFINE p == g[k - 1]
                 q == tt[k]
      <4>1. a \in Seq(C) /\ p \in Seq(C) /\ q \in Seq(C)  BY <1>4, <3>5 DEF R
      <4> HIDE DEF p, q
      <4>2. (a \o p) \o q = a \o (p \o q)  BY <4>1, ConcatAssociative, SMTT(90)
      <4> QED  BY <4>2 DEF p, q
    <3> QED  BY <3>2, <3>3, <3>4, <3>6
  <2>3. i <= n \/ i > n
    <3> HIDE DEF n
    <3> QED  BY <1>3, <2>0
  <2> HIDE DEF n, m, R, h
  <2> QED  BY <2>1, <2>2, <2>3
<1>8. h[n + m] = a \o g[m]
  <2>1. CASE m = 0
    <3>1. h[n + m] = f[n] /\ g[m] = <<>>  BY <1>2, <1>3, <2>1 DEF IsFlattened
    <3>2. f[n] = a  BY <1>1 DEF a
    <3> QED  BY <1>4, <3>1, <3>2, ConcatEmptySeq
  <2>2. CASE m # 0
    <3>1. ~(n + m <= n) /\ (n + m) - n = m  BY <1>3, <2>2
    <3> QED  BY <1>3, <3>1
  <2> QED  BY <2>1, <2>2
<1> HIDE DEF h
<1>9. IsFlattened(h, ss \o tt)  BY <1>3, <1>6, <1>7 DEF IsFlattened
<1>10. h[Len(ss \o tt)] = L!FlattenSeq(ss \o tt)  BY <1>3, <1>5, <1>9, FlattenIs
<1> QED  BY <1>2, <1>3, <1>8, <1>10 DEF a

LEMMA FlattenNone ==
    ASSUME NEW C, NEW ss \in Seq(Seq(C)), \A i \in 1..Len(ss) : ss[i] = <<>>
    PROVE  L!FlattenSeq(ss) = <<>>
<1> DEFINE f == [i \in 0..Len(ss) |-> <<>>]
<1>1. Len(ss) \in Nat /\ f \in [0..Len(ss) -> Seq(C)]  OBVIOUS
<1>2. <<>> \o <<>> = <<>>  BY ConcatEmptySeq, EmptySeq
<1>3. IsFlattened(f, ss)  BY <1>1, <1>2 DEF IsFlattened
<1>4. f[Len(ss)] = L!FlattenSeq(ss)
  <2> HIDE DEF f
  <2> QED  BY <1>1, <1>3, FlattenIs
<1> QED  BY <1>1, <1>4

LEMMA FlattenOne ==
    ASSUME NEW C, NEW s \in Seq(C)
    PROVE  L!FlattenSeq(<<s>>) = s
<1> DEFINE ss == <<s>>
           f == [i \in 0..1 |-> IF i = 0 THEN <<>> ELSE s]
<1>1. ss \in Seq(Seq(C)) /\ Len(ss) = 1 /\ ss[1] = s  OBVIOUS
<1>2. f \in [0..1 -> Seq(C)] /\ f[0] = <<>> /\ f[1] = s  OBVIOUS
<1>3. IsFlattened(f, ss)
  <2>1. f[1] = f[0] \o ss[1]  BY <1>1, <1>2, ConcatEmptySeq
  <2> HIDE DEF f, ss
  <2>2. \A i \in 1..1 : i = 1 /\ i - 1 = 0  OBVIOUS
  <2> QED  BY <1>1, <1>2, <2>1, <2>2 DEF IsFlattened
<1> HIDE DEF f, ss
<1>4. f[Len(ss)] = L!FlattenSeq(ss)  BY <1>1, <1>2, <1>3, FlattenIs
<1> QED  BY <1>1, <1>2, <1>4 DEF ss


\* What is left of a text without its spaces.
Visible(s) == L!FlattenSeq([i \in 1..Len(s) |-> IF s[i] = " " THEN <<>> ELSE <<s[i]>>])

LEMMA UnspacedIs == \A texts : L!Unspaced(texts) = Visible(L!FlattenSeq(texts))
BY DEF L!Unspaced, Visible

LEMMA PiecesAre ==
    ASSUME NEW C, NEW s \in Seq(C)
    PROVE  [i \in 1..Len(s) |-> IF s[i] = " " THEN <<>> ELSE <<s[i]>>] \in Seq(Seq(C))
<1>1. \A i \in 1..Len(s) : (IF s[i] = " " THEN <<>> ELSE <<s[i]>>) \in Seq(C)
  <2> SUFFICES ASSUME NEW i \in 1..Len(s)
               PROVE  (IF s[i] = " " THEN <<>> ELSE <<s[i]>>) \in Seq(C)
    OBVIOUS
  <2>1. s[i] \in C  OBVIOUS
  <2>2. <<s[i]>> \in Seq(C) /\ <<>> \in Seq(C)  BY <2>1
  <2> QED  BY <2>2
<1>2. Len(s) \in Nat  OBVIOUS
<1> DEFINE pieces == [i \in 1..Len(s) |-> IF s[i] = " " THEN <<>> ELSE <<s[i]>>]
<1>3. pieces \in [1..Len(s) -> Seq(C)]  BY <1>1
<1> HIDE DEF pieces
<1>4. pieces \in Seq(Seq(C))  BY <1>2, <1>3, FunctionIsSeq
<1> QED  BY <1>4 DEF pieces

LEMMA VisibleType ==
    ASSUME NEW C, NEW s \in Seq(C)
    PROVE  Visible(s) \in Seq(C)
BY PiecesAre, FlattenType DEF Visible

LEMMA VisibleConcat ==
    ASSUME NEW C, NEW s \in Seq(C), NEW t \in Seq(C)
    PROVE  Visible(s \o t) = Visible(s) \o Visible(t)
<1> DEFINE piece(c) == IF c = " " THEN <<>> ELSE <<c>>
           pieces(q) == [i \in 1..Len(q) |-> piece(q[i])]
<1>1. /\ pieces(s) \in Seq(Seq(C)) /\ pieces(t) \in Seq(Seq(C))
      /\ pieces(s \o t) \in Seq(Seq(C))
  <2>1. s \o t \in Seq(C)  OBVIOUS
  <2> QED  BY <2>1, PiecesAre
<1>2. Len(s) \in Nat /\ Len(t) \in Nat /\ Len(s \o t) = Len(s) + Len(t)  OBVIOUS
<1>3. \A i \in 1..(Len(s) + Len(t)) : (s \o t)[i] = IF i <= Len(s) THEN s[i] ELSE t[i - Len(s)]
  BY ConcatProperties
<1> HIDE DEF piece
<1>4. pieces(s \o t) = pieces(s) \o pieces(t)
  <2>1. /\ Len(pieces(s)) = Len(s) /\ Len(pieces(t)) = Len(t)
        /\ Len(pieces(s \o t)) = Len(s) + Len(t)
    BY <1>2
  <2>2. \A i \in 1..(Len(s) + Len(t)) :
          pieces(s \o t)[i] = IF i <= Len(s) THEN pieces(s)[i] ELSE pieces(t)[i - Len(s)]
    <3> SUFFICES ASSUME NEW i \in 1..(Len(s) + Len(t))
                 PROVE  pieces(s \o t)[i]
                          = IF i <= Len(s) THEN pieces(s)[i] ELSE pieces(t)[i - Len(s)]
      OBVIOUS
    <3>1. pieces(s \o t)[i] = piece((s \o t)[i])  BY <1>2
    <3>2. CASE i <= Len(s)
      <4>1. i \in 1..Len(s)  BY <1>2, <3>2
      <4>2. pieces(s)[i] = piece(s[i])  BY <4>1
      <4> HIDE DEF pieces
      <4> QED  BY <1>3, <3>1, <3>2, <4>2
    <3>3. CASE ~(i <= Len(s))
      <4>1. i - Len(s) \in 1..Len(t)  BY <1>2, <3>3
      <4>2. pieces(t)[i - Len(s)] = piece(t[i - Len(s)])  BY <4>1
      <4> HIDE DEF pieces
      <4> QED  BY <1>3, <3>1, <3>3, <4>2
    <3> QED  BY <3>2, <3>3
  <2> HIDE DEF pieces
  <2> DEFINE a == pieces(s)
             b == pieces(t)
             both == a \o b
  <2>3. /\ both \in Seq(Seq(C)) /\ Len(both) = Len(s) + Len(t)
        /\ \A i \in 1..(Len(s) + Len(t)) :
             both[i] = IF i <= Len(s) THEN a[i] ELSE b[i - Len(s)]
    <3>1. a \in Seq(Seq(C)) /\ b \in Seq(Seq(C)) /\ Len(a) = Len(s) /\ Len(b) = Len(t)
      BY <1>1, <2>1
    <3> HIDE DEF a, b
    <3>2. /\ both \in Seq(Seq(C)) /\ Len(both) = Len(a) + Len(b)
          /\ \A i \in 1..(Len(a) + Len(b)) :
               both[i] = IF i <= Len(a) THEN a[i] ELSE b[i - Len(a)]
      BY <3>1, ConcatProperties
    <3> QED  BY <3>1, <3>2
  <2> HIDE DEF both
  <2>4. pieces(s \o t) = both  BY <1>1, <2>1, <2>2, <2>3, SeqEqual
  <2> QED  BY <2>4 DEF both
<1>5. \A q : Visible(q) = L!FlattenSeq(pieces(q))  BY DEF Visible, piece
<1> HIDE DEF pieces
<1> QED  BY <1>1, <1>4, <1>5, FlattenConcat

OnlySpaces(s) == \A i \in 1..Len(s) : s[i] = " "

LEMMA SpacesAreNotVisible ==
    ASSUME NEW C, NEW s \in Seq(C), OnlySpaces(s)
    PROVE  Visible(s) = <<>>
<1> DEFINE pieces == [i \in 1..Len(s) |-> IF s[i] = " " THEN <<>> ELSE <<s[i]>>]
<1>1. Len(s) \in Nat  OBVIOUS
<1>2. pieces \in Seq(Seq(C))  BY PiecesAre
<1>3. Len(pieces) = Len(s)  BY <1>1
<1>4. \A i \in 1..Len(s) : pieces[i] = <<>>  BY DEF OnlySpaces
<1> HIDE DEF pieces
<1>5. L!FlattenSeq(pieces) = <<>>  BY <1>2, <1>3, <1>4, FlattenNone
<1> QED  BY <1>5 DEF Visible, pieces

LEMMA NothingVisible == Visible(<<>>) = <<>> /\ Visible(<<" ">>) = <<>>
<1>1. Visible(<<>>) = <<>>
  <2>1. <<>> \in Seq({" "}) /\ OnlySpaces(<<>>)
    <3>1. \A i \in 1..Len(<<>>) : FALSE  BY EmptySeq
    <3> QED  BY <3>1, EmptySeq DEF OnlySpaces
  <2> QED  BY <2>1, SpacesAreNotVisible
<1>2. Visible(<<" ">>) = <<>>
  <2> DEFINE s == <<" ">>
  <2>1. s \in Seq({" "}) /\ Len(s) = 1 /\ s[1] = " "  OBVIOUS
  <2>2. OnlySpaces(s)
    <3>1. \A i \in 1..1 : i = 1  OBVIOUS
    <3> HIDE DEF s
    <3> QED  BY <2>1, <3>1 DEF OnlySpaces
  <2> HIDE DEF s
  <2>3. Visible(s) = <<>>  BY <2>1, <2>2, SpacesAreNotVisible
  <2> QED  BY <2>3 DEF s
<1> QED  BY <1>1, <1>2

-----------------------------------------------------------------------------
(* Beginnings and ends.                                                     *)

LEMMA BeginningIsPrefix ==
    ASSUME NEW C, NEW s \in Seq(C), NEW t \in Seq(C)
    PROVE  L!IsPrefix(s, s \o t)
<1>1. s \o t \in Seq(C) /\ Len(s \o t) = Len(s) + Len(t) /\ Len(s) \in Nat /\ Len(t) \in Nat
  OBVIOUS
<1>2. \A i \in 1..Len(s) : (s \o t)[i] = s[i] /\ s[i] \in C  OBVIOUS
<1>3. /\ SubSeq(s \o t, 1, Len(s)) \in Seq(C) /\ Len(SubSeq(s \o t, 1, Len(s))) = Len(s)
      /\ \A i \in 1..Len(s) : SubSeq(s \o t, 1, Len(s))[i] = s[i]
  <2> DEFINE u == s \o t
  <2>1. \A i \in 1..Len(s) : u[i] = s[i] /\ u[i] \in C  BY <1>2
  <2> HIDE DEF u
  <2>2. /\ SubSeq(u, 1, Len(s)) \in Seq(C)
        /\ Len(SubSeq(u, 1, Len(s))) = IF 1 <= Len(s) THEN Len(s) - 1 + 1 ELSE 0
        /\ \A i \in 1..(Len(s) - 1 + 1) : SubSeq(u, 1, Len(s))[i] = u[1 + i - 1]
    BY <1>1, <2>1, SubSeqProperties
  <2>3. /\ SubSeq(u, 1, Len(s)) \in Seq(C) /\ Len(SubSeq(u, 1, Len(s))) = Len(s)
        /\ \A i \in 1..Len(s) : SubSeq(u, 1, Len(s))[i] = s[i]
    BY <1>1, <2>1, <2>2
  <2> QED  BY <2>3 DEF u
<1>4. SubSeq(s \o t, 1, Len(s)) = s
  <2> DEFINE v == SubSeq(s \o t, 1, Len(s))
  <2>1. v \in Seq(C) /\ Len(v) = Len(s) /\ \A i \in 1..Len(s) : v[i] = s[i]  BY <1>3
  <2> HIDE DEF v
  <2>2. v = s  BY <2>1, SeqEqual
  <2> QED  BY <2>2 DEF v
<1>5. SubSeq(s, 1, Len(s)) = s  BY SubSeqFull
<1> QED  BY <1>1, <1>4, <1>5 DEF L!IsPrefix

LEMMA Reversed ==
    ASSUME NEW C, NEW s \in Seq(C)
    PROVE  /\ L!Reverse(s) \in Seq(C) /\ Len(L!Reverse(s)) = Len(s)
           /\ \A i \in 1..Len(s) : L!Reverse(s)[i] = s[(Len(s) - i) + 1]
<1>1. \A i \in 1..Len(s) : s[(Len(s) - i) + 1] \in C
  <2> SUFFICES ASSUME NEW i \in 1..Len(s) PROVE s[(Len(s) - i) + 1] \in C  OBVIOUS
  <2>1. (Len(s) - i) + 1 \in 1..Len(s)  OBVIOUS
  <2> QED  BY <2>1
<1>2. L!Reverse(s) \in [1..Len(s) -> C]  BY <1>1 DEF L!Reverse
<1>3. Len(s) \in Nat  OBVIOUS
<1> QED  BY <1>2, <1>3, FunctionIsSeq DEF L!Reverse

LEMMA EndIsSuffix ==
    ASSUME NEW C, NEW s \in Seq(C), NEW u \in Seq(C)
    PROVE  L!IsSuffix(s, u \o s)
<1> DEFINE t == u \o s
           rs == L!Reverse(s)
           rt == L!Reverse(t)
           n == Len(s)
<1>1. /\ t \in Seq(C) /\ Len(t) = Len(u) + n /\ n \in Nat /\ Len(u) \in Nat
      /\ \A i \in 1..(Len(u) + n) : t[i] = IF i <= Len(u) THEN u[i] ELSE s[i - Len(u)]
  BY ConcatProperties
<1>2. rs \in Seq(C) /\ Len(rs) = n /\ \A i \in 1..n : rs[i] = s[(n - i) + 1]
  BY Reversed
<1> HIDE DEF t
<1>3. /\ rt \in Seq(C) /\ Len(rt) = Len(u) + n
      /\ \A i \in 1..(Len(u) + n) : rt[i] = t[((Len(u) + n) - i) + 1]
  BY <1>1, Reversed, SMTT(60)
<1> HIDE DEF rs, rt, n
<1>4. ASSUME NEW i \in 1..n PROVE rt[i] = rs[i]
  <2> DEFINE j == ((Len(u) + n) - i) + 1
  <2>1. i \in 1..(Len(u) + n) /\ j \in 1..(Len(u) + n) /\ ~(j <= Len(u))
        /\ j - Len(u) = (n - i) + 1
    BY <1>1
  <2> HIDE DEF j
  <2>2. t[j] = s[(n - i) + 1]  BY <1>1, <2>1
  <2>3. rt[i] = t[j]  BY <1>3, <2>1 DEF j
  <2> QED  BY <1>2, <2>2, <2>3
<1>5. SubSeq(rt, 1, n) = SubSeq(rs, 1, n)
  <2>1. \A i \in 1..n : rt[i] \in C /\ rs[i] \in C
    <3>1. \A i \in 1..n : rs[i] \in C  BY <1>2
    <3> QED  BY <1>4, <3>1
  <2>2. /\ SubSeq(rt, 1, n) \in Seq(C)
        /\ Len(SubSeq(rt, 1, n)) = IF 1 <= n THEN n - 1 + 1 ELSE 0
        /\ \A i \in 1..(n - 1 + 1) : SubSeq(rt, 1, n)[i] = rt[1 + i - 1]
    BY <1>1, <2>1, SubSeqProperties
  <2>3. /\ SubSeq(rs, 1, n) \in Seq(C)
        /\ Len(SubSeq(rs, 1, n)) = IF 1 <= n THEN n - 1 + 1 ELSE 0
        /\ \A i \in 1..(n - 1 + 1) : SubSeq(rs, 1, n)[i] = rs[1 + i - 1]
    BY <1>1, <2>1, SubSeqProperties
  <2> DEFINE x == SubSeq(rt, 1, n)
             y == SubSeq(rs, 1, n)
  <2>4. x \in Seq(C) /\ y \in Seq(C) /\ Len(x) = Len(y) /\ Len(x) = n
    BY <1>1, <2>2, <2>3
  <2>5. ASSUME NEW i \in 1..n PROVE x[i] = y[i]
    <3>1. i \in 1..(n - 1 + 1) /\ 1 + i - 1 = i  BY <1>1
    <3>2. x[i] = rt[i] /\ y[i] = rs[i]  BY <2>2, <2>3, <3>1
    <3> QED  BY <1>4, <3>2
  <2> HIDE DEF x, y
  <2>6. x = y  BY <2>4, <2>5, SeqEqual
  <2> QED  BY <2>6 DEF x, y
<1>6. Len(rs) <= Len(rt)  BY <1>1, <1>2, <1>3
<1> QED  BY <1>2, <1>5, <1>6 DEF L!IsSuffix, L!IsPrefix, rs, rt, t

LEMMA SuffixIsEnd ==
    ASSUME NEW C, NEW s \in Seq(C), NEW t \in Seq(C), L!IsSuffix(s, t)
    PROVE  \E u \in Seq(C) : t = u \o s
<1> DEFINE rs == L!Reverse(s)
           rt == L!Reverse(t)
           n == Len(s)
           m == Len(t)
           u == SubSeq(t, 1, m - n)
<1>1. n \in Nat /\ m \in Nat  OBVIOUS
<1>2. rs \in Seq(C) /\ Len(rs) = n /\ \A i \in 1..n : rs[i] = s[(n - i) + 1]
  BY Reversed
<1>3. rt \in Seq(C) /\ Len(rt) = m /\ \A i \in 1..m : rt[i] = t[(m - i) + 1]
  BY Reversed
<1>4. Len(rs) <= Len(rt) /\ SubSeq(rs, 1, Len(rs)) = SubSeq(rt, 1, Len(rs))
  BY DEF L!IsSuffix, L!IsPrefix
<1> HIDE DEF rs, rt
<1>5. n <= m  BY <1>2, <1>3, <1>4
<1> HIDE DEF n, m
<1>6. ASSUME NEW i \in 1..n PROVE rs[i] = rt[i]
  <2>1. \A k \in 1..n : rt[k] \in C /\ rs[k] \in C
    <3>1. 1..n \subseteq 1..m  BY <1>1, <1>5
    <3>2. rs \in [1..n -> C] /\ rt \in [1..m -> C]  BY <1>2, <1>3, LenProperties
    <3> QED  BY <3>1, <3>2
  <2>2. i \in 1..(n - 1 + 1) /\ 1 + i - 1 = i  BY <1>1
  <2>3. \A k \in 1..(n - 1 + 1) : SubSeq(rt, 1, n)[k] = rt[1 + k - 1]
    BY <1>1, <2>1, SubSeqProperties
  <2>4. \A k \in 1..(n - 1 + 1) : SubSeq(rs, 1, n)[k] = rs[1 + k - 1]
    BY <1>1, <2>1, SubSeqProperties
  <2>5. SubSeq(rt, 1, n)[i] = rt[i] /\ SubSeq(rs, 1, n)[i] = rs[i]  BY <2>2, <2>3, <2>4
  <2> QED  BY <1>2, <1>4, <2>5
<1>7. ASSUME NEW i \in 1..n PROVE s[i] = t[(m - n) + i]
  <2> DEFINE k == (n - i) + 1
  <2>1. k \in 1..n /\ k \in 1..m /\ (n - k) + 1 = i /\ (m - k) + 1 = (m - n) + i
    BY <1>1, <1>5, SMTT(30)
  <2> HIDE DEF k
  <2> QED  BY <1>2, <1>3, <1>6, <2>1, SMTT(60)
<1>8. u \in Seq(C) /\ Len(u) = m - n /\ \A i \in 1..(m - n) : u[i] = t[i]
  <2>1. m - n \in 0..m  BY <1>1, <1>5
  <2>2. t \in [1..m -> C]  BY LenProperties DEF m
  <2>3. \A i \in 1..(m - n) : t[i] \in C
    <3>1. 1..(m - n) \subseteq 1..m  BY <1>1, <2>1
    <3> QED  BY <2>2, <3>1
  <2>4. /\ u \in Seq(C) /\ Len(u) = IF 1 <= m - n THEN (m - n) - 1 + 1 ELSE 0
        /\ \A i \in 1..((m - n) - 1 + 1) : u[i] = t[1 + i - 1]
    BY <1>1, <2>1, <2>3, SubSeqProperties
  <2> HIDE DEF u
  <2> QED  BY <1>1, <2>1, <2>4
<1> HIDE DEF u
<1>9. t = u \o s
  <2> DEFINE v == u \o s
  <2>1. /\ v \in Seq(C) /\ Len(v) = Len(u) + Len(s)
        /\ \A i \in 1..(Len(u) + Len(s)) : v[i] = IF i <= Len(u) THEN u[i] ELSE s[i - Len(u)]
    BY <1>8, ConcatProperties
  <2>2. Len(s) = n /\ Len(t) = m /\ Len(v) = m  BY <1>1, <1>5, <1>8, <2>1 DEF n, m
  <2> HIDE DEF v
  <2>3. ASSUME NEW i \in 1..m PROVE t[i] = v[i]
    <3>1. CASE i <= m - n
      <4>1. i \in 1..(m - n) /\ i \in 1..(Len(u) + Len(s))  BY <1>1, <1>8, <2>2, <3>1
      <4> QED  BY <1>8, <2>1, <3>1, <4>1
    <3>2. CASE ~(i <= m - n)
      <4>1. i - (m - n) \in 1..n /\ (m - n) + (i - (m - n)) = i /\ i \in 1..(Len(u) + Len(s))
        BY <1>1, <1>5, <1>8, <2>2, <3>2
      <4>2. v[i] = s[i - (m - n)]  BY <1>8, <2>1, <3>2, <4>1
      <4> QED  BY <1>7, <4>1, <4>2
    <3> QED  BY <3>1, <3>2
  <2>4. t = v  BY <2>1, <2>2, <2>3, SeqEqual
  <2> QED  BY <2>4 DEF v
<1> QED  BY <1>8, <1>9


-----------------------------------------------------------------------------
(* Where a text is split.                                                   *)

\* The search ends below limit, at as many characters as fit.
LEMMA LowIs ==
    ASSUME NEW C, NEW s \in Seq(C), s # <<>>, ~(Len(s) <= RowChars /\ L!Fits(s, Len(s)))
    PROVE  L!Low(s) \in 0..(Len(s) - 1) /\ L!Low(s) <= RowChars /\ L!Fits(s, L!Low(s))
<1> DEFINE limit == IF Len(s) <= RowChars THEN Len(s) ELSE RowChars + 1
           R == 0..limit
           D == R \X R
           Mid(x) == (x[1] + x[2]) \div 2
           Half(x) == IF L!Fits(s, Mid(x)) THEN <<Mid(x), x[2]>> ELSE <<x[1], Mid(x)>>
           Of(f, x) == IF x[1] + 1 >= x[2] THEN x[1] ELSE f[Half(x)]
           Searches(f) == f = [x \in D |-> Of(f, x)]
           it == CHOOSE f : Searches(f)
           rank == [x \in D |-> IF x[1] < x[2] THEN x[2] - x[1] ELSE 0]
<1>1. Len(s) \in Nat /\ RowChars \in Nat /\ limit \in 1..Len(s) /\ limit <= RowChars + 1
  BY EmptySeq, LogAssumption
<1>2. \A x \in D : x[1] \in R /\ x[2] \in R  OBVIOUS
<1>3. ASSUME NEW x \in D, ~(x[1] + 1 >= x[2])
      PROVE  /\ Half(x) \in D /\ Half(x)[1] < Half(x)[2] /\ rank[Half(x)] < rank[x]
             /\ Half(x)[1] = x[1] \/ L!Fits(s, Half(x)[1])
             /\ Half(x)[2] <= x[2]
  <2>1. Mid(x) \in Nat /\ x[1] < Mid(x) /\ Mid(x) < x[2]  BY <1>1, <1>2, <1>3
  <2>2. Mid(x) \in R  BY <1>1, <1>2, <2>1
  <2> DEFINE h == Half(x)
  <2>3. \/ h = <<Mid(x), x[2]>> /\ L!Fits(s, Mid(x))
        \/ h = <<x[1], Mid(x)>>
    OBVIOUS
  <2> HIDE DEF h, Mid, R
  <2>4. /\ h \in D /\ h[1] < h[2]
        /\ h[1] = x[1] \/ L!Fits(s, h[1])
        /\ h[1] >= x[1] /\ h[2] <= x[2] /\ h[2] - h[1] < x[2] - x[1]
    BY <1>1, <1>2, <2>1, <2>2, <2>3 DEF R
  <2>5. rank[h] = h[2] - h[1] /\ rank[x] = x[2] - x[1]
    <3>1. x[1] < x[2]  BY <1>1, <1>2, <2>1 DEF R
    <3> HIDE DEF D
    <3> QED  BY <2>4, <3>1
  <2> HIDE DEF rank, D
  <2> QED  BY <2>4, <2>5 DEF h
<1>4. \E f \in [D -> R] : Searches(f)
  <2> DEFINE G == [a \in D \X [D -> R] |-> Of(a[2], a[1])]
  <2>1. \A x \in D : \A f \in [D -> R] : Of(f, x) \in R
    <3> HIDE DEF D, R, Half
    <3> QED  BY <1>2, <1>3
  <2>2. \A x \in D : \A f \in [D -> R] : G[<<x, f>>] = Of(f, x)
    <3> HIDE DEF Of, D, R
    <3> QED  OBVIOUS
  <2>3. G \in [D \X [D -> R] -> R]
    <3> HIDE DEF Of, D, R
    <3> QED  BY <2>1
  <2>4. rank \in [D -> 0..limit]
    <3>1. ASSUME NEW x \in D PROVE (IF x[1] < x[2] THEN x[2] - x[1] ELSE 0) \in 0..limit
      <4> HIDE DEF D, limit
      <4> QED  BY <1>1, <1>2
    <3> HIDE DEF D, limit
    <3> QED  BY <3>1
  <2>5. IsBefore(G, D, R, rank)
    <3> SUFFICES ASSUME NEW x \in D, NEW f \in [D -> R], NEW g \in [D -> R],
                        \A y \in D : rank[y] < rank[x] => f[y] = g[y]
                 PROVE  G[<<x, f>>] = G[<<x, g>>]
      <4> HIDE DEF D, R, G, rank
      <4> QED  BY DEF IsBefore
    <3>1. Of(f, x) = Of(g, x)
      <4> HIDE DEF D, R, Half, rank
      <4> QED  BY <1>3
    <3> HIDE DEF Of, D, R, G
    <3> QED  BY <2>2, <3>1
  <2>6. PICK f \in [D -> R] : \A x \in D : f[x] = G[<<x, f>>]
    <3>1. limit \in Nat /\ 0 \in R  BY <1>1
    <3> HIDE DEF D, G, rank, R, limit
    <3>2. IsRecursive(G, D, R)  BY <2>3, <2>4, <2>5, <3>1 DEF IsRecursive
    <3> QED  BY <3>2, Recursion
  <2>7. Searches(f)
    <3> HIDE DEF Of, D, R, G
    <3> QED  BY <2>2, <2>6
  <2> HIDE DEF Searches
  <2> QED  BY <2>7
<1>5. Searches(it)
  <2> HIDE DEF Searches
  <2> QED  BY <1>4
<1>6. L!Low(s) = it[<<0, limit>>]  BY DEF L!Low
<1> HIDE DEF it
<1>7. \A x \in D : it[x] = Of(it, x)
  <2> HIDE DEF Of, D
  <2> QED  BY <1>5
<1> DEFINE Found(x) == /\ it[x] \in x[1]..(x[2] - 1)
                       /\ it[x] = x[1] \/ L!Fits(s, it[x])
           N == {n \in Nat : \A x \in D : x[1] < x[2] /\ rank[x] <= n => Found(x)}
<1> HIDE DEF Searches
<1>8. 0 \in N
  <2>1. \A x \in D : x[1] < x[2] => rank[x] > 0
    <3> HIDE DEF D
    <3> QED  BY <1>1, <1>2
  <2>2. \A x \in D : rank[x] \in Int
    <3> HIDE DEF D
    <3> QED  BY <1>1, <1>2
  <2> HIDE DEF rank, Found, D
  <2> QED  BY <2>1, <2>2
<1>9. ASSUME NEW n \in N PROVE n + 1 \in N
  <2> SUFFICES ASSUME NEW x \in D, x[1] < x[2], rank[x] <= n + 1 PROVE Found(x)
    <3> HIDE DEF D, Found, rank
    <3> QED  OBVIOUS
  <2>1. CASE x[1] + 1 >= x[2]
    <3>1. it[x] = x[1]  BY <1>7, <2>1
    <3> HIDE DEF D
    <3> QED  BY <1>1, <1>2, <2>1, <3>1
  <2>2. CASE ~(x[1] + 1 >= x[2])
    <3>1. it[x] = it[Half(x)]
      <4> HIDE DEF D, Half
      <4> QED  BY <1>7, <2>2
    <3> DEFINE h == Half(x)
    <3>2. /\ h \in D /\ h[1] < h[2] /\ rank[h] < rank[x]
          /\ h[1] = x[1] \/ L!Fits(s, h[1])
          /\ h[2] <= x[2] /\ h[1] >= x[1]
      <4>1. h[1] >= x[1]
        <5>1. Mid(x) >= x[1]  BY <1>1, <1>2, <2>2
        <5> HIDE DEF Mid, D
        <5> QED  BY <1>1, <1>2, <5>1
      <4> HIDE DEF rank, D, Half
      <4> QED  BY <1>3, <2>2, <4>1
    <3> HIDE DEF h, Half
    <3>3. rank[h] <= n
      <4>1. \A y \in D : rank[y] \in Int
        <5> HIDE DEF D
        <5> QED  BY <1>1, <1>2
      <4>2. n \in Nat  OBVIOUS
      <4> HIDE DEF rank, D, N
      <4> QED  BY <3>2, <4>1, <4>2
    <3>4. Found(h)
      <4> HIDE DEF rank, D, Found
      <4> QED  BY <3>2, <3>3
    <3>5. it[x] = it[h]  BY <3>1 DEF h
    <3> HIDE DEF rank, D
    <3> QED  BY <1>1, <1>2, <3>2, <3>4, <3>5, SMTT(30)
  <2> QED  BY <2>1, <2>2
<1>10. N = Nat
  <2> HIDE DEF N
  <2>1. N \in SUBSET Nat  BY DEF N
  <2> QED  BY <1>8, <1>9, <2>1, Induction
<1>11. Found(<<0, limit>>)
  <2> DEFINE x == <<0, limit>>
  <2>1. x \in D /\ x[1] = 0 /\ x[2] = limit  BY <1>1
  <2>2. x[1] < x[2] /\ rank[x] = limit
    <3> HIDE DEF D, limit, x
    <3> QED  BY <1>1, <2>1
  <2>3. limit \in N
    <3> HIDE DEF N, limit
    <3> QED  BY <1>1, <1>10
  <2>4. limit <= limit
    <3> HIDE DEF limit
    <3> QED  BY <1>1
  <2> HIDE DEF rank, D, Found, x, limit
  <2>5. Found(x)  BY <2>1, <2>2, <2>3, <2>4
  <2> QED  BY <2>5 DEF x
<1>12. L!Fits(s, 0)  BY NoWidth, LogAssumption DEF L!Fits
<1>13. it[<<0, limit>>] \in 0..(limit - 1) /\ L!Fits(s, it[<<0, limit>>])
  <2> HIDE DEF limit
  <2> QED  BY <1>11, <1>12
<1> HIDE DEF limit, Found
<1> QED  BY <1>1, <1>6, <1>13

LEMMA SplitBackIs ==
    ASSUME NEW s, NEW low \in Nat
    PROVE  L!SplitBack(s, low) \in 0..low
<1> DEFINE R == 0..low
           Of(f, p) == IF p = 0 \/ s[p] \in {" ", ","} THEN p
                       ELSE IF (low - p) * 5 > low THEN low ELSE f[p - 1]
           Goes(f) == f = [p \in R |-> Of(f, p)]
           it == CHOOSE f : Goes(f)
<1>1. \A p \in R : p # 0 => p - 1 \in R  OBVIOUS
<1>2. \E f \in [R -> R] : Goes(f)
  <2> DEFINE G == [a \in R \X [R -> R] |-> Of(a[2], a[1])]
             rank == [p \in R |-> p]
  <2>1. \A p \in R : \A f \in [R -> R] : Of(f, p) \in R
    <3>1. low \in R  OBVIOUS
    <3> HIDE DEF R
    <3> QED  BY <1>1, <3>1
  <2>2. \A p \in R : \A f \in [R -> R] : G[<<p, f>>] = Of(f, p)
    <3> HIDE DEF Of, R
    <3> QED  OBVIOUS
  <2>3. G \in [R \X [R -> R] -> R]
    <3> HIDE DEF Of, R
    <3> QED  BY <2>1
  <2>4. rank \in [R -> 0..low] /\ 0 \in R  OBVIOUS
  <2>5. IsBefore(G, R, R, rank)
    <3> SUFFICES ASSUME NEW p \in R, NEW f \in [R -> R], NEW g \in [R -> R],
                        \A y \in R : rank[y] < rank[p] => f[y] = g[y]
                 PROVE  G[<<p, f>>] = G[<<p, g>>]
      <4> HIDE DEF R, G, rank
      <4> QED  BY DEF IsBefore
    <3>1. p # 0 => f[p - 1] = g[p - 1]  BY <1>1
    <3>2. Of(f, p) = Of(g, p)  BY <3>1
    <3> HIDE DEF Of, R, G
    <3> QED  BY <2>2, <3>2
  <2>6. PICK f \in [R -> R] : \A p \in R : f[p] = G[<<p, f>>]
    <3> HIDE DEF G, rank, R
    <3>1. IsRecursive(G, R, R)  BY <2>3, <2>4, <2>5 DEF IsRecursive
    <3> QED  BY <3>1, Recursion
  <2>7. Goes(f)
    <3> HIDE DEF Of, R, G
    <3> QED  BY <2>2, <2>6
  <2> HIDE DEF Goes
  <2> QED  BY <2>7
<1>3. Goes(it)
  <2> HIDE DEF Goes
  <2> QED  BY <1>2
<1>4. L!SplitBack(s, low) = it[low]  BY DEF L!SplitBack
<1> HIDE DEF it
<1>5. \A p \in R : it[p] = Of(it, p)
  <2> HIDE DEF Of, R
  <2> QED  BY <1>3
<1> DEFINE N == {n \in Nat : n \in R => it[n] \in R}
<1>6. 0 \in N  BY <1>5
<1>7. ASSUME NEW n \in N PROVE n + 1 \in N
  <2> SUFFICES ASSUME n + 1 \in R PROVE it[n + 1] \in R  OBVIOUS
  <2>1. n \in R /\ (n + 1) - 1 = n /\ low \in R /\ it[n] \in R  OBVIOUS
  <2> HIDE DEF R
  <2> QED  BY <1>5, <2>1
<1>8. N = Nat
  <2> HIDE DEF N
  <2>1. N \in SUBSET Nat  BY DEF N
  <2> QED  BY <1>6, <1>7, <2>1, Induction
<1>9. low \in N /\ low \in R  BY <1>8
<1> QED  BY <1>4, <1>9

\* A row has no more characters than fit, nor than there is place for.
LEMMA SplitPoint ==
    ASSUME NEW C, NEW s \in Seq(C), s # <<>>
    PROVE  /\ L!FindSplitPoint(s) \in 0..Len(s) /\ L!FindSplitPoint(s) <= RowChars
           /\ L!Fits(s, L!FindSplitPoint(s))
<1>1. Len(s) \in Nat  OBVIOUS
<1>2. CASE Len(s) <= RowChars /\ L!Fits(s, Len(s))
  <2>1. L!FindSplitPoint(s) = Len(s)  BY <1>2 DEF L!FindSplitPoint
  <2> QED  BY <1>1, <1>2, <2>1
<1>3. CASE ~(Len(s) <= RowChars /\ L!Fits(s, Len(s)))
  <2> DEFINE low == L!Low(s)
             p == L!FindSplitPoint(s)
  <2>1. low \in 0..(Len(s) - 1) /\ low <= RowChars /\ L!Fits(s, low)  BY <1>3, LowIs
  <2>2. low \in Nat  BY <1>1, <2>1
  <2>3. p = low \/ p = L!SplitBack(s, low)  BY <1>3 DEF L!FindSplitPoint
  <2>4. L!SplitBack(s, low) \in 0..low
    <3> HIDE DEF low
    <3> QED  BY <2>2, SplitBackIs
  <2>5. p \in 0..low
    <3> HIDE DEF low, p
    <3> QED  BY <2>2, <2>3, <2>4
  <2>6. L!Fits(s, p)
    <3> HIDE DEF low, p
    <3>1. /\ L!TextWidth(s, low) \in Nat /\ L!TextWidth(s, p) \in Nat
          /\ L!TextWidth(s, p) <= L!TextWidth(s, low)
      BY <2>2, <2>5, TextWidths
    <3> QED  BY <2>1, <3>1, LogAssumption DEF L!Fits
  <2> HIDE DEF low, p
  <2>7. p \in 0..Len(s) /\ p <= RowChars  BY <1>1, <2>1, <2>5, LogAssumption
  <2> QED  BY <2>6, <2>7 DEF p
<1> QED  BY <1>2, <1>3


-----------------------------------------------------------------------------
(* The rows of a text.                                                      *)

\* A text from character i on.
From(s, i) == SubSeq(s, i, Len(s))

\* Where the rest of s begins when p characters of what is left from i on make a row.
NextOf(s, i, p) == IF p < Len(From(s, i)) /\ s[i + p] = " " THEN i + p + 1 ELSE i + p

\* The first p characters and what follows are the text.
LEMMA SplitAt ==
    ASSUME NEW C, NEW s \in Seq(C), NEW p \in 0..Len(s)
    PROVE  /\ SubSeq(s, 1, p) \in Seq(C) /\ Len(SubSeq(s, 1, p)) = p
           /\ \A i \in 1..p : SubSeq(s, 1, p)[i] = s[i]
           /\ From(s, p + 1) \in Seq(C) /\ Len(From(s, p + 1)) = Len(s) - p
           /\ \A i \in 1..(Len(s) - p) : From(s, p + 1)[i] = s[p + i]
           /\ s = SubSeq(s, 1, p) \o From(s, p + 1)
<1> DEFINE n == Len(s)
           a == SubSeq(s, 1, p)
           b == From(s, p + 1)
<1>1. n \in Nat /\ s \in [1..n -> C]  BY LenProperties
<1>2. a \in Seq(C) /\ Len(a) = p /\ \A i \in 1..p : a[i] = s[i]
  <2>1. \A i \in 1..p : s[i] \in C
    <3>1. 1..p \subseteq 1..n  BY <1>1
    <3> QED  BY <1>1, <3>1
  <2>2. /\ a \in Seq(C) /\ Len(a) = IF 1 <= p THEN p - 1 + 1 ELSE 0
        /\ \A i \in 1..(p - 1 + 1) : a[i] = s[1 + i - 1]
    BY <1>1, <2>1, SubSeqProperties
  <2> HIDE DEF a, n
  <2> QED  BY <1>1, <2>2
<1>3. b \in Seq(C) /\ Len(b) = n - p /\ \A i \in 1..(n - p) : b[i] = s[p + i]
  <2>1. \A i \in (p + 1)..n : s[i] \in C
    <3>1. (p + 1)..n \subseteq 1..n  BY <1>1
    <3> QED  BY <1>1, <3>1
  <2>2. /\ b \in Seq(C) /\ Len(b) = IF p + 1 <= n THEN n - (p + 1) + 1 ELSE 0
        /\ \A i \in 1..(n - (p + 1) + 1) : b[i] = s[(p + 1) + i - 1]
    BY <1>1, <2>1, SubSeqProperties DEF From
  <2> HIDE DEF b, n
  <2> QED  BY <1>1, <2>2
<1> HIDE DEF a, b
<1>4. s = a \o b
  <2> DEFINE v == a \o b
  <2>1. /\ v \in Seq(C) /\ Len(v) = Len(a) + Len(b)
        /\ \A i \in 1..(Len(a) + Len(b)) : v[i] = IF i <= Len(a) THEN a[i] ELSE b[i - Len(a)]
    BY <1>2, <1>3, ConcatProperties
  <2> HIDE DEF v
  <2>2. Len(v) = n  BY <1>1, <1>2, <1>3, <2>1
  <2>3. ASSUME NEW i \in 1..n PROVE s[i] = v[i]
    <3>1. CASE i <= p
      <4>1. i \in 1..p /\ i \in 1..(Len(a) + Len(b))  BY <1>1, <1>2, <1>3, <3>1
      <4> QED  BY <1>2, <2>1, <3>1, <4>1
    <3>2. CASE ~(i <= p)
      <4>1. i - p \in 1..(n - p) /\ p + (i - p) = i /\ i \in 1..(Len(a) + Len(b))
        BY <1>1, <1>2, <1>3, <3>2
      <4> QED  BY <1>2, <1>3, <2>1, <3>2, <4>1
    <3> QED  BY <3>1, <3>2
  <2>4. s = v  BY <2>1, <2>2, <2>3, SeqEqual
  <2> QED  BY <2>4 DEF v
<1> QED  BY <1>2, <1>3, <1>4 DEF a, b

\* What is left from i on, p characters of it, and what is left after them.
LEMMA FromIs ==
    ASSUME NEW C, NEW s \in Seq(C), NEW i \in 1..Len(s), NEW p \in 0..(Len(From(s, i)) - 1)
    PROVE  /\ From(s, i) \in Seq(C) /\ Len(From(s, i)) = (Len(s) - i) + 1
           /\ NextOf(s, i, p) \in i..(Len(s) + 1)
           /\ NextOf(s, i, p) <= Len(s) => From(s, NextOf(s, i, p)) \in Seq(C)
           /\ Visible(From(s, i))
                = Visible(SubSeq(From(s, i), 1, p))
                    \o (IF NextOf(s, i, p) > Len(s) THEN <<>>
                        ELSE Visible(From(s, NextOf(s, i, p))))
<1> DEFINE n == Len(s)
           t == From(s, i)
           next == NextOf(s, i, p)
<1>1. n \in Nat /\ i \in Nat  OBVIOUS
<1>2. /\ t \in Seq(C) /\ Len(t) = (n - i) + 1
      /\ \A j \in 1..((n - i) + 1) : t[j] = s[(i - 1) + j]
  <2>1. i - 1 \in 0..n /\ (i - 1) + 1 = i /\ n - (i - 1) = (n - i) + 1  BY <1>1
  <2> QED  BY <2>1, SplitAt, SMTT(60)
<1> HIDE DEF n, t
<1>a. Len(t) = (n - i) + 1 /\ Len(t) \in Nat /\ i <= n /\ n \in Nat /\ i \in Nat /\ i # 0
  BY <1>1, <1>2 DEF n
<1>3. p \in Nat /\ p < Len(t) /\ p \in 0..Len(t) /\ p + 1 \in 0..Len(t) /\ p + 1 \in 1..Len(t)
  BY <1>1, <1>2 DEF t
<1>4. t[p + 1] = s[i + p]
  <2>1. p + 1 \in 1..((n - i) + 1) /\ (i - 1) + (p + 1) = i + p  BY <1>1, <1>2, <1>3
  <2> QED  BY <1>2, <2>1
<1>5. /\ SubSeq(t, 1, p) \in Seq(C) /\ From(t, p + 1) \in Seq(C)
      /\ Len(From(t, p + 1)) = Len(t) - p
      /\ \A j \in 1..(Len(t) - p) : From(t, p + 1)[j] = t[p + j]
      /\ t = SubSeq(t, 1, p) \o From(t, p + 1)
  BY <1>2, <1>3, SplitAt, ZenonT(90)
<1> DEFINE u == From(t, p + 1)
<1>6. Visible(t) = Visible(SubSeq(t, 1, p)) \o Visible(u)
  <2> DEFINE a == SubSeq(t, 1, p)
  <2>1. t = a \o u /\ a \in Seq(C) /\ u \in Seq(C)  BY <1>5
  <2> HIDE DEF a, u
  <2>2. Visible(a \o u) = Visible(a) \o Visible(u)  BY <2>1, VisibleConcat
  <2> QED  BY <2>1, <2>2 DEF a
\* The text from a later character on is what is left of the rest.
<1>7. ASSUME NEW q \in 0..(Len(t) - 1) PROVE From(t, q + 1) = From(s, i + q)
  <2> DEFINE x == From(t, q + 1)
             y == From(s, i + q)
  <2>1. /\ x \in Seq(C) /\ Len(x) = Len(t) - q
        /\ \A j \in 1..(Len(t) - q) : x[j] = t[q + j]
    <3>1. q \in 0..Len(t)  BY <1>1, <1>2
    <3> QED  BY <1>2, <3>1, SplitAt, ZenonT(90)
  <2>2. /\ y \in Seq(C) /\ Len(y) = Len(t) - q
        /\ \A j \in 1..(Len(t) - q) : y[j] = s[((i + q) - 1) + j]
    <3>1. (i + q) - 1 \in 0..n /\ ((i + q) - 1) + 1 = i + q /\ n - ((i + q) - 1) = Len(t) - q
      BY <1>1, <1>2
    <3>2. (i + q) - 1 \in 0..Len(s) /\ Len(s) = n  BY <3>1 DEF n
    <3> DEFINE k == (i + q) - 1
    <3>3. /\ From(s, k + 1) \in Seq(C) /\ Len(From(s, k + 1)) = Len(s) - k
          /\ \A j \in 1..(Len(s) - k) : From(s, k + 1)[j] = s[k + j]
      <4> HIDE DEF k
      <4>1. k \in 0..Len(s)  BY <3>2 DEF k
      <4> QED  BY <4>1, SplitAt, ZenonT(90)
    <3> QED  BY <3>1, <3>2, <3>3
  <2> HIDE DEF x, y
  <2>3. ASSUME NEW j \in 1..(Len(t) - q) PROVE x[j] = y[j]
    <3>1. q + j \in 1..((n - i) + 1) /\ (i - 1) + (q + j) = ((i + q) - 1) + j  BY <1>a
    <3>2. t[q + j] = s[((i + q) - 1) + j]  BY <1>2, <3>1
    <3> QED  BY <2>1, <2>2, <3>2
  <2>4. x = y  BY <2>1, <2>2, <2>3, SeqEqual
  <2> QED  BY <2>4 DEF x, y
<1>8. CASE t[p + 1] = " "
  <2>1. next = i + p + 1  BY <1>3, <1>4, <1>8 DEF NextOf, t
  <2> DEFINE rest == From(u, 2)
  <2>a. Len(u) = Len(t) - p  BY <1>5
  <2>2. u \in Seq(C) /\ Len(u) = Len(t) - p /\ Len(u) \in Nat /\ 1 \in 0..Len(u) /\ u[1] = " "
    <3>1. 1 \in 1..(Len(t) - p) /\ Len(t) - p \in Nat /\ 1 \in 0..(Len(t) - p)  BY <1>a, <1>3
    <3>2. u \in Seq(C) /\ Len(u) = Len(t) - p /\ u[1] = t[p + 1]  BY <1>5, <3>1
    <3> HIDE DEF u
    <3> QED  BY <1>8, <3>1, <3>2
  <2> HIDE DEF u
  <2>3. /\ SubSeq(u, 1, 1) \in Seq(C) /\ Len(SubSeq(u, 1, 1)) = 1
        /\ \A j \in 1..1 : SubSeq(u, 1, 1)[j] = u[j]
        /\ From(u, 1 + 1) \in Seq(C) /\ Len(From(u, 1 + 1)) = Len(u) - 1
        /\ u = SubSeq(u, 1, 1) \o From(u, 1 + 1)
    <3>1. u \in Seq(C) /\ 1 \in 0..Len(u)  BY <2>2
    <3> QED  BY <3>1, SplitAt, ZenonT(90)
  <2>4. Visible(u) = Visible(rest)
    <3> DEFINE one == SubSeq(u, 1, 1)
    <3>1. one \in Seq(C) /\ OnlySpaces(one)
      <4>1. 1 \in 1..1  OBVIOUS
      <4>2. \A j \in 1..1 : j = 1  OBVIOUS
      <4>3. one[1] = " "  BY <2>2, <2>3, <4>1
      <4>4. Len(one) = 1 /\ one \in Seq(C)  BY <2>3
      <4> HIDE DEF one
      <4> QED  BY <4>2, <4>3, <4>4 DEF OnlySpaces
    <3>2. rest \in Seq(C) /\ u = one \o rest  BY <2>3
    <3> HIDE DEF one, rest
    <3>3. Visible(one) = <<>>  BY <3>1, SpacesAreNotVisible
    <3>4. Visible(one \o rest) = Visible(one) \o Visible(rest)  BY <3>1, <3>2, VisibleConcat
    <3>5. Visible(rest) \in Seq(C)  BY <3>2, VisibleType
    <3> QED  BY <3>2, <3>3, <3>4, <3>5, ConcatEmptySeq
  <2>5. CASE p + 1 = Len(t)
    <3>1. next = n + 1  BY <1>1, <1>2, <1>3, <2>1, <2>5
    <3>2. Len(rest) = 0 /\ rest \in Seq(C)
      <4>1. Len(u) - 1 = 0  BY <1>a, <1>3, <2>a, <2>5
      <4> QED  BY <2>3, <4>1
    <3>3. rest = <<>>  BY <3>2, EmptySeq
    <3>4. Visible(u) = <<>>
      <4> HIDE DEF rest
      <4> QED  BY <2>4, <3>3, NothingVisible
    <3>5. next > n /\ next \in i..(n + 1) /\ ~(next <= n)
      <4> HIDE DEF next
      <4> QED  BY <1>a, <3>1
    <3>6. Visible(t) = Visible(SubSeq(t, 1, p)) \o <<>>  BY <1>6, <3>4
    <3> QED  BY <1>2, <3>5, <3>6 DEF n, t
  <2>6. CASE p + 1 # Len(t)
    <3>1. next <= n /\ ~(next > n) /\ next \in i..(n + 1)  BY <1>1, <1>2, <1>3, <2>1, <2>6, SMTT(60)
    <3>2. From(t, (p + 1) + 1) = From(s, i + (p + 1))
      <4>1. p + 1 \in 0..(Len(t) - 1)  BY <1>2, <1>3, <2>6
      <4> QED  BY <1>7, <4>1
    <3>3. rest = From(t, (p + 1) + 1)
      <4> DEFINE y == From(t, (p + 1) + 1)
                 m == Len(t) - (p + 1)
      <4>1. /\ y \in Seq(C) /\ Len(y) = m
            /\ \A j \in 1..m : y[j] = t[(p + 1) + j]
        BY <1>2, <1>3, SplitAt, ZenonT(90)
      <4>2. /\ rest \in Seq(C) /\ Len(rest) = Len(u) - 1
            /\ \A j \in 1..(Len(u) - 1) : rest[j] = u[1 + j]
        <5>1. u \in Seq(C) /\ 1 \in 0..Len(u)  BY <2>2
        <5>2. /\ From(u, 1 + 1) \in Seq(C) /\ Len(From(u, 1 + 1)) = Len(u) - 1
              /\ \A j \in 1..(Len(u) - 1) : From(u, 1 + 1)[j] = u[1 + j]
          BY <5>1, SplitAt, ZenonT(90)
        <5>3. 1 + 1 = 2  OBVIOUS
        <5> QED  BY <5>2, <5>3, Zenon
      <4>3. m \in Nat /\ Len(u) - 1 = m
        <5> DEFINE lt == Len(t)
                   lu == Len(u)
        <5>1. lt \in Nat /\ p \in Nat /\ p < lt /\ lu = lt - p /\ p + 1 # lt
          BY <1>a, <1>3, <2>a, <2>6
        <5>2. m = lt - (p + 1)  OBVIOUS
        <5> HIDE DEF lt, lu, m
        <5> QED  BY <5>1, <5>2 DEF lu
      <4> HIDE DEF rest, y, m
      <4>4. ASSUME NEW j \in 1..m PROVE rest[j] = y[j]
        <5>1. 1 + j \in 1..(Len(t) - p) /\ p + (1 + j) = (p + 1) + j
          BY <1>2, <1>3, <4>3 DEF m
        <5>2. u[1 + j] = t[p + (1 + j)]  BY <1>5, <5>1 DEF u
        <5> QED  BY <4>1, <4>2, <4>3, <5>1, <5>2
      <4>5. rest = y  BY <4>1, <4>2, <4>3, <4>4, SeqEqual
      <4> QED  BY <4>5 DEF y
    <3>4. i + (p + 1) = next  BY <1>1, <1>3, <2>1
    <3>5. From(s, next) = rest /\ rest \in Seq(C)  BY <2>3, <3>2, <3>3, <3>4
    <3>6. Visible(t) = Visible(SubSeq(t, 1, p)) \o Visible(From(s, next))
      <4> HIDE DEF rest
      <4> QED  BY <1>6, <2>4, <3>5
    <3> HIDE DEF rest, next
    <3> QED  BY <1>2, <3>1, <3>5, <3>6 DEF n, t, next
  <2> QED  BY <2>5, <2>6
<1>9. CASE t[p + 1] # " "
  <2>1. next = i + p  BY <1>3, <1>4, <1>9 DEF NextOf, t
  <2>2. next \in i..(n + 1) /\ next <= n /\ ~(next > n)  BY <1>1, <1>2, <1>3, <2>1
  <2>3. u = From(s, i + p)
    <3>1. p \in 0..(Len(t) - 1)  BY <1>2, <1>3
    <3> QED  BY <1>7, <3>1
  <2>4. u = From(s, next) /\ From(s, next) \in Seq(C)  BY <1>5, <2>1, <2>3
  <2>5. Visible(t) = Visible(SubSeq(t, 1, p)) \o Visible(From(s, next))
    <3> HIDE DEF u
    <3> QED  BY <1>6, <2>4
  <2> HIDE DEF u, next
  <2> QED  BY <1>2, <2>2, <2>4, <2>5 DEF n, t, next
<1> QED  BY <1>8, <1>9


-----------------------------------------------------------------------------
(* The rows of a text.  With k rows left, those before the k-th fit, and    *)
(* show the beginning of the text, all of it if they are fewer.             *)

Splits(C, r, t, k) ==
    /\ r \in Seq(Seq(C)) /\ Len(r) \in 1..k
    /\ \A j \in 1..Len(r) : j < k => L!Fits(r[j], Len(r[j]))
    /\ \E u \in Seq(C) : /\ Visible(t) = Visible(L!FlattenSeq(r)) \o u
                         /\ Len(r) < k => u = <<>>

LEMMA OneRow ==
    ASSUME NEW C, NEW a \in Seq(C)
    PROVE  <<a>> \in Seq(Seq(C)) /\ Len(<<a>>) = 1 /\ <<a>>[1] = a /\ L!FlattenSeq(<<a>>) = a
BY FlattenOne

\* The last row there is: what is too long for it is cut off.
LEMMA LastRow ==
    ASSUME NEW C, NEW t \in Seq(C), NEW p \in 0..Len(t)
    PROVE  Splits(C, <<SubSeq(t, 1, p)>>, t, 1)
<1> DEFINE a == SubSeq(t, 1, p)
           b == From(t, p + 1)
           r == <<a>>
<1>1. a \in Seq(C) /\ b \in Seq(C) /\ t = a \o b  BY SplitAt
<1> HIDE DEF a, b
<1>2. Visible(t) = Visible(a) \o Visible(b) /\ Visible(b) \in Seq(C)
  BY <1>1, VisibleConcat, VisibleType
<1>3. r \in Seq(Seq(C)) /\ Len(r) = 1 /\ L!FlattenSeq(r) = a  BY <1>1, OneRow
<1> HIDE DEF r
<1>4. \A j \in 1..Len(r) : j < 1 => L!Fits(r[j], Len(r[j]))  BY <1>3
<1>5. \E u \in Seq(C) : /\ Visible(t) = Visible(L!FlattenSeq(r)) \o u
                        /\ Len(r) < 1 => u = <<>>
  <2>1. Visible(t) = Visible(L!FlattenSeq(r)) \o Visible(b)  BY <1>2, <1>3
  <2>2. ~(Len(r) < 1)  BY <1>3
  <2> QED  BY <1>2, <2>1, <2>2
<1>6. Len(r) \in 1..1  BY <1>3
<1>7. Splits(C, r, t, 1)  BY <1>3, <1>4, <1>5, <1>6 DEF Splits
<1> QED  BY <1>7 DEF r, a

\* A row that shows all of a text.
LEMMA FullRow ==
    ASSUME NEW C, NEW t, NEW a \in Seq(C), NEW k \in Nat \ {0},
           L!Fits(a, Len(a)), Visible(t) = Visible(a)
    PROVE  Splits(C, <<a>>, t, k)
<1> DEFINE r == <<a>>
<1>1. r \in Seq(Seq(C)) /\ Len(r) = 1 /\ r[1] = a /\ L!FlattenSeq(r) = a  BY OneRow
<1> HIDE DEF r
<1>2. \A j \in 1..Len(r) : L!Fits(r[j], Len(r[j]))
  <2>1. \A j \in 1..1 : j = 1  OBVIOUS
  <2> QED  BY <1>1, <2>1
<1>3. Visible(t) = Visible(a) \o <<>> /\ <<>> \in Seq(C)
  BY VisibleType, ConcatEmptySeq, EmptySeq
<1>4. \E u \in Seq(C) : /\ Visible(t) = Visible(L!FlattenSeq(r)) \o u
                        /\ Len(r) < k => u = <<>>
  BY <1>1, <1>3
<1>5. Len(r) \in 1..k  BY <1>1
<1>6. Splits(C, r, t, k)  BY <1>1, <1>2, <1>4, <1>5 DEF Splits
<1> QED  BY <1>6 DEF r

\* A row, and the rows of what is left.
LEMMA OneRowMore ==
    ASSUME NEW C, NEW t, NEW rest, NEW a \in Seq(C), NEW r, NEW k \in Nat \ {0},
           L!Fits(a, Len(a)), Splits(C, r, rest, k), Visible(t) = Visible(a) \o Visible(rest)
    PROVE  Splits(C, <<a>> \o r, t, k + 1)
<1> DEFINE one == <<a>>
           q == one \o r
<1>1. one \in Seq(Seq(C)) /\ Len(one) = 1 /\ one[1] = a /\ L!FlattenSeq(one) = a  BY OneRow
<1> HIDE DEF one
<1>2. r \in Seq(Seq(C)) /\ Len(r) \in 1..k  BY DEF Splits
<1>3. /\ q \in Seq(Seq(C)) /\ Len(q) = 1 + Len(r)
      /\ \A j \in 1..(1 + Len(r)) : q[j] = IF j <= 1 THEN one[j] ELSE r[j - 1]
  <2>1. /\ q \in Seq(Seq(C)) /\ Len(q) = Len(one) + Len(r)
        /\ \A j \in 1..(Len(one) + Len(r)) :
             q[j] = IF j <= Len(one) THEN one[j] ELSE r[j - Len(one)]
    BY <1>1, <1>2, ConcatProperties
  <2> HIDE DEF q
  <2> QED  BY <1>1, <2>1
<1>4. L!FlattenSeq(q) = a \o L!FlattenSeq(r) /\ L!FlattenSeq(r) \in Seq(C)
  BY <1>1, <1>2, FlattenConcat, FlattenType
<1> HIDE DEF q
<1>5. ASSUME NEW j \in 1..Len(q), j < k + 1 PROVE L!Fits(q[j], Len(q[j]))
  <2>1. CASE j = 1
    <3>1. q[j] = a  BY <1>1, <1>2, <1>3, <2>1
    <3> QED  BY <3>1
  <2>2. CASE j # 1
    <3>1. j - 1 \in 1..Len(r) /\ j - 1 < k /\ ~(j <= 1) /\ j \in 1..(1 + Len(r))
      BY <1>2, <1>3, <1>5, <2>2
    <3>2. q[j] = r[j - 1]  BY <1>3, <3>1
    <3> QED  BY <3>1, <3>2 DEF Splits
  <2> QED  BY <2>1, <2>2
<1>6. PICK u \in Seq(C) : /\ Visible(rest) = Visible(L!FlattenSeq(r)) \o u
                          /\ Len(r) < k => u = <<>>
  BY DEF Splits
<1>7. Visible(t) = Visible(L!FlattenSeq(q)) \o u
  <2> DEFINE x == Visible(a)
             y == Visible(L!FlattenSeq(r))
  <2>1. x \in Seq(C) /\ y \in Seq(C)  BY <1>4, VisibleType
  <2>2. Visible(L!FlattenSeq(q)) = x \o y  BY <1>4, VisibleConcat
  <2>3. Visible(t) = x \o (y \o u)  BY <1>6
  <2> HIDE DEF x, y
  <2>4. (x \o y) \o u = x \o (y \o u)  BY <2>1, ConcatAssociative, SMTT(90)
  <2> QED  BY <2>2, <2>3, <2>4
<1>8. Len(q) \in 1..(k + 1) /\ (Len(q) < k + 1 => Len(r) < k)  BY <1>2, <1>3
<1>9. Splits(C, q, t, k + 1)  BY <1>3, <1>5, <1>6, <1>7, <1>8 DEF Splits
<1> QED  BY <1>9 DEF q, one

LEMMA RowsAre ==
    ASSUME NEW C, NEW s \in Seq(C), s # <<>>
    PROVE  Splits(C, L!RowsOf(s), s, Rows)
<1> DEFINE n == Len(s)
           D == (1..n) \X (1..Rows)
           R == Seq(Seq(C))
           Rest(x) == SubSeq(s, x[1], Len(s))
           P(x) == IF x[2] = Rows THEN Len(Rest(x)) ELSE L!FindSplitPoint(Rest(x))
           After(x) == IF P(x) < Len(Rest(x)) /\ s[x[1] + P(x)] = " " THEN x[1] + P(x) + 1
                       ELSE x[1] + P(x)
           More(x) == <<After(x), x[2] + 1>>
           Of(f, x) == IF P(x) = Len(Rest(x))
                       THEN <<SubSeq(Rest(x), 1, IF P(x) <= RowChars THEN P(x) ELSE RowChars)>>
                       ELSE <<SubSeq(Rest(x), 1, P(x))>>
                              \o (IF After(x) > Len(s) THEN <<>> ELSE f[More(x)])
           Makes(f) == f = [x \in D |-> Of(f, x)]
           it == CHOOSE f : Makes(f)
           rank == [x \in D |-> Rows - x[2]]
<1>1. n \in Nat /\ n # 0 /\ Rows \in Nat /\ Rows # 0 /\ RowChars \in Nat
  BY EmptySeq, LogAssumption
<1>2. \A x \in D : x[1] \in 1..n /\ x[2] \in 1..Rows /\ x[1] \in Nat /\ x[2] \in Nat
  BY <1>1
<1>3. ASSUME NEW x \in D
      PROVE  /\ Rest(x) \in Seq(C) /\ Rest(x) # <<>> /\ Len(Rest(x)) \in Nat
             /\ P(x) \in 0..Len(Rest(x))
             /\ x[2] # Rows => P(x) <= RowChars /\ L!Fits(Rest(x), P(x))
             /\ P(x) # Len(Rest(x)) =>
                  /\ x[2] < Rows /\ P(x) \in 0..(Len(Rest(x)) - 1)
                  /\ ~(After(x) > n) => More(x) \in D
                  /\ Visible(Rest(x)) = Visible(SubSeq(Rest(x), 1, P(x)))
                                          \o (IF After(x) > n THEN <<>>
                                              ELSE Visible(From(s, After(x))))
  <2>1. x[1] \in 1..Len(s) /\ x[1] - 1 \in 0..Len(s) /\ (x[1] - 1) + 1 = x[1]
    <3> HIDE DEF D
    <3> QED  BY <1>1, <1>2
  <2>2. Rest(x) \in Seq(C) /\ Len(Rest(x)) = Len(s) - (x[1] - 1)
    BY <2>1, SplitAt DEF From
  <2>3. Len(Rest(x)) \in Nat /\ Len(Rest(x)) # 0
    <3> HIDE DEF D, Rest
    <3> QED  BY <1>1, <1>2, <2>1, <2>2
  <2>4. Rest(x) # <<>>
    <3> HIDE DEF Rest
    <3> QED  BY <2>3, EmptySeq
  <2>5. /\ L!FindSplitPoint(Rest(x)) \in 0..Len(Rest(x)) /\ L!FindSplitPoint(Rest(x)) <= RowChars
        /\ L!Fits(Rest(x), L!FindSplitPoint(Rest(x)))
    <3> HIDE DEF Rest
    <3> QED  BY <2>2, <2>4, SplitPoint
  <2>6. /\ P(x) \in 0..Len(Rest(x))
        /\ x[2] # Rows => P(x) <= RowChars /\ L!Fits(Rest(x), P(x))
    <3> HIDE DEF Rest, D
    <3> QED  BY <2>3, <2>5
  <2>7. ASSUME P(x) # Len(Rest(x))
        PROVE  /\ x[2] < Rows /\ P(x) \in 0..(Len(Rest(x)) - 1)
               /\ ~(After(x) > n) => More(x) \in D
               /\ Visible(Rest(x)) = Visible(SubSeq(Rest(x), 1, P(x)))
                                       \o (IF After(x) > n THEN <<>>
                                           ELSE Visible(From(s, After(x))))
    <3>1. x[2] < Rows
      <4>1. x[2] # Rows  BY <2>7
      <4> HIDE DEF D
      <4> QED  BY <1>1, <1>2, <4>1
    <3>2. P(x) \in 0..(Len(Rest(x)) - 1)
      <4> HIDE DEF P, Rest
      <4> QED  BY <2>3, <2>6, <2>7
    <3>3. After(x) = NextOf(s, x[1], P(x)) /\ Rest(x) = From(s, x[1])
      BY DEF NextOf, From
    <3> DEFINE i == x[1]
               p == P(x)
    <3>4. i \in 1..Len(s) /\ p \in 0..(Len(From(s, i)) - 1)
      <4> HIDE DEF P, Rest
      <4> QED  BY <2>1, <3>2, <3>3
    <3>5. /\ NextOf(s, i, p) \in i..(Len(s) + 1)
          /\ Visible(From(s, i))
               = Visible(SubSeq(From(s, i), 1, p))
                   \o (IF NextOf(s, i, p) > Len(s) THEN <<>>
                       ELSE Visible(From(s, NextOf(s, i, p))))
      <4> HIDE DEF i, p
      <4> QED  BY <3>4, FromIs
    <3> HIDE DEF P, Rest, After
    <3>6. ~(After(x) > n) => More(x) \in D
      <4>1. After(x) \in x[1]..(n + 1) /\ x[1] \in Nat /\ x[1] # 0 /\ x[2] \in Nat
        <5> HIDE DEF D
        <5> QED  BY <1>1, <1>2, <3>3, <3>5
      <4>2. ~(After(x) > n) => After(x) \in 1..n
        <5> HIDE DEF n
        <5> QED  BY <1>1, <4>1
      <4>3. x[2] + 1 \in 1..Rows  BY <1>1, <3>1, <4>1
      <4> QED  BY <4>2, <4>3
    <3> QED  BY <3>1, <3>2, <3>3, <3>5, <3>6
  <2> HIDE DEF P, Rest, After, More
  <2> QED  BY <2>2, <2>3, <2>4, <2>6, <2>7
<1>4. ASSUME NEW x \in D, x[2] < Rows, More(x) \in D PROVE rank[More(x)] < rank[x]
  <2>1. More(x)[2] = x[2] + 1  OBVIOUS
  <2> HIDE DEF More, D
  <2> QED  BY <1>1, <1>2, <1>4, <2>1
<1>5. \E f \in [D -> R] : Makes(f)
  <2> DEFINE G == [a \in D \X [D -> R] |-> Of(a[2], a[1])]
  <2>1. ASSUME NEW x \in D, NEW f \in [D -> R] PROVE Of(f, x) \in R
    <3>1. CASE P(x) = Len(Rest(x))
      <4> DEFINE c == IF P(x) <= RowChars THEN P(x) ELSE RowChars
                 a == SubSeq(Rest(x), 1, c)
      <4>1. c \in 0..Len(Rest(x))
        <5> HIDE DEF P, Rest, D
        <5>1. P(x) \in 0..Len(Rest(x)) /\ Len(Rest(x)) \in Nat  BY <1>3
        <5> QED  BY <1>1, <5>1
      <4>2. a \in Seq(C)
        <5> HIDE DEF P, Rest, D, c
        <5> QED  BY <1>3, <4>1, SplitAt
      <4>3. Of(f, x) = <<a>>  BY <3>1
      <4> HIDE DEF a, Of
      <4> QED  BY <4>2, <4>3, OneRow
    <3>2. CASE P(x) # Len(Rest(x))
      <4> DEFINE a == SubSeq(Rest(x), 1, P(x))
                 b == IF After(x) > Len(s) THEN <<>> ELSE f[More(x)]
      <4>1. a \in Seq(C)
        <5> HIDE DEF P, Rest, D
        <5> QED  BY <1>3, SplitAt
      <4>2. b \in R
        <5>1. ~(After(x) > Len(s)) => More(x) \in D
          <6> HIDE DEF P, Rest, D, After, More
          <6> QED  BY <1>3, <3>2
        <5>2. <<>> \in R  OBVIOUS
        <5> HIDE DEF P, Rest, D, After, More, R
        <5> QED  BY <5>1, <5>2
      <4>3. Of(f, x) = <<a>> \o b  BY <3>2
      <4> HIDE DEF a, b, Of
      <4>4. <<a>> \in R  BY <4>1, OneRow
      <4> QED  BY <4>2, <4>3, <4>4, ConcatProperties
    <3> QED  BY <3>1, <3>2
  <2>2. \A x \in D : \A f \in [D -> R] : G[<<x, f>>] = Of(f, x)
    <3> HIDE DEF Of, D, R
    <3> QED  OBVIOUS
  <2>3. G \in [D \X [D -> R] -> R]
    <3> HIDE DEF Of, D, R
    <3> QED  BY <2>1
  <2>4. rank \in [D -> 0..Rows]
    <3>1. \A x \in D : Rows - x[2] \in 0..Rows
      <4> HIDE DEF D
      <4> QED  BY <1>1, <1>2
    <3> HIDE DEF D
    <3> QED  BY <3>1
  <2>5. IsBefore(G, D, R, rank)
    <3> SUFFICES ASSUME NEW x \in D, NEW f \in [D -> R], NEW g \in [D -> R],
                        \A y \in D : rank[y] < rank[x] => f[y] = g[y]
                 PROVE  G[<<x, f>>] = G[<<x, g>>]
      <4> HIDE DEF D, R, G, rank
      <4> QED  BY DEF IsBefore
    <3>1. Of(f, x) = Of(g, x)
      <4>1. P(x) # Len(Rest(x)) /\ ~(After(x) > Len(s)) => f[More(x)] = g[More(x)]
        <5> HIDE DEF D, R, P, Rest, After, More, rank
        <5> QED  BY <1>3, <1>4
      <4> HIDE DEF D, R, P, Rest, After, More, rank
      <4> QED  BY <4>1
    <3> HIDE DEF Of, D, R, G
    <3> QED  BY <2>2, <3>1
  <2>6. PICK f \in [D -> R] : \A x \in D : f[x] = G[<<x, f>>]
    <3>1. <<>> \in R  OBVIOUS
    <3> HIDE DEF D, G, rank, R
    <3>2. IsRecursive(G, D, R)  BY <1>1, <2>3, <2>4, <2>5, <3>1 DEF IsRecursive
    <3> QED  BY <3>2, Recursion
  <2>7. Makes(f)
    <3> HIDE DEF Of, D, R, G
    <3> QED  BY <2>2, <2>6
  <2> HIDE DEF Makes
  <2> QED  BY <2>7
<1>6. Makes(it)
  <2> HIDE DEF Makes
  <2> QED  BY <1>5
<1>7. L!RowsOf(s) = it[<<1, 1>>]  BY DEF L!RowsOf
<1> HIDE DEF it
<1>8. \A x \in D : it[x] = Of(it, x)
  <2> HIDE DEF Of, D
  <2> QED  BY <1>6
<1> HIDE DEF Makes
<1> DEFINE Found(x) == Splits(C, it[x], From(s, x[1]), (Rows - x[2]) + 1)
           N == {d \in Nat : \A x \in D : rank[x] <= d => Found(x)}
<1>9. ASSUME NEW x \in D, P(x) # Len(Rest(x)) => After(x) > n \/ Found(More(x)) PROVE Found(x)
  <2> DEFINE k == (Rows - x[2]) + 1
             t == Rest(x)
             p == P(x)
             next == After(x)
  <2>0. t = From(s, x[1])  BY DEF From
  <2>1. /\ k \in Nat \ {0} /\ (x[2] = Rows => k = 1)
        /\ (x[2] < Rows => (Rows - (x[2] + 1)) + 1 \in Nat \ {0}
                           /\ k = ((Rows - (x[2] + 1)) + 1) + 1)
    <3> HIDE DEF D
    <3> QED  BY <1>1, <1>2, SMTT(30)
  <2>2. /\ t \in Seq(C) /\ Len(t) \in Nat /\ p \in 0..Len(t)
        /\ x[2] # Rows => p <= RowChars /\ L!Fits(t, p)
    <3> HIDE DEF Rest, P, After, More, D
    <3> QED  BY <1>3
  <2>3. CASE p = Len(t)
    <3> DEFINE c == IF p <= RowChars THEN p ELSE RowChars
    <3>1. it[x] = <<SubSeq(t, 1, c)>>
      <4> HIDE DEF Rest, P, After, More, D
      <4> QED  BY <1>8, <2>3
    <3>2. CASE x[2] = Rows
      <4>1. c \in 0..Len(t)
        <5> HIDE DEF p, t
        <5> QED  BY <1>1, <2>2
      <4>2. Splits(C, <<SubSeq(t, 1, c)>>, t, 1)
        <5> HIDE DEF c, t
        <5> QED  BY <2>2, <4>1, LastRow
      <4> HIDE DEF c, t
      <4> QED  BY <2>0, <2>1, <3>1, <3>2, <4>2
    <3>3. CASE x[2] # Rows
      <4>1. c = Len(t) /\ L!Fits(t, Len(t))
        <5> HIDE DEF p, t
        <5> QED  BY <2>2, <2>3, <3>3
      <4>2. SubSeq(t, 1, Len(t)) = t
        <5> HIDE DEF t
        <5> QED  BY <2>2, SubSeqFull
      <4> HIDE DEF c, t, k
      <4>3. Splits(C, <<t>>, t, k)  BY <2>1, <2>2, <4>1, FullRow
      <4> QED  BY <2>0, <3>1, <4>1, <4>2, <4>3 DEF k
    <3> QED  BY <3>2, <3>3
  <2>4. CASE p # Len(t)
    <3> DEFINE a == SubSeq(t, 1, p)
               b == IF next > Len(s) THEN <<>> ELSE it[More(x)]
    <3>1. it[x] = <<a>> \o b
      <4> HIDE DEF Rest, P, After, More, D
      <4> QED  BY <1>8, <2>4
    <3>2. /\ x[2] < Rows /\ p \in 0..Len(t)
          /\ Visible(t) = Visible(a) \o (IF next > n THEN <<>> ELSE Visible(From(s, next)))
      <4> HIDE DEF Rest, P, After, More, D
      <4> QED  BY <1>3, <2>2, <2>4
    <3>3. a \in Seq(C) /\ Len(a) = p /\ \A i \in 1..p : a[i] = t[i]
      <4> HIDE DEF t, p
      <4> QED  BY <2>2, <3>2, SplitAt
    <3>4. x[2] # Rows /\ p \in Nat
      <4>1. x[2] \in Nat
        <5> HIDE DEF D
        <5> QED  BY <1>2
      <4>2. x[2] < Rows /\ p \in 0..Len(t) /\ Len(t) \in Nat  BY <2>2, <3>2
      <4> HIDE DEF p, t
      <4> QED  BY <1>1, <4>1, <4>2
    <3> HIDE DEF a
    <3>5. L!Fits(a, Len(a))
      <4> HIDE DEF p, t
      <4>1. L!TextWidth(a, p) = L!TextWidth(t, p)  BY <3>3, <3>4, SameWidth
      <4> QED  BY <2>2, <3>3, <3>4, <4>1 DEF L!Fits
    <3>6. CASE next > n
      <4>1. b = <<>>  BY <3>6
      <4>2. Visible(t) = Visible(a)
        <5>1. Visible(a) \in Seq(C)  BY <3>3, VisibleType
        <5>2. Visible(t) = Visible(a) \o <<>>
          <6> HIDE DEF t, next, n
          <6> QED  BY <3>2, <3>6
        <5> QED  BY <5>1, <5>2, ConcatEmptySeq
      <4> HIDE DEF t, b, k
      <4>3. <<a>> \o b = <<a>>
        <5>1. <<a>> \in Seq(Seq(C))  BY <3>3, OneRow
        <5> QED  BY <4>1, <5>1, ConcatEmptySeq
      <4>4. Splits(C, <<a>>, t, k)  BY <2>1, <3>3, <3>5, <4>2, FullRow
      <4> QED  BY <2>0, <3>1, <4>3, <4>4 DEF k
    <3>7. CASE ~(next > n)
      <4> DEFINE rest == From(s, next)
                 m == (Rows - (x[2] + 1)) + 1
      <4>1. b = it[More(x)]  BY <3>7
      <4>2. Splits(C, it[More(x)], rest, m)
        <5>1. Found(More(x))
          <6> HIDE DEF Found, Rest, P, After, More, D
          <6> QED  BY <1>9, <2>4, <3>7
        <5>2. More(x)[1] = next /\ More(x)[2] = x[2] + 1
          <6> HIDE DEF After
          <6> QED  OBVIOUS
        <5> HIDE DEF More, After
        <5> QED  BY <5>1, <5>2
      <4>3. Visible(t) = Visible(a) \o Visible(rest)
        <5> HIDE DEF t, next, n
        <5> QED  BY <3>2, <3>7
      <4>4. m \in Nat \ {0} /\ k = m + 1
        <5> HIDE DEF m, k
        <5> QED  BY <2>1, <3>2 DEF m, k
      <4> HIDE DEF t, b, k, rest, m
      <4>5. Splits(C, b, rest, m)  BY <4>1, <4>2
      <4>6. Splits(C, <<a>> \o b, t, m + 1)  BY <3>3, <3>5, <4>3, <4>4, <4>5, OneRowMore
      <4> QED  BY <2>0, <3>1, <4>4, <4>6 DEF k
    <3> QED  BY <3>6, <3>7
  <2> QED  BY <2>3, <2>4
<1>10. \A x \in D : rank[x] \in Int
  <2> HIDE DEF D
  <2> QED  BY <1>1, <1>2
<1>11. 0 \in N
  <2> SUFFICES ASSUME NEW x \in D, rank[x] <= 0 PROVE Found(x)
    <3> HIDE DEF D, rank, Found
    <3> QED  OBVIOUS
  <2>1. ~(x[2] < Rows)
    <3> HIDE DEF D
    <3> QED  BY <1>1, <1>2
  <2> HIDE DEF Rest, P, After, More, D, Found, rank
  <2> QED  BY <1>3, <1>9, <2>1
<1>12. ASSUME NEW d \in N PROVE d + 1 \in N
  <2> SUFFICES ASSUME NEW x \in D, rank[x] <= d + 1 PROVE Found(x)
    <3> HIDE DEF D, rank, Found
    <3> QED  OBVIOUS
  <2> HIDE DEF Rest, P, After, More, D, Found, rank
  <2>1. ASSUME P(x) # Len(Rest(x)), ~(After(x) > n) PROVE Found(More(x))
    <3>1. More(x) \in D /\ rank[More(x)] < rank[x]  BY <1>3, <1>4, <2>1
    <3>2. rank[More(x)] <= d
      <4>1. d \in Nat  OBVIOUS
      <4> HIDE DEF N
      <4> QED  BY <1>10, <3>1, <4>1
    <3> QED  BY <3>1, <3>2
  <2> QED  BY <1>9, <2>1
<1>13. N = Nat
  <2> HIDE DEF N
  <2>1. N \in SUBSET Nat  BY DEF N
  <2> QED  BY <1>11, <1>12, <2>1, Induction
<1>14. Found(<<1, 1>>)
  <2> DEFINE x == <<1, 1>>
  <2>1. x \in D  BY <1>1
  <2>2. rank[x] <= Rows
    <3> HIDE DEF x, D
    <3> QED  BY <1>1, <1>2, <2>1
  <2>3. Rows \in N
    <3> HIDE DEF N
    <3> QED  BY <1>1, <1>13
  <2>4. Found(x)
    <3> HIDE DEF x, D, rank, Found
    <3> QED  BY <2>1, <2>2, <2>3
  <2> QED  BY <2>4
<1>15. From(s, 1) = s  BY SubSeqFull DEF From
<1>16. (Rows - 1) + 1 = Rows  BY <1>1
<1> QED  BY <1>7, <1>14, <1>15, <1>16


-----------------------------------------------------------------------------
(* The ring of rows.                                                        *)

Texts == Characters \cup {"n"}

Row == [text : Seq(Texts), dated : BOOLEAN]

\* Where a place of the ring comes next, when fewer than two rounds are gone.
Wrapped(i) == IF i < Rows THEN i ELSE i - Rows

LEMMA RingWraps ==
    ASSUME NEW i \in 0..(2 * Rows - 1)
    PROVE  i % Rows = Wrapped(i) /\ Wrapped(i) \in L!RowSet
<1>1. Rows \in Nat \ {0}  BY LogAssumption
<1>2. CASE i < Rows
  <2>1. i % Rows = i  BY <1>1, <1>2
  <2> QED  BY <1>1, <1>2, <2>1 DEF Wrapped, L!RowSet
<1>3. CASE ~(i < Rows)
  <2>1. i % Rows = i - Rows  BY <1>1, <1>3
  <2> QED  BY <1>1, <1>3, <2>1 DEF Wrapped, L!RowSet
<1> QED  BY <1>2, <1>3

\* How far apart two places are.
Apart(i) == IF i < 0 THEN i + Rows ELSE i

LEMMA RingIsApart ==
    ASSUME NEW i \in (1 - Rows)..(Rows - 1)
    PROVE  i % Rows = Apart(i) /\ Apart(i) \in L!RowSet
<1>1. Rows \in Nat \ {0}  BY LogAssumption
<1>2. CASE i < 0
  <2>1. i % Rows = i + Rows  BY <1>1, <1>2
  <2> QED  BY <1>1, <1>2, <2>1 DEF Apart, L!RowSet
<1>3. CASE ~(i < 0)
  <2>1. i % Rows = i  BY <1>1, <1>3
  <2> QED  BY <1>1, <1>3, <2>1 DEF Apart, L!RowSet
<1> QED  BY <1>2, <1>3

-----------------------------------------------------------------------------
(* What is displayed when a text is appended: its rows push out the first.  *)

\* The property, of rows displayed and texts told.
ToldBy(d, texts) ==
    /\ L!IsSuffix(L!Unspaced([i \in 1..Rows |-> d[i].text]),
                  L!Unspaced([i \in 1..Len(texts) |-> L!Kept(texts[i])]))
    /\ \A i \in 1..Len(texts) :
         L!IsPrefix(L!Unspaced(<<L!Kept(texts[i])>>), L!Unspaced(<<texts[i]>>))
    /\ \A i \in 1..Rows : \/ L!Fits(d[i].text, Len(d[i].text))
                          \/ \A j \in 2..i : ~d[j].dated

Pushed(d, rows) ==
    [i \in 1..Rows |->
       IF Len(rows) + i <= Rows THEN d[Len(rows) + i]
       ELSE [text |-> rows[(Len(rows) + i) - Rows], dated |-> (Len(rows) + i) - Rows = 1]]

LEMMA KeptIs ==
    ASSUME NEW text \in Seq(Texts), text # <<>>
    PROVE  /\ L!Kept(text) \in Seq(Texts)
           /\ Visible(L!Kept(text)) = Visible(L!FlattenSeq(L!RowsOf(text)))
           /\ L!IsPrefix(L!Unspaced(<<L!Kept(text)>>), L!Unspaced(<<text>>))
<1> DEFINE r == L!RowsOf(text)
           v == Visible(L!FlattenSeq(r))
<1>1. Splits(Texts, r, text, Rows)  BY RowsAre
<1>2. PICK u \in Seq(Texts) : Visible(text) = v \o u /\ (Len(r) < Rows => u = <<>>)
  BY <1>1 DEF Splits
<1>3. r \in Seq(Seq(Texts)) /\ L!FlattenSeq(r) \in Seq(Texts)  BY <1>1, FlattenType DEF Splits
<1>4. v \in Seq(Texts)  BY <1>3, VisibleType
<1>5. L!Kept(text) \in Seq(Texts) /\ Visible(L!Kept(text)) = v
  <2>1. CASE Len(r) < Rows
    <3>1. L!Kept(text) = text  BY <2>1 DEF L!Kept
    <3>2. v \o <<>> = v  BY <1>4, ConcatEmptySeq
    <3> HIDE DEF v
    <3> QED  BY <1>2, <2>1, <3>1, <3>2
  <2>2. CASE ~(Len(r) < Rows)
    <3>1. L!Kept(text) = L!FlattenSeq(r)  BY <2>2 DEF L!Kept
    <3> QED  BY <1>3, <3>1
  <2> QED  BY <2>1, <2>2
<1>6. L!Unspaced(<<L!Kept(text)>>) = v /\ L!Unspaced(<<text>>) = Visible(text)
  BY <1>5, UnspacedIs, FlattenOne
<1> HIDE DEF v
<1>7. L!IsPrefix(v, v \o u)  BY <1>4, BeginningIsPrefix
<1> QED  BY <1>2, <1>5, <1>6, <1>7 DEF v

\* The end of a text, without its beginning, and what is added to both.
LEMMA SuffixGrows ==
    ASSUME NEW C, NEW a \in Seq(C), NEW b \in Seq(C), NEW c \in Seq(C), NEW q \in Seq(C),
           L!IsSuffix(a \o b, q)
    PROVE  L!IsSuffix(b \o c, q \o c)
<1>1. a \o b \in Seq(C) /\ b \o c \in Seq(C)  BY ConcatProperties
<1>2. PICK u \in Seq(C) : q = u \o (a \o b)  BY <1>1, SuffixIsEnd, ZenonT(90)
<1> DEFINE ua == u \o a
<1>3. q = ua \o b
  <2>1. (u \o a) \o b = u \o (a \o b)  BY <1>2, ConcatAssociative, SMTT(90)
  <2> QED  BY <1>2, <2>1
<1>4. ua \in Seq(C)  BY <1>2, ConcatProperties
<1> HIDE DEF ua
<1>5. q \o c = ua \o (b \o c)
  <2>1. (ua \o b) \o c = ua \o (b \o c)  BY <1>4, ConcatAssociative, SMTT(90)
  <2> QED  BY <1>3, <2>1
<1>6. L!IsSuffix(b \o c, ua \o (b \o c))  BY <1>1, <1>4, EndIsSuffix
<1> QED  BY <1>5, <1>6

LEMMA MoreIsTold ==
    ASSUME NEW d \in [1..Rows -> Row], NEW texts \in Seq(Seq(Texts)),
           \A i \in 1..Len(texts) : texts[i] # <<>>,
           ToldBy(d, texts), NEW text \in Seq(Texts), text # <<>>
    PROVE  /\ Pushed(d, L!RowsOf(text)) \in [1..Rows -> Row]
           /\ ToldBy(Pushed(d, L!RowsOf(text)), Append(texts, text))
<1> DEFINE S == Seq(Texts)
           rows == L!RowsOf(text)
           k == Len(rows)
           e == Pushed(d, rows)
           shown == [i \in 1..Rows |-> d[i].text]
           shownNext == [i \in 1..Rows |-> e[i].text]
           kept == [i \in 1..Len(texts) |-> L!Kept(texts[i])]
           all == Append(texts, text)
           keptNext == [i \in 1..Len(all) |-> L!Kept(all[i])]
<1>1. Rows \in Nat \ {0}  BY LogAssumption
<1>2. /\ rows \in Seq(S) /\ k \in 1..Rows
      /\ \A j \in 1..k : j < Rows => L!Fits(rows[j], Len(rows[j]))
  BY RowsAre DEF Splits
<1> HIDE DEF rows, k
<1>3. ASSUME NEW i \in 1..Rows
      PROVE  \/ /\ k + i <= Rows /\ k + i \in 1..Rows /\ e[i] = d[k + i]
             \/ /\ ~(k + i <= Rows) /\ (k + i) - Rows \in 1..k
                /\ e[i] = [text |-> rows[(k + i) - Rows], dated |-> (k + i) - Rows = 1]
  BY <1>1, <1>2 DEF Pushed, k
<1>4. e \in [1..Rows -> Row]
  <2>1. ASSUME NEW i \in 1..Rows PROVE e[i] \in Row
    <3>1. CASE k + i \in 1..Rows /\ e[i] = d[k + i]  BY <3>1
    <3>2. CASE /\ (k + i) - Rows \in 1..k
               /\ e[i] = [text |-> rows[(k + i) - Rows], dated |-> (k + i) - Rows = 1]
      <4>1. rows[(k + i) - Rows] \in S  BY <1>2, <3>2 DEF k
      <4>2. ((k + i) - Rows = 1) \in BOOLEAN  OBVIOUS
      <4> QED  BY <3>2, <4>1, <4>2 DEF Row
    <3> QED  BY <1>3, <3>1, <3>2
  <2>2. e = [i \in 1..Rows |-> e[i]]  BY DEF Pushed
  <2> HIDE DEF e
  <2> QED  BY <2>1, <2>2
<1>5. shown \in Seq(S) /\ Len(shown) = Rows /\ \A i \in 1..Rows : shown[i] = d[i].text
  <2>1. shown \in [1..Rows -> S]  BY DEF Row
  <2>2. \A i \in 1..Rows : shown[i] = d[i].text  OBVIOUS
  <2> HIDE DEF shown, S
  <2>3. shown \in Seq(S) /\ Len(shown) = Rows  BY <1>1, <2>1, FunctionIsSeq
  <2> QED  BY <2>2, <2>3
<1>6. shownNext \in Seq(S) /\ Len(shownNext) = Rows /\ \A i \in 1..Rows : shownNext[i] = e[i].text
  <2>1. shownNext \in [1..Rows -> S]
    <3> HIDE DEF e
    <3> QED  BY <1>4 DEF Row
  <2>2. \A i \in 1..Rows : shownNext[i] = e[i].text
    <3> HIDE DEF e
    <3> QED  OBVIOUS
  <2> HIDE DEF shownNext, e, S
  <2>3. shownNext \in Seq(S) /\ Len(shownNext) = Rows  BY <1>1, <2>1, FunctionIsSeq
  <2> QED  BY <2>2, <2>3
<1> HIDE DEF e, shown, shownNext
<1> DEFINE gone == SubSeq(shown, 1, k)
           stay == From(shown, k + 1)
<1>7. /\ gone \in Seq(S) /\ stay \in Seq(S) /\ Len(stay) = Rows - k
      /\ \A i \in 1..(Rows - k) : stay[i] = shown[k + i]
      /\ shown = gone \o stay
  <2>1. k \in 0..Len(shown)  BY <1>1, <1>2, <1>5
  <2> HIDE DEF k
  <2>2. /\ gone \in Seq(S) /\ stay \in Seq(S) /\ Len(stay) = Len(shown) - k
        /\ \A i \in 1..(Len(shown) - k) : stay[i] = shown[k + i]
        /\ shown = gone \o stay
    BY <1>5, <2>1, SplitAt, ZenonT(90)
  <2> QED  BY <1>5, <2>2
<1> HIDE DEF gone, stay
<1>8. shownNext = stay \o rows
  <2> DEFINE both == stay \o rows
  <2>1. /\ both \in Seq(S) /\ Len(both) = Len(stay) + Len(rows)
        /\ \A i \in 1..(Len(stay) + Len(rows)) :
             both[i] = IF i <= Len(stay) THEN stay[i] ELSE rows[i - Len(stay)]
    BY <1>2, <1>7, ConcatProperties
  <2>2. Len(rows) = k  BY DEF k
  <2>3. Len(both) = Rows  BY <1>1, <1>2, <1>7, <2>1, <2>2
  <2> HIDE DEF both
  <2>4. ASSUME NEW i \in 1..Rows PROVE shownNext[i] = both[i]
    <3>0. i \in 1..(Len(stay) + Len(rows))  BY <1>1, <1>2, <1>7, <2>2
    <3>1. CASE k + i <= Rows
      <4>1. i \in 1..(Rows - k) /\ i <= Len(stay) /\ k + i \in 1..Rows  BY <1>1, <1>2, <1>7, <3>1
      <4>2. both[i] = stay[i]  BY <2>1, <3>0, <4>1
      <4>3. stay[i] = d[k + i].text  BY <1>5, <1>7, <4>1
      <4>4. e[i] = d[k + i]  BY <1>3, <3>1
      <4> QED  BY <1>6, <4>2, <4>3, <4>4
    <3>2. CASE ~(k + i <= Rows)
      <4>1. ~(i <= Len(stay)) /\ i - Len(stay) = (k + i) - Rows  BY <1>1, <1>2, <1>7, <3>2
      <4>2. both[i] = rows[(k + i) - Rows]  BY <2>1, <3>0, <4>1
      <4>3. e[i] = [text |-> rows[(k + i) - Rows], dated |-> (k + i) - Rows = 1]  BY <1>3, <3>2
      <4> QED  BY <1>6, <4>2, <4>3
    <3> QED  BY <3>1, <3>2
  <2>5. shownNext = both
    <3>1. shownNext \in Seq(S) /\ both \in Seq(S) /\ Len(shownNext) = Rows  BY <1>6, <2>1
    <3> HIDE DEF S
    <3> QED  BY <2>3, <2>4, <3>1, SeqEqual
  <2> QED  BY <2>5 DEF both
<1>9. kept \in Seq(S) /\ Len(kept) = Len(texts) /\ \A i \in 1..Len(texts) : kept[i] = L!Kept(texts[i])
  <2>1. kept \in [1..Len(texts) -> S]
    <3>1. ASSUME NEW i \in 1..Len(texts) PROVE L!Kept(texts[i]) \in S
      <4>1. texts[i] \in Seq(Texts) /\ texts[i] # <<>>  OBVIOUS
      <4> QED  BY <4>1, KeptIs
    <3> HIDE DEF S
    <3> QED  BY <3>1
  <2>2. \A i \in 1..Len(texts) : kept[i] = L!Kept(texts[i])  OBVIOUS
  <2>3. Len(texts) \in Nat  OBVIOUS
  <2> DEFINE n == Len(texts)
  <2>4. kept \in [1..n -> S] /\ n \in Nat  BY <2>1, <2>3
  <2> HIDE DEF kept, S, n
  <2>5. kept \in Seq(S) /\ Len(kept) = n  BY <2>4, FunctionIsSeq
  <2> QED  BY <2>2, <2>5 DEF n
<1>10. /\ Len(all) = Len(texts) + 1 /\ Len(texts) \in Nat
       /\ \A i \in 1..Len(texts) : all[i] = texts[i]
       /\ all[Len(texts) + 1] = text
  OBVIOUS
<1>11. L!Kept(text) \in S  BY KeptIs
<1>12. keptNext = kept \o <<L!Kept(text)>>
  <2> DEFINE one == <<L!Kept(text)>>
             both == kept \o one
  <2>1. one \in Seq(S) /\ Len(one) = 1 /\ one[1] = L!Kept(text)  BY <1>11, OneRow
  <2>a. kept \in Seq(S)  BY <1>9
  <2> HIDE DEF one, kept, S
  <2>2. /\ both \in Seq(S) /\ Len(both) = Len(kept) + Len(one)
        /\ \A i \in 1..(Len(kept) + Len(one)) :
             both[i] = IF i <= Len(kept) THEN kept[i] ELSE one[i - Len(kept)]
    BY <2>a, <2>1, ConcatProperties
  <2> DEFINE n == Len(texts)
  <2>3. n \in Nat /\ n = Len(kept) /\ Len(all) = n + 1 /\ Len(both) = n + 1
    BY <1>9, <1>10, <2>1, <2>2
  <2> HIDE DEF both, kept, all
  <2>4. ASSUME NEW i \in 1..(n + 1) PROVE both[i] = L!Kept(all[i])
    <3>0. i \in 1..(Len(kept) + Len(one))  BY <2>1, <2>3
    <3>1. CASE i <= n
      <4>1. i \in 1..Len(texts) /\ i <= Len(kept)  BY <2>3, <3>1
      <4> QED  BY <1>9, <1>10, <2>2, <3>0, <4>1
    <3>2. CASE ~(i <= n)
      <4>1. i = n + 1 /\ ~(i <= Len(kept)) /\ i - Len(kept) = 1  BY <2>3, <3>2
      <4>2. both[i] = one[1]  BY <2>2, <3>0, <4>1
      <4> QED  BY <1>10, <2>1, <4>1, <4>2
    <3> QED  BY <3>1, <3>2
  <2>5. both = [i \in 1..(n + 1) |-> both[i]]
    <3>1. both \in [1..(n + 1) -> S]  BY <2>2, <2>3, LenProperties
    <3> QED  BY <3>1
  <2>6. keptNext = [i \in 1..(n + 1) |-> L!Kept(all[i])]  BY <2>3
  <2> HIDE DEF n, keptNext
  <2>7. keptNext = both  BY <2>4, <2>5, <2>6
  <2> QED  BY <2>7 DEF both, one
<1>13. ToldBy(d, texts) =>
         /\ L!IsSuffix(L!Unspaced(shown), L!Unspaced(kept))
         /\ \A i \in 1..Len(texts) :
              L!IsPrefix(L!Unspaced(<<L!Kept(texts[i])>>), L!Unspaced(<<texts[i]>>))
         /\ \A i \in 1..Rows : \/ L!Fits(d[i].text, Len(d[i].text))
                               \/ \A j \in 2..i : ~d[j].dated
  BY DEF ToldBy, shown
<1> HIDE DEF kept
<1>14. L!IsSuffix(L!Unspaced(shownNext), L!Unspaced(keptNext))
  <2> DEFINE a == Visible(L!FlattenSeq(gone))
             b == Visible(L!FlattenSeq(stay))
             c == Visible(L!FlattenSeq(rows))
             q == Visible(L!FlattenSeq(kept))
  <2>1. a \in S /\ b \in S /\ c \in S /\ q \in S
    BY <1>2, <1>7, <1>9, FlattenType, VisibleType
  <2>2. L!Unspaced(shown) = a \o b
    <3>1. L!FlattenSeq(shown) = L!FlattenSeq(gone) \o L!FlattenSeq(stay)
      BY <1>7, FlattenConcat
    <3> DEFINE x == L!FlattenSeq(gone)
               y == L!FlattenSeq(stay)
    <3>2. x \in S /\ y \in S  BY <1>7, FlattenType
    <3>3. L!Unspaced(shown) = Visible(x \o y)  BY <3>1, UnspacedIs
    <3> HIDE DEF x, y
    <3>4. Visible(x \o y) = Visible(x) \o Visible(y)  BY <3>2, VisibleConcat
    <3> QED  BY <3>3, <3>4 DEF x, y
  <2>3. L!Unspaced(shownNext) = b \o c
    <3>1. L!FlattenSeq(shownNext) = L!FlattenSeq(stay) \o L!FlattenSeq(rows)
      BY <1>2, <1>7, <1>8, FlattenConcat
    <3> DEFINE x == L!FlattenSeq(stay)
               y == L!FlattenSeq(rows)
    <3>2. x \in S /\ y \in S  BY <1>2, <1>7, FlattenType
    <3>3. L!Unspaced(shownNext) = Visible(x \o y)  BY <3>1, UnspacedIs
    <3> HIDE DEF x, y
    <3>4. Visible(x \o y) = Visible(x) \o Visible(y)  BY <3>2, VisibleConcat
    <3> QED  BY <3>3, <3>4 DEF x, y
  <2>4. L!Unspaced(keptNext) = q \o c
    <3> DEFINE t == L!Kept(text)
               one == <<t>>
    <3>1. one \in Seq(S) /\ L!FlattenSeq(one) = t  BY <1>11, OneRow
    <3>2. Visible(t) = c  BY KeptIs DEF rows
    <3> HIDE DEF t, one, c
    <3>3. keptNext = kept \o one  BY <1>12 DEF one, t
    <3> HIDE DEF keptNext
    <3>4. L!FlattenSeq(keptNext) = L!FlattenSeq(kept) \o t
      BY <1>9, <3>1, <3>3, FlattenConcat
    <3>5. t \in S /\ L!FlattenSeq(kept) \in S  BY <1>9, <1>11, FlattenType DEF t
    <3>6. Visible(L!FlattenSeq(keptNext)) = q \o Visible(t)  BY <3>4, <3>5, VisibleConcat
    <3> QED  BY <3>2, <3>6, UnspacedIs
  <2>5. L!Unspaced(kept) = q  BY UnspacedIs
  <2> HIDE DEF a, b, c, q
  <2>7. L!IsSuffix(a \o b, q)  BY <1>13, <2>2, <2>5
  <2>8. L!IsSuffix(b \o c, q \o c)  BY <2>1, <2>7, SuffixGrows
  <2> QED  BY <2>3, <2>4, <2>8
<1>15. ASSUME NEW i \in 1..Len(all)
       PROVE  L!IsPrefix(L!Unspaced(<<L!Kept(all[i])>>), L!Unspaced(<<all[i]>>))
  <2>1. CASE i \in 1..Len(texts)
    <3>1. all[i] = texts[i]  BY <1>10, <2>1
    <3> QED  BY <1>13, <2>1, <3>1
  <2>2. CASE i \notin 1..Len(texts)
    <3>1. i = Len(texts) + 1
      <4> HIDE DEF all
      <4> QED  BY <1>10, <2>2
    <3>2. all[i] = text  BY <1>10, <3>1
    <3> QED  BY <3>2, KeptIs
  <2> QED  BY <2>1, <2>2
<1>16. ASSUME NEW i \in 1..Rows
       PROVE  \/ L!Fits(e[i].text, Len(e[i].text))
              \/ \A j \in 2..i : ~e[j].dated
  <2>1. CASE k + i <= Rows
    <3>1. k + i \in 1..Rows /\ e[i] = d[k + i]  BY <1>3, <2>1
    <3>2. CASE \A j \in 2..(k + i) : ~d[j].dated
      <4>1. ASSUME NEW j \in 2..i PROVE ~e[j].dated
        <5>1. j \in 1..Rows /\ k + j <= Rows /\ k + j \in 2..(k + i)
          BY <1>1, <1>2, <2>1
        <5>2. e[j] = d[k + j]  BY <1>3, <5>1
        <5> QED  BY <3>2, <5>1, <5>2
      <4> QED  BY <4>1
    <3> QED  BY <1>13, <3>1, <3>2
  <2>2. CASE ~(k + i <= Rows)
    <3> DEFINE m == (k + i) - Rows
    <3>1. m \in 1..k /\ e[i].text = rows[m]
      <4>1. m \in 1..k /\ e[i] = [text |-> rows[m], dated |-> m = 1]  BY <1>3, <2>2
      <4> HIDE DEF m
      <4> QED  BY <4>1
    <3>2. CASE m < Rows  BY <1>2, <3>1, <3>2
    <3>3. CASE ~(m < Rows)
      <4>1. k = Rows /\ i = Rows  BY <1>1, <1>2, <3>1, <3>3
      <4>2. ASSUME NEW j \in 2..i PROVE ~e[j].dated
        <5>1. j \in 1..Rows /\ ~(k + j <= Rows) /\ (k + j) - Rows # 1  BY <1>1, <4>1
        <5>2. e[j] = [text |-> rows[(k + j) - Rows], dated |-> (k + j) - Rows = 1]
          BY <1>3, <5>1
        <5> DEFINE o == (k + j) - Rows
        <5>3. e[j] = [text |-> rows[o], dated |-> o = 1] /\ o # 1  BY <5>1, <5>2
        <5> HIDE DEF o
        <5>4. (o = 1) = FALSE  BY <5>3
        <5>5. e[j] = [text |-> rows[o], dated |-> FALSE]  BY <5>3, <5>4, Zenon
        <5> QED  BY <5>5
      <4> QED  BY <4>2
    <3> QED  BY <3>2, <3>3
  <2> QED  BY <2>1, <2>2
<1>17. ToldBy(e, all)
  <2> HIDE DEF all
  <2> QED  BY <1>14, <1>15, <1>16 DEF ToldBy, shownNext
<1> QED  BY <1>4, <1>17 DEF e, rows


-----------------------------------------------------------------------------
(* The log: the response is that of the message being received, and what is *)
(* displayed was told.                                                      *)

LogInv ==
    /\ messages \in [L!RowSet -> Row] /\ messageStartRow \in L!RowSet
    /\ newMessage \in Seq(Texts) /\ said \in Seq(Texts)
    /\ logRx # "idle" => said = newMessage
    /\ logged \in Seq(Seq(Texts)) /\ \A i \in 1..Len(logged) : logged[i] # <<>>
    /\ L!LogIsTold

LEMMA DisplayedIs ==
    ASSUME messages \in [L!RowSet -> Row], messageStartRow \in L!RowSet
    PROVE  /\ L!Displayed \in [1..Rows -> Row]
           /\ \A i \in 1..Rows : L!Displayed[i] = messages[Wrapped((messageStartRow + i) - 1)]
<1>1. Rows \in Nat \ {0} /\ messageStartRow \in 0..(Rows - 1)  BY LogAssumption DEF L!RowSet
<1>2. ASSUME NEW i \in 1..Rows
      PROVE  /\ messages[(messageStartRow + i - 1) % Rows] = messages[Wrapped((messageStartRow + i) - 1)]
             /\ messages[(messageStartRow + i - 1) % Rows] \in Row
  <2> DEFINE j == (messageStartRow + i) - 1
  <2>1. j \in 0..(2 * Rows - 1) /\ messageStartRow + i - 1 = j  BY <1>1
  <2> HIDE DEF j
  <2>2. j % Rows = Wrapped(j) /\ Wrapped(j) \in L!RowSet  BY <2>1, RingWraps
  <2> QED  BY <2>1, <2>2 DEF j
<1> QED  BY <1>2 DEF L!Displayed

LEMMA ToldIs == L!LogIsTold <=> ToldBy(L!Displayed, logged)
BY DEF L!LogIsTold, ToldBy

\* A text is appended.
LEMMA AppendSafe ==
    ASSUME LogInv, NEW text \in Seq(Texts), text # <<>>, L!AppendMessage(text),
           logged' = Append(logged, text)
    PROVE  /\ messages' \in [L!RowSet -> Row] /\ messageStartRow' \in L!RowSet
           /\ logged' \in Seq(Seq(Texts)) /\ \A i \in 1..Len(logged') : logged'[i] # <<>>
           /\ L!LogIsTold'
<1> DEFINE rows == L!RowsOf(text)
           k == Len(rows)
           start == messageStartRow
           d == L!Displayed
           Place(r) == ((r - start) % Rows) + 1
<1>1. Rows \in Nat \ {0} /\ start \in 0..(Rows - 1)  BY LogAssumption DEF LogInv, L!RowSet
<1>2. rows \in Seq(Seq(Texts)) /\ k \in 1..Rows  BY RowsAre DEF Splits
<1>3. /\ messages' = [r \in L!RowSet |->
                        IF Place(r) > k THEN messages[r]
                        ELSE [text |-> rows[Place(r)], dated |-> Place(r) = 1]]
      /\ messageStartRow' = (start + k) % Rows
  BY DEF L!AppendMessage
<1> HIDE DEF rows
<1>4. \A r \in L!RowSet : Place(r) = Apart(r - start) + 1 /\ Place(r) \in 1..Rows
  <2> SUFFICES ASSUME NEW r \in L!RowSet
               PROVE  Place(r) = Apart(r - start) + 1 /\ Place(r) \in 1..Rows
    OBVIOUS
  <2> DEFINE j == r - start
  <2>1. j \in (1 - Rows)..(Rows - 1)  BY <1>1 DEF L!RowSet
  <2> HIDE DEF j
  <2>2. j % Rows = Apart(j) /\ Apart(j) \in 0..(Rows - 1)  BY <2>1, RingIsApart DEF L!RowSet
  <2> QED  BY <1>1, <2>2 DEF j
<1>5. messages' \in [L!RowSet -> Row]
  <2>1. ASSUME NEW r \in L!RowSet
        PROVE  (IF Place(r) > k THEN messages[r]
                ELSE [text |-> rows[Place(r)], dated |-> Place(r) = 1]) \in Row
    <3>1. messages[r] \in Row  BY DEF LogInv
    <3>2. Place(r) \in 1..Rows  BY <1>4
    <3> DEFINE p == Place(r)
    <3>3. CASE ~(p > k)
      <4>1. p \in 1..k
        <5> HIDE DEF p, k
        <5>1. p \in 1..Rows  BY <3>2 DEF p
        <5> QED  BY <1>1, <1>2, <3>3, <5>1
      <4> HIDE DEF p
      <4>2. rows[p] \in Seq(Texts)  BY <1>2, <4>1
      <4>3. (p = 1) \in BOOLEAN  OBVIOUS
      <4>4. [text |-> rows[p], dated |-> p = 1] \in Row  BY <4>2, <4>3 DEF Row
      <4> QED  BY <3>3, <4>4 DEF p
    <3> QED  BY <3>1, <3>3
  <2> HIDE DEF Place, k
  <2> QED  BY <1>3, <2>1
<1>6. messageStartRow' = Wrapped(start + k) /\ messageStartRow' \in L!RowSet
  <2>1. start + k \in 0..(2 * Rows - 1)  BY <1>1, <1>2
  <2> HIDE DEF k
  <2> QED  BY <1>3, <2>1, RingWraps
<1>7. /\ d \in [1..Rows -> Row]
      /\ \A i \in 1..Rows : d[i] = messages[Wrapped((start + i) - 1)]
  BY DisplayedIs DEF LogInv
<1>8. \A i \in 1..Rows : d'[i] = messages'[Wrapped((messageStartRow' + i) - 1)]
  <2> SUFFICES ASSUME NEW i \in 1..Rows
               PROVE  d'[i] = messages'[Wrapped((messageStartRow' + i) - 1)]
    OBVIOUS
  <2>1. d'[i] = messages'[(messageStartRow' + i - 1) % Rows]  BY DEF L!Displayed
  <2> DEFINE j == (messageStartRow' + i) - 1
  <2>2. j \in 0..(2 * Rows - 1) /\ messageStartRow' + i - 1 = j  BY <1>1, <1>6 DEF L!RowSet
  <2> HIDE DEF j
  <2>3. j % Rows = Wrapped(j)  BY <2>2, RingWraps
  <2> QED  BY <2>1, <2>2, <2>3 DEF j
<1>9. d' = Pushed(d, rows)
  <2>1. ASSUME NEW i \in 1..Rows PROVE d'[i] = Pushed(d, rows)[i]
    <3> DEFINE r == Wrapped((messageStartRow' + i) - 1)
               p == Place(r)
    <3>1. r \in L!RowSet /\ p = (IF k + i <= Rows THEN k + i ELSE (k + i) - Rows)
          /\ (k + i <= Rows => r = Wrapped((start + (k + i)) - 1))
      <4>1. messageStartRow' \in 0..(Rows - 1) /\ messageStartRow' = Wrapped(start + k)
        BY <1>6 DEF L!RowSet
      <4> HIDE DEF k
      <4>2. r \in L!RowSet  BY <1>1, <4>1, SMTT(60) DEF Wrapped, L!RowSet
      <4>3. Apart(r - start) + 1 = (IF k + i <= Rows THEN k + i ELSE (k + i) - Rows)
        BY <1>1, <1>2, <4>1, SMTT(30) DEF Wrapped, Apart, k
      <4>4. k + i <= Rows => r = Wrapped((start + (k + i)) - 1)
        BY <1>1, <1>2, <4>1, SMTT(30) DEF Wrapped, k
      <4> HIDE DEF r
      <4>5. p = Apart(r - start) + 1  BY <1>4, <4>2
      <4> QED  BY <4>2, <4>3, <4>4, <4>5
    <3>2. d'[i] = messages'[r]  BY <1>8
    <3> HIDE DEF r
    <3>3. messages'[r] = IF p > k THEN messages[r] ELSE [text |-> rows[p], dated |-> p = 1]
      <4> HIDE DEF k
      <4> QED  BY <1>3, <3>1
    <3>4. Pushed(d, rows)[i]
            = IF k + i <= Rows THEN d[k + i]
              ELSE [text |-> rows[(k + i) - Rows], dated |-> (k + i) - Rows = 1]
      BY DEF Pushed
    <3> HIDE DEF p, k
    <3>5. k \in 1..Rows  BY <1>2 DEF k
    <3>6. CASE k + i <= Rows
      <4>1. p > k /\ k + i \in 1..Rows  BY <1>1, <3>1, <3>5, <3>6
      <4>2. d[k + i] = messages[r]
        <5>1. d[k + i] = messages[Wrapped((start + (k + i)) - 1)]
          <6> DEFINE m == k + i
          <6> HIDE DEF m
          <6>1. m \in 1..Rows  BY <4>1 DEF m
          <6>2. d[m] = messages[Wrapped((start + m) - 1)]  BY <1>7, <6>1
          <6> QED  BY <6>2 DEF m
        <5> QED  BY <3>1, <3>6, <5>1
      <4> QED  BY <3>2, <3>3, <3>4, <3>6, <4>1, <4>2
    <3>7. CASE ~(k + i <= Rows)
      <4>1. p = (k + i) - Rows /\ ~(p > k)  BY <1>1, <3>1, <3>5, <3>7
      <4>2. d'[i] = [text |-> rows[p], dated |-> p = 1]  BY <3>2, <3>3, <4>1
      <4>3. Pushed(d, rows)[i] = [text |-> rows[p], dated |-> p = 1]  BY <3>4, <3>7, <4>1
      <4> QED  BY <4>2, <4>3
    <3> QED  BY <3>6, <3>7
  <2>2. d' = [i \in 1..Rows |-> d'[i]]  BY DEF L!Displayed
  <2>3. Pushed(d, rows) = [i \in 1..Rows |-> Pushed(d, rows)[i]]  BY DEF Pushed
  <2> HIDE DEF d
  <2> QED  BY <2>1, <2>2, <2>3
<1>10. ToldBy(d, logged) /\ logged \in Seq(Seq(Texts)) /\ \A i \in 1..Len(logged) : logged[i] # <<>>
  BY ToldIs DEF LogInv
<1>11. ToldBy(Pushed(d, rows), Append(logged, text))
  <2> HIDE DEF d
  <2> QED  BY <1>7, <1>10, MoreIsTold DEF rows
<1>12. L!LogIsTold' <=> ToldBy(d', logged')
  BY DEF L!LogIsTold, ToldBy
<1>13. L!LogIsTold'
  <2>1. ToldBy(d', logged')
    <3> HIDE DEF d
    <3> QED  BY <1>9, <1>11
  <2> QED  BY <1>12, <2>1
<1>14. logged' \in Seq(Seq(Texts)) /\ \A i \in 1..Len(logged') : logged'[i] # <<>>
  <2>1. /\ Len(logged') = Len(logged) + 1 /\ Len(logged) \in Nat /\ logged' \in Seq(Seq(Texts))
        /\ \A i \in 1..Len(logged) : logged'[i] = logged[i]
        /\ logged'[Len(logged) + 1] = text
    BY <1>10
  <2>2. ASSUME NEW i \in 1..Len(logged') PROVE logged'[i] # <<>>
    <3>1. CASE i \in 1..Len(logged)  BY <1>10, <2>1, <3>1
    <3>2. CASE i \notin 1..Len(logged)
      <4>1. i = Len(logged) + 1  BY <2>1, <3>2
      <4> QED  BY <2>1, <4>1
    <3> QED  BY <3>1, <3>2
  <2> QED  BY <2>1, <2>2
<1> QED  BY <1>5, <1>6, <1>13, <1>14

LEMMA RestIsText ==
    ASSUME NEW C, NEW s \in Seq(C)
    PROVE  L!WithoutLeading(s) \in Seq(C)
<1> DEFINE I == {i \in 1..Len(s) : s[i] # " "}
           from == IF I # {} THEN L!Min(I) ELSE 0
<1>0. 1..Len(s) \subseteq Nat  OBVIOUS
<1>1. L!WithoutLeading(s) = IF from = 0 THEN <<>> ELSE SubSeq(s, from, Len(s))
  BY DEF L!WithoutLeading, L!SelectInSeq
<1>2. I # {} => L!Min(I) \in I
  <2> SUFFICES ASSUME I # {} PROVE L!Min(I) \in I  OBVIOUS
  <2>1. I \in SUBSET Nat
    <3>1. I \subseteq 1..Len(s)  BY Zenon
    <3> QED  BY <1>0, <3>1, Zenon
  <2> HIDE DEF I
  <2>2. \E n \in I : \A m \in I : n <= m  BY <2>1, LeastNumber
  <2> QED  BY <2>2 DEF L!Min
<1>3. from = 0 \/ from \in 1..Len(s)  BY <1>2
<1> HIDE DEF from
<1>4. CASE from \in 1..Len(s)
  <2>1. from - 1 \in 0..Len(s) /\ (from - 1) + 1 = from  BY <1>4
  <2>2. SubSeq(s, from, Len(s)) \in Seq(C)  BY <2>1, SplitAt DEF From
  <2>3. from # 0  BY <1>4
  <2> QED  BY <1>1, <2>2, <2>3
<1>5. CASE from = 0  BY <1>1, <1>5, EmptySeq
<1> QED  BY <1>3, <1>4, <1>5

LEMMA DisplaySafe ==
    ASSUME LogInv, logRx # "idle", L!DisplayNewMessage
    PROVE  /\ messages' \in [L!RowSet -> Row] /\ messageStartRow' \in L!RowSet
           /\ newMessage' \in Seq(Texts)
           /\ logged' \in Seq(Seq(Texts)) /\ \A i \in 1..Len(logged') : logged'[i] # <<>>
           /\ L!LogIsTold'
<1> DEFINE text == L!WithoutLeading(newMessage)
<1>1. text \in Seq(Texts)  BY RestIsText DEF LogInv
<1>2. said = newMessage  BY DEF LogInv
<1>3. newMessage' \in Seq(Texts)  BY EmptySeq DEF L!DisplayNewMessage
<1>4. CASE text = <<>>
  <2>1. UNCHANGED <<messages, messageStartRow, logged>>
    BY <1>2, <1>4 DEF L!DisplayNewMessage
  <2>2. L!LogIsTold'  BY <2>1 DEF LogInv, L!LogIsTold, L!Displayed
  <2> QED  BY <1>3, <2>1, <2>2 DEF LogInv
<1>5. CASE text # <<>>
  <2>1. L!AppendMessage(text) /\ logged' = Append(logged, text)
    BY <1>2, <1>5 DEF L!DisplayNewMessage
  <2> HIDE DEF text
  <2> QED  BY <1>1, <1>3, <1>5, <2>1, AppendSafe
<1> QED  BY <1>4, <1>5

\* A step that leaves the log as it is.
LEMMA LogStays ==
    ASSUME LogInv, UNCHANGED L!log
    PROVE  /\ messages' \in [L!RowSet -> Row] /\ messageStartRow' \in L!RowSet
           /\ logged' \in Seq(Seq(Texts)) /\ \A i \in 1..Len(logged') : logged'[i] # <<>>
           /\ L!LogIsTold'
<1>1. UNCHANGED <<messages, messageStartRow, logged>>  BY DEF L!log
<1>2. L!LogIsTold'  BY <1>1 DEF LogInv, L!LogIsTold, L!Displayed
<1> QED  BY <1>1, <1>2 DEF LogInv

LEMMA LogStarts == PartsInit => LogInv
<1> SUFFICES ASSUME PartsInit PROVE LogInv  OBVIOUS
<1> DEFINE empty == [text |-> <<>>, dated |-> FALSE]
           d == L!Displayed
           shown == [i \in 1..Rows |-> d[i].text]
           kept == [i \in 1..Len(logged) |-> L!Kept(logged[i])]
<1>1. /\ messages = [r \in L!RowSet |-> empty] /\ messageStartRow = 0 /\ newMessage = <<>>
      /\ said = <<>> /\ logged = <<>>
  BY DEF PartsInit, L!LogInit
<1>2. Rows \in Nat \ {0}  BY LogAssumption
<1>3. empty \in Row  BY EmptySeq DEF Row
<1>4. messages \in [L!RowSet -> Row] /\ messageStartRow \in L!RowSet
  <2> HIDE DEF empty
  <2> QED  BY <1>1, <1>2, <1>3 DEF L!RowSet
<1>5. \A i \in 1..Rows : d[i] = empty
  <2> SUFFICES ASSUME NEW i \in 1..Rows PROVE d[i] = empty  OBVIOUS
  <2>1. d[i] = messages[Wrapped((messageStartRow + i) - 1)]  BY <1>4, DisplayedIs
  <2>2. Wrapped((messageStartRow + i) - 1) \in L!RowSet
    BY <1>1, <1>2 DEF Wrapped, L!RowSet
  <2> HIDE DEF d, empty
  <2> QED  BY <1>1, <2>1, <2>2
<1>6. L!Unspaced(shown) = <<>>
  <2> HIDE DEF d
  <2>1. \A i \in 1..Rows : shown[i] = <<>>  BY <1>5
  <2>2. shown \in [1..Rows -> Seq(Texts)]
    <3>1. \A i \in 1..Rows : d[i].text = <<>> /\ <<>> \in Seq(Texts)  BY <1>5, EmptySeq
    <3>2. \A i \in 1..Rows : d[i].text \in Seq(Texts)  BY <3>1, Zenon
    <3> QED  BY <3>2
  <2> HIDE DEF shown
  <2>3. shown \in Seq(Seq(Texts)) /\ Len(shown) = Rows  BY <1>2, <2>2, FunctionIsSeq
  <2>4. L!FlattenSeq(shown) = <<>>  BY <2>1, <2>3, FlattenNone
  <2> QED  BY <2>4, UnspacedIs, NothingVisible
<1>7. L!Unspaced(kept) = <<>>
  <2>1. Len(logged) = 0  BY <1>1, EmptySeq
  <2>2. kept \in [1..0 -> Seq(Texts)]  BY <2>1
  <2> HIDE DEF kept
  <2>3. kept \in Seq(Seq(Texts)) /\ Len(kept) = 0  BY <2>2, FunctionIsSeq
  <2>4. \A i \in 1..Len(kept) : kept[i] = <<>>  BY <2>3
  <2>5. L!FlattenSeq(kept) = <<>>  BY <2>3, <2>4, FlattenNone
  <2> QED  BY <2>5, UnspacedIs, NothingVisible
<1>8. L!IsSuffix(<<>>, <<>>)
  <2>1. <<>> \in Seq(Texts) /\ <<>> \o <<>> = <<>>  BY EmptySeq, ConcatEmptySeq
  <2>2. L!IsSuffix(<<>>, <<>> \o <<>>)  BY <2>1, EndIsSuffix
  <2> QED  BY <2>1, <2>2
<1>9. \A i \in 1..Rows : ~d[i].dated
  <2> HIDE DEF d
  <2> QED  BY <1>5
<1>10. ASSUME NEW i \in 1..Rows PROVE L!Fits(d[i].text, Len(d[i].text))
  <2> HIDE DEF d
  <2>1. d[i].text = <<>> /\ Len(<<>>) = 0  BY <1>5, EmptySeq
  <2>2. L!Fits(<<>>, 0)  BY NoWidth, LogAssumption DEF L!Fits
  <2> QED  BY <2>1, <2>2
<1>11. \A i \in 1..Len(logged) : FALSE  BY <1>1, EmptySeq
<1>12. L!IsSuffix(L!Unspaced(shown), L!Unspaced(kept))
  <2> HIDE DEF shown, kept
  <2> QED  BY <1>6, <1>7, <1>8
<1>13. L!LogIsTold  BY <1>10, <1>11, <1>12 DEF L!LogIsTold
<1> QED  BY <1>1, <1>4, <1>11, <1>13, EmptySeq DEF LogInv

LEMMA LogGoesOn == LogInv /\ [PartsNext]_partsVars => LogInv'
<1> SUFFICES ASSUME LogInv, [PartsNext]_partsVars PROVE LogInv'  OBVIOUS
<1>1. ASSUME UNCHANGED logVars PROVE LogInv'
  <2>1. UNCHANGED L!log  BY <1>1 DEF logVars, L!log
  <2> QED  BY <1>1, <2>1, LogStays DEF LogInv, logVars
<1>2. ASSUME L!AppendOwn PROVE LogInv'
  <2> DEFINE text == <<"n", "n">>
  <2>1. text \in Seq(Texts) /\ text # <<>>
    <3>1. "n" \in Texts  BY DEF Texts
    <3> QED  BY <3>1
  <2>2. L!AppendMessage(text) /\ logged' = Append(logged, text)  BY <1>2 DEF L!AppendOwn
  <2>3. UNCHANGED <<newMessage, logRx, said>>  BY <1>2 DEF L!AppendOwn
  <2> HIDE DEF text
  <2> QED  BY <2>1, <2>2, <2>3, AppendSafe DEF LogInv
<1>3. ASSUME L!StartReceivedMessage PROVE LogInv'
  <2>1. UNCHANGED L!log /\ newMessage' = <<>> /\ said' = <<>>
    BY <1>3 DEF L!StartReceivedMessage, L!BeginNewMessage
  <2> QED  BY <2>1, LogStays, EmptySeq DEF LogInv
<1>4. ASSUME L!ReceiveSeq PROVE LogInv'
  <2>1. UNCHANGED L!log /\ UNCHANGED <<newMessage, logRx, said>>  BY <1>4 DEF L!ReceiveSeq
  <2> QED  BY <2>1, LogStays DEF LogInv
<1>5. ASSUME L!ReceiveResponse PROVE LogInv'
  <2>1. PICK text \in L!Texts(L!CharactersLeft) : newMessage' = text /\ said' = text
    BY <1>5 DEF L!ReceiveResponse
  <2>2. UNCHANGED L!log  BY <1>5 DEF L!ReceiveResponse
  <2>3. text \in Seq(Texts)
    <3>1. L!CharactersLeft \in Int
      <4>1. L!FlattenSeq(logged) \in Seq(Texts)  BY FlattenType DEF LogInv
      <4>2. Len(L!FlattenSeq(logged)) \in Nat  BY <4>1, LenProperties
      <4> QED  BY <4>2, LogAssumption DEF L!CharactersLeft
    <3>2. PICK n \in 1..L!CharactersLeft : text \in [1..n -> Characters]  BY <2>1 DEF L!Texts
    <3>3. n \in Nat  BY <3>1
    <3>4. text \in [1..n -> Texts]  BY <3>2 DEF Texts
    <3> QED  BY <3>3, <3>4, FunctionIsSeq
  <2> QED  BY <2>1, <2>2, <2>3, LogStays DEF LogInv
<1>6. ASSUME L!EndReceivedMessage PROVE LogInv'
  <2>1. logRx # "idle" /\ logRx' = "idle" /\ said' = <<>>  BY <1>6 DEF L!EndReceivedMessage
  <2>2. L!DisplayNewMessage \/ UNCHANGED <<L!log, newMessage>>  BY <1>6 DEF L!EndReceivedMessage
  <2>3. CASE L!DisplayNewMessage  BY <2>1, <2>3, DisplaySafe, EmptySeq DEF LogInv
  <2>4. CASE UNCHANGED <<L!log, newMessage>>  BY <2>1, <2>4, LogStays, EmptySeq DEF LogInv
  <2> QED  BY <2>2, <2>3, <2>4
<1>7. ASSUME L!MessageIsCutOff PROVE LogInv'
  <2>1. UNCHANGED L!log /\ UNCHANGED newMessage /\ logRx' = "idle" /\ said' = <<>>
    BY <1>7 DEF L!MessageIsCutOff
  <2> QED  BY <2>1, LogStays, EmptySeq DEF LogInv
<1>8. L!LogNext \/ UNCHANGED logVars
  BY DEF PartsNext, Previews, Objects, Setup, Log, Fields, partsVars
<1> QED  BY <1>1, <1>2, <1>3, <1>4, <1>5, <1>6, <1>7, <1>8 DEF L!LogNext

\* What the Console page shows is the end of all that was told, whole messages without a
\* character lost or repeated where they are split or the ring of rows wraps
\* (src/UI/MessageLog.cpp:124, AppendMessage), for any number of rows, characters of a row
\* and width of it, and however messages are cut off.
THEOREM LogIsAlwaysTold == PartsSpec => []LogIsTold
<1>1. LogInv => LogIsTold  BY DEF LogInv, LogIsTold
<1> QED  BY <1>1, LogStarts, LogGoesOn, PTL DEF PartsSpec

==============================================================================
