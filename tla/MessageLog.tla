------------------------------ MODULE MessageLog ------------------------------
(***************************************************************************)
(* The message log of the Console page (src/UI/MessageLog.cpp): a ring of   *)
(* rows that a message is split into, and the response that is kept until   *)
(* the message it came in has ended (StartReceivedMessage and               *)
(* EndReceivedMessage of src/PanelDue.cpp).                                 *)
(*                                                                         *)
(* A text is a sequence of characters of one byte, narrow, wide or those a  *)
(* text is split at; the kerning of pairs is left out, and of the time of a *)
(* row only whether it has one.                                             *)
(***************************************************************************)
EXTENDS Integers, Sequences, SequencesExt

CONSTANTS
    Characters,  \* a subset of {"n", "W", ",", " "}
    Rows,        \* numMessageRows
    RowChars,    \* MaxCharsPerRow
    RowWidth,    \* messageTextWidth
    MaxTold,     \* bound: characters of all texts
    MaxReceived  \* bound: messages received

VARIABLES
    messages, messageStartRow, newMessage,
    messageSeq, newMessageSeq,
    logRx,    \* how far the message being received has come
    said,     \* history: the response in it
    logged,   \* history: the texts of responses and of the panel's own messages
    received  \* how many messages there have been

log == <<messages, messageStartRow, logged>>
logVars == <<log, newMessage, messageSeq, newMessageSeq, logRx, said, received>>

RowSet == 0..(Rows - 1)

LogInit ==
    /\ messages = [r \in RowSet |-> [text |-> <<>>, dated |-> FALSE]] /\ messageStartRow = 0
    /\ newMessage = <<>>
    /\ messageSeq = 0 /\ newMessageSeq = 0
    /\ logRx = "idle" /\ said = <<>> /\ logged = <<>> /\ received = 0

-----------------------------------------------------------------------------
(* Splitting a text.                                                        *)

\* GetTextWidth: of the first n characters, a wide one as two others.
TextWidth(s, n) == n + Cardinality({i \in 1..n : s[i] = "W"})

Fits(s, n) == TextWidth(s, n) <= RowWidth

\* The binary search for the most characters that fit.
Low(s) ==
    LET limit == IF Len(s) <= RowChars THEN Len(s) ELSE RowChars + 1
        search[range \in (0..limit) \X (0..limit)] ==
            LET low == range[1]
                high == range[2]
                mid == (low + high) \div 2
            IN  IF low + 1 >= high THEN low
                ELSE search[IF Fits(s, mid) THEN <<mid, high>> ELSE <<low, mid>>]
    IN  search[<<0, limit>>]

\* After a space or comma, unless that would leave more than a fifth unused.
SplitBack(s, low) ==
    LET back[p \in 0..low] ==
            IF p = 0 \/ s[p] \in {" ", ","} THEN p
            ELSE IF (low - p) * 5 > low THEN low ELSE back[p - 1]
    IN  back[low]

FindSplitPoint(s) ==
    IF Len(s) <= RowChars /\ Fits(s, Len(s)) THEN Len(s)
    ELSE IF s[Low(s) + 1] = " " THEN Low(s) ELSE SplitBack(s, Low(s))

\* The rows a text is put into: it is split, but for the last row there is, and a space
\* at which it is split is not shown.
RowsOf(s) ==
    LET rest(i) == SubSeq(s, i, Len(s))
        row[at \in (1..Len(s)) \X (1..Rows)] ==
            LET i == at[1]
                n == at[2]
                p == IF n = Rows THEN Len(rest(i)) ELSE FindSplitPoint(rest(i))
                next == IF p < Len(rest(i)) /\ s[i + p] = " " THEN i + p + 1 ELSE i + p
            IN  IF p = Len(rest(i))
                THEN <<SubSeq(rest(i), 1, IF p <= RowChars THEN p ELSE RowChars)>>
                ELSE <<SubSeq(rest(i), 1, p)>>
                       \o IF next > Len(s) THEN <<>> ELSE row[<<next, n + 1>>]
    IN  row[<<1, 1>>]

-----------------------------------------------------------------------------
(* The log.                                                                 *)

\* Only a text's first row has a time.
AppendMessage(text) ==
    LET rows == RowsOf(text)
        place(r) == ((r - messageStartRow) % Rows) + 1
    IN  /\ messages' = [r \in RowSet |->
                          IF place(r) > Len(rows) THEN messages[r]
                          ELSE [text |-> rows[place(r)], dated |-> place(r) = 1]]
        /\ messageStartRow' = (messageStartRow + Len(rows)) % Rows

\* Leading spaces are skipped, and nothing else is no message.
WithoutLeading(s) ==
    LET from == SelectInSeq(s, LAMBDA c : c # " ")
    IN  IF from = 0 THEN <<>> ELSE SubSeq(s, from, Len(s))

DisplayNewMessage ==
    /\ newMessage' = <<>>
    /\ IF WithoutLeading(newMessage) = <<>> THEN UNCHANGED <<messages, messageStartRow>>
       ELSE AppendMessage(WithoutLeading(newMessage))
    /\ logged' = IF WithoutLeading(said) = <<>> THEN logged
                 ELSE Append(logged, WithoutLeading(said))

CharactersLeft == MaxTold - Len(FlattenSeq(logged))

\* A message of the panel itself, from anywhere in the main loop.  One that is too verbose
\* for logLevel is not appended, and no action.
AppendOwn ==
    /\ CharactersLeft >= 2
    /\ AppendMessage(<<"n", "n">>) /\ logged' = Append(logged, <<"n", "n">>)
    /\ UNCHANGED <<newMessage, messageSeq, newMessageSeq, logRx, said, received>>

-----------------------------------------------------------------------------
(* What is received.                                                        *)

\* Mutant: the response of a message that was cut off stays.
BeginNewMessageKept == UNCHANGED newMessage

BeginNewMessage == newMessage' = <<>>

StartReceivedMessage ==
    /\ logRx = "idle" /\ logRx' = "begun" /\ received < MaxReceived /\ received' = received + 1
    /\ newMessageSeq' = messageSeq /\ BeginNewMessage /\ said' = <<>>
    /\ UNCHANGED <<log, messageSeq>>

\* The number of the push message, new or that of the last one.
ReceiveSeq ==
    /\ logRx \in {"begun", "response"} /\ newMessageSeq' \in {messageSeq, received}
    /\ UNCHANGED <<log, newMessage, messageSeq, logRx, said, received>>

Texts(length) == UNION {[1..n -> Characters] : n \in 1..length}

ReceiveResponse ==
    /\ logRx = "begun" /\ logRx' = "response"
    /\ \E text \in Texts(CharactersLeft) : newMessage' = text /\ said' = text
    /\ UNCHANGED <<log, messageSeq, newMessageSeq, received>>

EndReceivedMessage ==
    /\ logRx # "idle" /\ logRx' = "idle" /\ messageSeq' = newMessageSeq /\ said' = <<>>
    /\ IF newMessageSeq # messageSeq THEN DisplayNewMessage ELSE UNCHANGED <<log, newMessage>>
    /\ UNCHANGED <<newMessageSeq, received>>

\* The rest of a message is lost: its end never comes.
MessageIsCutOff ==
    /\ logRx # "idle" /\ logRx' = "idle" /\ said' = <<>>
    /\ UNCHANGED <<log, newMessage, messageSeq, newMessageSeq, received>>

LogNext ==
    \/ AppendOwn \/ StartReceivedMessage \/ ReceiveSeq \/ ReceiveResponse
    \/ EndReceivedMessage \/ MessageIsCutOff

LogSpec == LogInit /\ [][LogNext]_logVars

-----------------------------------------------------------------------------
(* Properties.                                                              *)

\* UpdateMessages: the rows from the oldest to the newest.
Displayed == [i \in 1..Rows |-> messages[(messageStartRow + i - 1) % Rows]]

Unspaced(texts) ==
    LET all == FlattenSeq(texts)
    IN  FlattenSeq([i \in 1..Len(all) |-> IF all[i] = " " THEN <<>> ELSE <<all[i]>>])

\* What a text leaves in the log: all of it, unless it needs all rows.
Kept(text) == IF Len(RowsOf(text)) < Rows THEN text ELSE FlattenSeq(RowsOf(text))

\* What is displayed is the end of all that was told, whole messages of the printer and
\* the panel's own, without a character lost or repeated at a split or where the ring
\* wraps, and each row has its place; only of a text that needs all rows the end may be
\* missing, or have no place, in the last one.
LogIsTold ==
    /\ IsSuffix(Unspaced([i \in 1..Rows |-> Displayed[i].text]),
                Unspaced([i \in 1..Len(logged) |-> Kept(logged[i])]))
    /\ \A i \in 1..Len(logged) :
         IsPrefix(Unspaced(<<Kept(logged[i])>>), Unspaced(<<logged[i]>>))
    /\ \A i \in 1..Rows :
         \/ Fits(Displayed[i].text, Len(Displayed[i].text))
         \/ \A j \in 2..i : ~Displayed[j].dated
=============================================================================
