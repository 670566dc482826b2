------------------------------ MODULE JsonParser ------------------------------
(***************************************************************************)
(* The parser of CheckInput (src/Hardware/SerialIo.cpp): a state machine    *)
(* over the characters of a line that keeps no stack of the brackets open.  *)
(* The name of the field being received is the stack: '^' in it stands for  *)
(* an open array and ':' for an open object.  The callback for a value      *)
(* (ProcessReceivedValue, src/PanelDue.cpp) changes that name while the     *)
(* parser is in the middle of it.                                           *)
(*                                                                         *)
(* A name is a sequence of pieces: "key" and "result", names of their own,  *)
(* "seq", what "result" is replaced by, and "x" for any other character.    *)
(* Of a value the model keeps how many characters it has.  Characters that  *)
(* the provers cannot write in a string are spelled out.                    *)
(***************************************************************************)
EXTENDS Integers, Sequences

CONSTANTS
    MaxId,           \* pieces that fit in fieldId
    MaxVal,          \* characters that fit in fieldVal
    MaxArrayNesting, \* arrays that may be open
    MaxElements,     \* bound: values in an array
    Input            \* characters the printer sends, a subset of Chars

Names == {"key", "result"}
Letters == {"a", "e", "n"} \cup Names
Chars == Letters \cup
    {"lbrace", "rbrace", "lbracket", "rbracket", ":", "comma", "quote", "backslash", "^",
     "space", "control", "-", "+", ".", "0", "E", "/", "newline"}
Marks == {":", "^"}
Pieces == Names \cup Marks \cup {"seq", "x"}

ASSUME ParserAssumption ==
    /\ MaxId \in Nat \ {0} /\ MaxVal \in Nat \ {0} /\ MaxArrayNesting \in Nat \ {0}
    /\ MaxElements \in Nat /\ Input \subseteq Chars

VARIABLES
    state, fieldId, fieldVal, arrayIndices, arrayDepth,
    keyed,   \* currentRespSeq # nullptr
    called,  \* the callback made last for a message as a whole
    \* history: what a reader with a stack makes of the same text
    open,    \* the brackets open
    owed,    \* scalar values begun and not yet reported
    dropped  \* the name of an object open has been taken out of fieldId

vars == <<state, fieldId, fieldVal, arrayIndices, arrayDepth, keyed, called, open, owed,
          dropped>>
arrays == <<arrayIndices, arrayDepth>>

NumberStates == {"jsNegIntVal", "jsIntVal", "jsFracVal", "jsExpValSign", "jsExpValFirstDigit",
                 "jsExpValDigits"}
ScalarStates == NumberStates \cup {"jsStringVal", "jsStringEscape", "jsCharsVal"}
States == ScalarStates \cup
    {"jsBegin", "jsExpectId", "jsId", "jsHadId", "jsVal", "jsEndVal", "jsError"}
Slots == 0..(MaxArrayNesting - 1)
Frames == [kind : {"lbrace", "lbracket"}, elements : Nat, depth : Nat, path : Seq(Pieces)]

Init ==
    /\ state = "jsBegin" /\ fieldId = <<>> /\ fieldVal = 0
    /\ arrayIndices = [d \in Slots |-> 0] /\ arrayDepth = 0
    /\ keyed = FALSE /\ called = "none"
    /\ open = <<>> /\ owed = 0 /\ dropped = FALSE

-----------------------------------------------------------------------------
(* fieldId.                                                                 *)

EndsWith(id, mark) == id # <<>> /\ id[Len(id)] = mark

InArray == EndsWith(fieldId, "^")

\* Mutant: '^' only ends a name.
RemoveLastIdOfArray(id) ==
    SubSeq(id, 1, CHOOSE i \in 0..Len(id) : /\ i = 0 \/ id[i] = "^"
                                            /\ \A j \in (i + 1)..Len(id) : id[j] # "^")

\* The name behind the last mark is removed.
RemoveLastId(id) ==
    SubSeq(id, 1, CHOOSE i \in 0..Len(id) : /\ i = 0 \/ id[i] \in Marks
                                            /\ \A j \in (i + 1)..Len(id) : id[j] \notin Marks)

RemoveLastIdChar(id) == IF id = <<>> THEN id ELSE SubSeq(id, 1, Len(id) - 1)

\* ProcessReceivedValue: "result" is replaced by the key the response is about, or
\* else removed together with what follows it.
Renamed(id) ==
    IF id = <<>> \/ Head(id) # "result" THEN id
    ELSE IF keyed THEN <<"seq">> \o Tail(id)
    ELSE IF Tail(id) = <<>> THEN <<>> ELSE Tail(Tail(id))

\* The reader's paths are renamed as the parser's is.
RenamedFrames == [i \in 1..Len(open) |-> [open[i] EXCEPT !.path = Renamed(@)]]

-----------------------------------------------------------------------------
(* The reader with a stack.  path is the name under which the members or     *)
(* elements of a bracket are reported, depth the number of arrays open.      *)

Top(stack) == stack[Len(stack)]
Pop(stack) == SubSeq(stack, 1, Len(stack) - 1)
Frame(kind, depth, path) == [kind |-> kind, elements |-> 0, depth |-> depth, path |-> path]
Counted(frame) == [frame EXCEPT !.elements = @ + 1]

\* A string, or a name, in which brackets and commas have no meaning.
InText == state \in {"jsId", "jsStringVal", "jsStringEscape", "jsError"}

Closes(c) == IF c = "rbrace" THEN "lbrace" ELSE "lbracket"

\* The brackets open after character c, stack being those before.
Read(c, stack) ==
    CASE c = "newline" -> <<>>
      [] c = "lbrace" /\ state = "jsBegin" -> <<Frame("lbrace", 0, <<>>)>>
      [] c \in {"lbrace", "lbracket"} /\ state # "jsBegin" /\ ~InText ->
            LET arraysOpen == Top(stack).depth + (IF c = "lbracket" THEN 1 ELSE 0)
            IN  Append(stack, Frame(c, arraysOpen, fieldId'))
      [] c = "comma" /\ state # "jsBegin" /\ ~InText ->
            IF Top(stack).kind = "lbracket" THEN Append(Pop(stack), Counted(Top(stack)))
            ELSE stack
      [] c \in {"rbrace", "rbracket"} /\ ~InText /\ stack # <<>> ->
            IF Top(stack).kind = Closes(c) THEN Pop(stack) ELSE stack
      [] OTHER -> stack

-----------------------------------------------------------------------------
(* Parts of the state machine.  id is fieldId as the callback, if there was  *)
(* one, has left it.                                                         *)

Goto(s) == state' = s

\* A character of a value; without room for it a number or a word is an error.
CatVal(s) ==
    IF fieldVal < MaxVal THEN Goto(s) /\ fieldVal' = fieldVal + 1
    ELSE Goto("jsError") /\ UNCHANGED fieldVal

\* Mutant: a name that has no room left grows all the same.
CatIdUnchecked(p, s) == Goto(s) /\ fieldId' = Append(fieldId, p)

CatId(p, s) ==
    IF Len(fieldId) < MaxId THEN Goto(s) /\ fieldId' = Append(fieldId, p)
    ELSE Goto("jsError") /\ UNCHANGED fieldId

\* ProcessField, if processed; fieldId is then as Path says.
Path(processed) == IF processed THEN Renamed(fieldId) ELSE fieldId
Stack(processed) == IF processed THEN RenamedFrames ELSE open

Cleared(processed) == fieldVal' = IF processed THEN 0 ELSE fieldVal

Reported(processed) ==
    /\ owed' = IF processed THEN owed - 1 ELSE owed
    /\ dropped' = (\/ dropped
                   \/ /\ processed /\ ~keyed
                      /\ Len(fieldId) > 1 /\ fieldId[1] = "result" /\ fieldId[2] = ":")

\* The value of "key" may be that of an entry of seqs.
KeyedAfter(processed) == IF processed /\ fieldId = <<"key">> THEN BOOLEAN ELSE {keyed}

Comma(processed) ==
    /\ IF EndsWith(Path(processed), "^")
       THEN /\ Goto("jsVal") /\ fieldId' = Path(processed) /\ fieldVal' = 0
            /\ arrayIndices' = [arrayIndices EXCEPT ![arrayDepth - 1] = @ + 1]
       ELSE /\ Goto("jsExpectId") /\ fieldId' = RemoveLastId(Path(processed))
            /\ Cleared(processed) /\ UNCHANGED arrayIndices
    /\ Reported(processed) /\ keyed' \in KeyedAfter(processed)
    /\ open' = Read("comma", Stack(processed))
    /\ UNCHANGED <<arrayDepth, called>>

EndArray(id) ==
    IF arrayDepth # 0
    THEN arrayDepth' = arrayDepth - 1 /\ fieldId' = RemoveLastIdChar(id)
    ELSE UNCHANGED arrayDepth /\ fieldId' = id

\* ']' after an element.
CloseArray(processed) ==
    /\ InArray /\ Goto("jsEndVal")
    /\ arrayIndices' = [arrayIndices EXCEPT ![arrayDepth - 1] = @ + 1]
    /\ EndArray(Path(processed))
    /\ Cleared(processed) /\ Reported(processed) /\ keyed' \in KeyedAfter(processed)
    /\ open' = Read("rbracket", Stack(processed))
    /\ UNCHANGED called

\* Mutant: the name of a member of one character is taken for none.
EndObjectShort(processed) ==
    LET rest == RemoveLastId(Path(processed))
    IN  /\ IF Len(rest) <= 2
           THEN Goto("jsBegin") /\ fieldId' = rest /\ called' = "end" /\ keyed' = FALSE
           ELSE /\ Goto("jsEndVal") /\ fieldId' = RemoveLastIdChar(rest)
                /\ keyed' \in KeyedAfter(processed) /\ UNCHANGED called
        /\ Cleared(processed) /\ Reported(processed)
        /\ open' = Read("rbrace", Stack(processed))
        /\ UNCHANGED arrays

\* '}': EndReceivedMessage, which forgets the entry, when no name is left.
EndObject(processed) ==
    LET rest == RemoveLastId(Path(processed))
    IN  /\ IF rest = <<>>
           THEN Goto("jsBegin") /\ fieldId' = rest /\ called' = "end" /\ keyed' = FALSE
           ELSE /\ Goto("jsEndVal") /\ fieldId' = RemoveLastIdChar(rest)
                /\ keyed' \in KeyedAfter(processed) /\ UNCHANGED called
        /\ Cleared(processed) /\ Reported(processed)
        /\ open' = Read("rbrace", Stack(processed))
        /\ UNCHANGED arrays

\* Only the state changes, with character c.
Step(c, s) ==
    /\ Goto(s)
    /\ UNCHANGED <<fieldId, fieldVal, arrays, keyed, called, owed, dropped>>
    /\ open' = Read(c, open)

Fail(c) == Step(c, "jsError")

CheckValueCompleted(c, processed) ==
    \/ c = "comma" /\ Comma(processed)
    \/ c = "rbracket" /\ (CloseArray(processed) \/ (~InArray /\ Fail(c)))
    \/ c = "rbrace" /\ IF InArray THEN Fail(c) ELSE EndObject(processed)

-----------------------------------------------------------------------------
(* The states of the machine, with a character other than a newline.        *)

StartReceivedMessage(c) ==
    /\ state = "jsBegin" /\ c = "lbrace"
    /\ Goto("jsExpectId") /\ fieldId' = <<>> /\ fieldVal' = 0 /\ arrayDepth' = 0
    /\ called' = "start" /\ open' = Read(c, open) /\ owed' = 0 /\ dropped' = FALSE
    /\ UNCHANGED <<arrayIndices, keyed>>

\* Between messages, and after an error.
Ignore(c) ==
    /\ state = "jsError" \/ (state = "jsBegin" /\ c # "lbrace")
    /\ Step(c, state)

ExpectId(c) ==
    /\ state = "jsExpectId"
    /\ \/ c = "space" /\ Step(c, state)
       \/ c = "quote" /\ Step(c, "jsId")
       \/ c = "rbrace" /\ EndObject(FALSE)
       \/ c \notin {"space", "quote", "rbrace"} /\ Fail(c)

\* A name loses the characters that stand for brackets.
Id(c) ==
    /\ state = "jsId"
    /\ \/ c = "quote" /\ Step(c, "jsHadId")
       \/ c = "control" /\ Fail(c)
       \/ c \in Marks /\ Step(c, state)
       \/ /\ c \notin {"quote", "control"} \cup Marks
          /\ CatId(IF c \in Names THEN c ELSE "x", "jsId") /\ open' = Read(c, open)
          /\ UNCHANGED <<fieldVal, arrays, keyed, called, owed, dropped>>

HadId(c) ==
    /\ state = "jsHadId"
    /\ \/ c = ":" /\ Step(c, "jsVal")
       \/ c = "space" /\ Step(c, state)
       \/ c \notin {":", "space"} /\ Fail(c)

\* Mutant: the index of the array opened before at this depth stays.
OpenArrayStale(c) ==
    /\ c = "lbracket"
    /\ IF arrayDepth < MaxArrayNesting /\ Len(fieldId) < MaxId
       THEN /\ state' = state /\ fieldId' = Append(fieldId, "^")
            /\ arrayIndices' = arrayIndices
            /\ arrayDepth' = arrayDepth + 1
       ELSE Goto("jsError") /\ UNCHANGED <<fieldId, arrays>>
    /\ open' = Read(c, open)
    /\ UNCHANGED <<fieldVal, keyed, called, owed, dropped>>

OpenArray(c) ==
    /\ c = "lbracket"
    /\ IF arrayDepth < MaxArrayNesting /\ Len(fieldId) < MaxId
       THEN /\ state' = state /\ fieldId' = Append(fieldId, "^")
            /\ arrayIndices' = [arrayIndices EXCEPT ![arrayDepth] = 0]
            /\ arrayDepth' = arrayDepth + 1
       ELSE Goto("jsError") /\ UNCHANGED <<fieldId, arrays>>
    /\ open' = Read(c, open)
    /\ UNCHANGED <<fieldVal, keyed, called, owed, dropped>>

OpenObject(c) ==
    /\ c = "lbrace"
    /\ CatId(":", "jsExpectId") /\ open' = Read(c, open)
    /\ UNCHANGED <<fieldVal, arrays, keyed, called, owed, dropped>>

\* ']' at once after '[', or after a comma.
EmptyArray(c) ==
    /\ c = "rbracket" /\ InArray
    /\ Goto("jsEndVal") /\ EndArray(fieldId) /\ open' = Read(c, open)
    /\ UNCHANGED <<fieldVal, arrayIndices, keyed, called, owed, dropped>>

\* The first character of a scalar.
StartScalar(c) ==
    /\ \/ c = "quote" /\ Goto("jsStringVal") /\ fieldVal' = 0
       \/ c = "-" /\ Goto("jsNegIntVal") /\ fieldVal' = 1
       \/ c = "0" /\ Goto("jsIntVal") /\ fieldVal' = 1
       \/ c \in Letters /\ Goto("jsCharsVal") /\ fieldVal' = 1
    /\ owed' = owed + 1 /\ open' = Read(c, open)
    /\ UNCHANGED <<fieldId, arrays, keyed, called, dropped>>

Val(c) ==
    /\ state = "jsVal"
    /\ \/ c = "space" /\ Step(c, state)
       \/ OpenArray(c) \/ OpenObject(c) \/ EmptyArray(c) \/ StartScalar(c)
       \/ /\ c \notin Letters \cup {"space", "lbracket", "lbrace", "quote", "-", "0"}
          /\ c = "rbracket" => ~InArray
          /\ Fail(c)

\* What has no room in a string is dropped; an escaped character may be anything.
StringVal(c) ==
    /\ state = "jsStringVal"
    /\ \/ /\ c = "quote" /\ Goto("jsEndVal")
          /\ fieldId' = Path(TRUE) /\ Cleared(TRUE) /\ Reported(TRUE) /\ keyed' \in KeyedAfter(TRUE)
          /\ open' = Stack(TRUE)
          /\ UNCHANGED <<arrays, called>>
       \/ c = "backslash" /\ Step(c, "jsStringEscape")
       \/ c = "control" /\ Fail(c)
       \/ /\ c \notin {"quote", "backslash", "control"}
          /\ fieldVal' = IF fieldVal < MaxVal THEN fieldVal + 1 ELSE fieldVal
          /\ UNCHANGED <<state, fieldId, arrays, keyed, called, open, owed, dropped>>

StringEscape(c) ==
    /\ state = "jsStringEscape" /\ Goto("jsStringVal")
    /\ fieldVal' = IF fieldVal < MaxVal /\ c \in {"quote", "backslash", "/", "n"}
                   THEN fieldVal + 1 ELSE fieldVal
    /\ UNCHANGED <<fieldId, arrays, keyed, called, open, owed, dropped>>

\* What may follow in a number or a word, and the state it leads to.
Follows(c) ==
    CASE state = "jsNegIntVal" /\ c = "0" -> "jsIntVal"
      [] state = "jsIntVal" /\ c = "0" -> "jsIntVal"
      [] state = "jsIntVal" /\ c = "." -> "jsFracVal"
      [] state = "jsFracVal" /\ c = "0" -> "jsFracVal"
      [] state = "jsFracVal" /\ c \in {"e", "E"} -> "jsExpValSign"
      [] state = "jsExpValSign" /\ c \in {"-", "+"} -> "jsExpValFirstDigit"
      [] state \in {"jsExpValSign", "jsExpValFirstDigit", "jsExpValDigits"} /\ c = "0"
            -> "jsExpValDigits"
      [] state = "jsCharsVal" /\ c \in Letters -> "jsCharsVal"
      [] OTHER -> "jsError"

MayEnd == state \in {"jsIntVal", "jsFracVal", "jsExpValDigits", "jsCharsVal"}

NumberOrWord(c) ==
    /\ state \in NumberStates \cup {"jsCharsVal"}
    /\ IF MayEnd /\ c \in {"comma", "rbracket", "rbrace"} THEN CheckValueCompleted(c, TRUE)
       ELSE /\ IF Follows(c) = "jsError" THEN Goto("jsError") /\ UNCHANGED fieldVal
               ELSE CatVal(Follows(c))
            /\ UNCHANGED <<fieldId, arrays, keyed, called, owed, dropped>>
            /\ open' = Read(c, open)

\* Mutant: a string or what was in brackets is reported again.
EndValAgain(c) ==
    /\ state = "jsEndVal"
    /\ IF c \in {"comma", "rbracket", "rbrace"} THEN CheckValueCompleted(c, TRUE) ELSE Fail(c)

EndVal(c) ==
    /\ state = "jsEndVal"
    /\ IF c \in {"comma", "rbracket", "rbrace"} THEN CheckValueCompleted(c, FALSE) ELSE Fail(c)

\* The end of a line abandons the message; the consumer is told of an error only.
Newline ==
    /\ Goto("jsBegin") /\ called' = IF state = "jsError" THEN "error" ELSE called
    /\ open' = Read("newline", open)
    /\ UNCHANGED <<fieldId, fieldVal, arrays, keyed, owed, dropped>>

-----------------------------------------------------------------------------
\* What the printer sends: "key" and "result" are names of members of the message
\* itself only, and "result" is an array only if there is a key.
Sent(c) ==
    /\ c \in Names => Len(open) = 1 /\ (state = "jsId" => fieldId = <<>>)
    /\ state = "jsId" /\ fieldId \in {<<"key">>, <<"result">>} => c = "quote"
    /\ c = "lbracket" => keyed \/ fieldId # <<"result">>
    /\ c = "comma" /\ open # <<>> => Top(open).elements < MaxElements

CheckInput(c) ==
    \/ c = "newline" /\ Newline
    \/ /\ c # "newline" /\ Sent(c)
       /\ \/ StartReceivedMessage(c) \/ Ignore(c) \/ ExpectId(c) \/ Id(c) \/ HadId(c)
          \/ Val(c) \/ StringVal(c) \/ StringEscape(c) \/ NumberOrWord(c) \/ EndVal(c)

Next == \E c \in Input : CheckInput(c)

Spec == Init /\ [][Next]_vars

-----------------------------------------------------------------------------
(* Properties.                                                              *)

TypeOK ==
    /\ state \in States /\ fieldVal \in 0..MaxVal
    /\ fieldId \in Seq(Pieces) /\ Len(fieldId) <= MaxId
    /\ arrayIndices \in [Slots -> Nat] /\ arrayDepth \in 0..MaxArrayNesting
    /\ keyed \in BOOLEAN /\ called \in {"none", "start", "end", "error"}
    /\ open \in Seq(Frames) /\ owed \in Int /\ dropped \in BOOLEAN

Inside == state \notin {"jsBegin", "jsError"}

\* Without a stack, the parser comes back from every bracket to where it was: the
\* name under which a value is reported is that of the bracket it is in, and of its
\* own name, although the callback renames it half way.
PathIsNesting ==
    Inside =>
        LET path == Top(open).path
        IN  /\ Len(path) <= Len(fieldId) /\ SubSeq(fieldId, 1, Len(path)) = path
            /\ \A i \in (Len(path) + 1)..Len(fieldId) : fieldId[i] \notin Marks
            /\ Top(open).kind = "lbracket" <=> EndsWith(path, "^")

\* The indices reported with a value are the numbers of values before it in each of
\* the arrays it is in.
IndicesCount ==
    Inside =>
        /\ arrayDepth = Top(open).depth
        /\ \A i \in 1..Len(open) :
              open[i].kind = "lbracket" => arrayIndices[open[i].depth - 1] = open[i].elements

\* Every scalar value is reported, once, and nothing else is.
ReportedOnce == Inside => owed = IF state \in ScalarStates THEN 1 ELSE 0

\* EndReceivedMessage is called for the bracket that closes the message and for no
\* other; or for that of "result", if its name was taken away (then what follows in
\* the line is ignored).
EndsWhole ==
    LET surplus == IF dropped THEN 1 ELSE 0
    IN  /\ called = "end" => Len(open) <= surplus
        /\ Inside => called = "start" /\ Len(open) > surplus
=============================================================================
