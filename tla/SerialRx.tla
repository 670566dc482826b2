------------------------------- MODULE SerialRx -------------------------------
(***************************************************************************)
(* The receive buffer between the UART interrupt handler and CheckInput     *)
(* (src/Hardware/SerialIo.cpp): a ring of R characters that one writes and  *)
(* the other reads, without disabling interrupts.                           *)
(*                                                                         *)
(* nextIn and the ring are volatile, nextOut is not: the compiler keeps the *)
(* order of CheckInput's reads, but may store nextOut before or after the   *)
(* character is loaded.  todo holds what is left to do of the two.          *)
(***************************************************************************)
EXTENDS Integers, Sequences

CONSTANT R  \* rxBufsize

ASSUME RAssumption == R \in Nat /\ R >= 2

VARIABLES
    rxBuffer, nextIn, nextOut, inError,
    slot,   \* CheckInput: the index it is reading
    todo,   \* CheckInput: what it has still to do with that index
    taken,  \* CheckInput: the character it has read
    kept    \* history: the character sent last was stored

vars == <<rxBuffer, nextIn, nextOut, inError, slot, todo, taken, kept>>

Chars == [newline : BOOLEAN, flagged : BOOLEAN, follows : BOOLEAN]
NewlineRead == [newline |-> TRUE, flagged |-> FALSE, follows |-> TRUE]
Slots == 0..(R - 1)

TypeOK ==
    /\ rxBuffer \in [Slots -> Chars] /\ nextIn \in Slots /\ nextOut \in Slots
    /\ inError \in BOOLEAN /\ slot \in Slots /\ todo \subseteq {"load", "store"}
    /\ taken \in Chars /\ kept \in BOOLEAN

Init ==
    /\ rxBuffer = [i \in Slots |-> NewlineRead] /\ nextIn = 0 /\ nextOut = 0
    /\ inError = FALSE /\ slot = 0 /\ todo = {}
    /\ taken = NewlineRead /\ kept = TRUE

-----------------------------------------------------------------------------
(* The interrupt handler.                                                   *)

\* Mutant: a full buffer is not noticed.
HasRoomUnchecked == TRUE

HasRoom == (nextIn + 1) % R # nextOut

\* Mutant: a full buffer loses the character only.
receiveCharResumes(c) ==
    LET store == HasRoom /\ (c.newline \/ ~inError)
    IN  /\ rxBuffer' = IF store THEN [rxBuffer EXCEPT ![nextIn] = c] ELSE rxBuffer
        /\ nextIn' = IF store THEN (nextIn + 1) % R ELSE nextIn
        /\ inError' = (c.flagged \/ (inError /\ ~c.newline))
        /\ kept' = store

\* Mutant: the end of a line does not end the wait for it.
receiveCharWaits(c) ==
    LET store == HasRoom /\ ~inError
    IN  /\ rxBuffer' = IF store THEN [rxBuffer EXCEPT ![nextIn] = c] ELSE rxBuffer
        /\ nextIn' = IF store THEN (nextIn + 1) % R ELSE nextIn
        /\ inError' = (c.flagged \/ ~store)
        /\ kept' = store

\* receiveChar, and receiveError when the UART flags an error with the character.
\* A newline ends the wait for the end of the line; without room it begins again.
receiveChar(c) ==
    LET store == HasRoom /\ (c.newline \/ ~inError)
    IN  /\ rxBuffer' = IF store THEN [rxBuffer EXCEPT ![nextIn] = c] ELSE rxBuffer
        /\ nextIn' = IF store THEN (nextIn + 1) % R ELSE nextIn
        /\ inError' = (c.flagged \/ ~store)
        /\ kept' = store

\* The character sent next arrives; or, if lost, the one after it, before the first
\* had been read from the UART.
Interrupt(c, lost) ==
    /\ c.follows = (kept /\ ~lost) /\ (lost => c.flagged)
    /\ receiveChar(c)
    /\ UNCHANGED <<nextOut, slot, todo, taken>>

UART_Handler == \E c \in Chars, lost \in BOOLEAN : Interrupt(c, lost)

-----------------------------------------------------------------------------
(* The reading end of CheckInput.                                           *)

\* nextIn != nextOut
Test ==
    /\ todo = {} /\ nextIn # nextOut
    /\ slot' = nextOut /\ todo' = {"load", "store"}
    /\ UNCHANGED <<rxBuffer, nextIn, nextOut, inError, taken, kept>>

\* c = rxBuffer[nextOut], which is then parsed
Load ==
    /\ "load" \in todo
    /\ taken' = rxBuffer[slot] /\ todo' = todo \ {"load"}
    /\ UNCHANGED <<rxBuffer, nextIn, nextOut, inError, slot, kept>>

\* nextOut = (nextOut + 1) % rxBufsize
Store ==
    /\ "store" \in todo
    /\ nextOut' = (slot + 1) % R /\ todo' = todo \ {"store"}
    /\ UNCHANGED <<rxBuffer, nextIn, inError, slot, taken, kept>>

CheckInput == Test \/ Load \/ Store

Next == UART_Handler \/ CheckInput

Spec == Init /\ [][Next]_vars

\* The main loop calls CheckInput for ever, and the printer goes on sending lines
\* whose ends arrive undamaged.
Fairness ==
    /\ WF_vars(CheckInput)
    /\ WF_vars(\E c \in Chars : c.newline /\ ~c.flagged /\ Interrupt(c, FALSE))

FairSpec == Spec /\ Fairness

-----------------------------------------------------------------------------
(* Properties.                                                              *)

Wrap(i) == IF i >= R THEN i - R ELSE i
Distance(i, j) == IF i <= j THEN j - i ELSE j - i + R

\* The first index not yet read, and how many there are from it on.
First == IF todo = {} THEN nextOut ELSE IF "load" \in todo THEN slot ELSE Wrap(slot + 1)
Count == IF "load" \in todo THEN 1 + Distance(Wrap(slot + 1), nextIn)
         ELSE Distance(First, nextIn)

Unread == [i \in 1..Count |-> rxBuffer[Wrap(First + i - 1)]]

\* The ring implements the queue that loses only the ends of lines: no character
\* is overwritten, read twice or read before it was written, whatever the order
\* of the two ends' accesses.
Queue == INSTANCE LineQueue WITH queue <- Unread, waiting <- inError
IsLineQueue == Queue!LQSpec

\* The parser never sees two pieces of lines joined, see LineQueue.
Contiguous == Queue!Contiguous

\* After a full buffer or an error reception resumes, once the characters that are
\* kept are free of errors.
Resumes == <>[](~taken.flagged) => []<>(~inError)
=============================================================================
