---------------------------- MODULE SerialRxProofs ----------------------------
(***************************************************************************)
(* The receive buffer implements LineQueue, for every size of the buffer.   *)
(***************************************************************************)
EXTENDS SerialRx, TLAPS

-----------------------------------------------------------------------------
(* Arithmetic of the ring.                                                  *)

LEMMA Modulus == ASSUME NEW i \in Slots PROVE (i + 1) % R = Wrap(i + 1) /\ Wrap(i + 1) \in Slots
<1>1. R \in Nat /\ R >= 2 /\ i \in 0..(R - 1)  BY RAssumption DEF Slots
<1>2. CASE i + 1 < R
  <2>1. (i + 1) % R = i + 1  BY <1>1, <1>2
  <2> QED  BY <1>1, <1>2, <2>1 DEF Wrap, Slots
<1>3. CASE i + 1 = R
  <2>1. R % R = 0  BY <1>1
  <2> QED  BY <1>1, <1>3, <2>1 DEF Wrap, Slots
<1> QED  BY <1>1, <1>2, <1>3

LEMMA Distances ==
    ASSUME NEW i \in Slots, NEW j \in Slots
    PROVE  /\ Distance(i, j) \in 0..(R - 1)
           /\ Distance(i, j) = 0 <=> i = j
           /\ Wrap(i + Distance(i, j)) = j
           /\ i # j => Distance(i, j) = 1 + Distance(Wrap(i + 1), j)
           /\ Distance(Wrap(i + 1), i) = R - 1
           /\ Wrap(j + 1) # i => Distance(i, Wrap(j + 1)) = Distance(i, j) + 1
BY RAssumption DEF Slots, Distance, Wrap

LEMMA Wrapped ==
    ASSUME NEW i \in Slots, NEW a \in 0..(R - 1)
    PROVE  /\ Wrap(i + a) \in Slots
           /\ \A b \in 0..(R - 1) : Wrap(i + a) = Wrap(i + b) => a = b
           /\ a < R - 1 => Wrap(Wrap(i + 1) + a) = Wrap(i + (a + 1))
BY RAssumption DEF Slots, Wrap

-----------------------------------------------------------------------------
(* Where CheckInput is, and what it keeps the interrupt handler from.       *)

Todos == {{}, {"load", "store"}, {"load"}, {"store"}}

RingInv ==
    /\ rxBuffer \in [Slots -> Chars] /\ nextIn \in Slots /\ nextOut \in Slots
    /\ slot \in Slots /\ todo \in Todos
    /\ "store" \in todo => nextOut = slot /\ nextIn # slot
    /\ todo = {"load"} => nextOut = Wrap(slot + 1)

\* The part of the ring not yet read: where it begins and how long it is.  The
\* reading end has taken one index out of use before it has read it, but then the
\* free place in front of nextOut is that index.
LEMMA UnreadPart ==
    ASSUME RingInv
    PROVE  /\ First \in Slots /\ Count \in 0..R
           /\ HasRoom => Count \in 0..(R - 1)
           /\ Wrap(First + Count) = nextIn \/ Count = R
<1>1. R \in Nat /\ R >= 2  BY RAssumption
<1>2. CASE "load" \in todo
  <2>1. First = slot /\ Count = 1 + Distance(Wrap(slot + 1), nextIn)
    BY <1>2 DEF First, Count
  <2>2. Wrap(slot + 1) \in Slots /\ slot \in Slots /\ nextIn \in Slots  BY Modulus DEF RingInv
  <2>3. CASE nextIn # slot
    <3>1. Count = Distance(slot, nextIn)  BY <2>1, <2>2, <2>3, Distances
    <3> QED  BY <1>1, <2>1, <2>2, <3>1, Distances
  <2>4. CASE nextIn = slot
    <3>1. Count = R  BY <1>1, <2>1, <2>2, <2>4, Distances
    <3>2. nextOut = Wrap(slot + 1)  BY <1>2, <2>4 DEF RingInv, Todos
    <3>3. ~HasRoom  BY <2>2, <2>4, <3>2, Modulus DEF HasRoom
    <3> QED  BY <1>1, <2>1, <2>2, <3>1, <3>3
  <2> QED  BY <2>3, <2>4
<1>3. CASE "load" \notin todo
  <2>1. First \in Slots /\ nextIn \in Slots
    BY <1>3, Modulus DEF First, RingInv
  <2>2. Count = Distance(First, nextIn)  BY <1>3 DEF Count
  <2> QED  BY <1>1, <2>1, <2>2, Distances
<1> QED  BY <1>2, <1>3

\* n characters of the ring from index f on.
Part(ring, f, n) == [i \in 1..n |-> ring[Wrap(f + i - 1)]]

LEMMA PartSeq ==
    ASSUME NEW ring \in [Slots -> Chars], NEW f \in Slots, NEW n \in 0..R
    PROVE  /\ Part(ring, f, n) \in Seq(Chars) /\ Len(Part(ring, f, n)) = n
           /\ \A i \in 1..n : Part(ring, f, n)[i] = ring[Wrap(f + i - 1)]
<1>1. n \in Nat /\ n <= R /\ R \in Nat  BY RAssumption
<1>2. ASSUME NEW i \in 1..n PROVE ring[Wrap(f + i - 1)] \in Chars
  <2>1. i - 1 \in 0..(R - 1) /\ f + i - 1 = f + (i - 1)  BY <1>1 DEF Slots
  <2>2. Wrap(f + i - 1) \in Slots  BY <2>1, Wrapped
  <2> QED  BY <2>2
<1>3. Part(ring, f, n) = [i \in 1..n |-> ring[Wrap(f + i - 1)]]  BY DEF Part
<1>4. Part(ring, f, n) \in [1..n -> Chars]  BY <1>2, <1>3
<1> QED  BY <1>1, <1>3, <1>4

LEMMA UnreadIsPart ==
    Unread = Part(rxBuffer, First, Count) /\ Unread' = Part(rxBuffer', First', Count')
BY DEF Unread, Part, Wrap

LEMMA RingInit == Init => RingInv
BY RAssumption DEF Init, RingInv, Slots, Todos, NewlineRead, Chars

\* A character is stored, or nothing is.
Stored(c) ==
    /\ HasRoom /\ rxBuffer' = [rxBuffer EXCEPT ![nextIn] = c]
    /\ nextIn' = Wrap(nextIn + 1)
    /\ UNCHANGED <<nextOut, slot, todo>>

LEMMA RingStored ==
    ASSUME RingInv, NEW c \in Chars, Stored(c) PROVE RingInv'
<1>1. nextIn \in Slots /\ nextIn' = Wrap(nextIn + 1) /\ nextIn' # nextOut /\ nextIn' \in Slots
  BY Modulus DEF RingInv, Stored, HasRoom
<1> QED  BY <1>1 DEF RingInv, Stored

LEMMA RingCheckInput == ASSUME RingInv, CheckInput PROVE RingInv'
<1>1. CASE Test  BY <1>1 DEF Test, RingInv, Todos
<1>2. CASE Load  BY <1>2 DEF Load, RingInv, Todos
<1>3. CASE Store
  <2>1. slot \in Slots /\ nextOut' = Wrap(slot + 1) /\ nextOut' \in Slots
    BY <1>3, Modulus DEF Store, RingInv
  <2> QED  BY <1>3, <2>1 DEF Store, RingInv, Todos
<1> QED  BY <1>1, <1>2, <1>3 DEF CheckInput

-----------------------------------------------------------------------------
(* Every step is one of the queue, or none.                                 *)

\* Sequences with the same elements are the same.
LEMMA SameSequence ==
    ASSUME NEW S, NEW s \in Seq(S), NEW t \in Seq(S), Len(s) = Len(t),
           \A i \in 1..Len(s) : s[i] = t[i]
    PROVE  s = t
OBVIOUS

LEMMA TailOf ==
    ASSUME NEW S, NEW s \in Seq(S), NEW n \in Nat, Len(s) = n + 1
    PROVE  /\ s # <<>> /\ Head(s) = s[1] /\ Tail(s) \in Seq(S) /\ Len(Tail(s)) = n
           /\ \A i \in 1..n : Tail(s)[i] = s[i + 1]
OBVIOUS

LEMMA StoredAppends ==
    ASSUME RingInv, NEW c \in Chars, Stored(c) PROVE Unread' = Append(Unread, c)
<1>1. RingInv'  BY RingStored
<1>2. First' = First /\ First \in Slots /\ nextIn \in Slots /\ Count \in 0..(R - 1)
      /\ Wrap(First + Count) = nextIn
  BY UnreadPart, RAssumption DEF Stored, First, RingInv
<1>3. Count' = Count + 1
  <2>1. CASE "load" \in todo
    <3>1. Count = 1 + Distance(Wrap(slot + 1), nextIn)
          /\ Count' = 1 + Distance(Wrap(slot + 1), Wrap(nextIn + 1))
      BY <2>1 DEF Count, Stored, First
    <3>2. Wrap(slot + 1) \in Slots /\ slot \in Slots  BY Modulus DEF RingInv
    <3>3. Wrap(nextIn + 1) # Wrap(slot + 1)
      <4>1. Distance(Wrap(slot + 1), nextIn) # R - 1  BY <1>2, <3>1, RAssumption
      <4>2. nextIn # slot  BY <3>2, <4>1, Distances
      <4> QED  BY <1>2, <3>2, <4>2, RAssumption DEF Wrap, Slots
    <3> QED  BY <1>2, <3>1, <3>2, <3>3, Distances, RAssumption DEF Slots
  <2>2. CASE "load" \notin todo
    <3>1. Count = Distance(First, nextIn) /\ Count' = Distance(First, Wrap(nextIn + 1))
      BY <1>2, <2>2 DEF Count, Stored
    <3>2. Wrap(nextIn + 1) # First
      <4>1. Wrap(nextIn + 1) # nextOut  BY <1>2, Modulus DEF Stored, HasRoom
      <4>2. todo = {} => First = nextOut  BY DEF First
      <4>3. todo # {} => First = Wrap(slot + 1) /\ nextOut = slot /\ nextIn # slot /\ slot \in Slots
        BY <2>2 DEF First, RingInv, Todos
      <4>4. todo # {} => Wrap(nextIn + 1) # Wrap(slot + 1)
        BY <1>2, <4>3, RAssumption DEF Wrap, Slots
      <4> QED  BY <4>1, <4>2, <4>3, <4>4
    <3> QED  BY <1>2, <3>1, <3>2, Distances
  <2> QED  BY <2>1, <2>2
<1>4. /\ Unread \in Seq(Chars) /\ Len(Unread) = Count
      /\ \A i \in 1..Count : Unread[i] = rxBuffer[Wrap(First + i - 1)]
  <2>1. Count \in 0..R  BY <1>2, UnreadPart
  <2>2. rxBuffer \in [Slots -> Chars] /\ First \in Slots  BY <1>2 DEF RingInv
  <2>3. Unread = Part(rxBuffer, First, Count)  BY UnreadIsPart
  <2> QED  BY <2>1, <2>2, <2>3, PartSeq
<1>5. /\ Unread' \in Seq(Chars) /\ Len(Unread') = Count + 1
      /\ \A i \in 1..(Count + 1) : Unread'[i] = rxBuffer'[Wrap(First + i - 1)]
  <2>1. Count + 1 \in 0..R  BY <1>2, RAssumption
  <2>2. rxBuffer' \in [Slots -> Chars]  BY <1>1 DEF RingInv
  <2>3. Unread' = Part(rxBuffer', First, Count + 1)  BY <1>2, <1>3, UnreadIsPart
  <2> QED  BY <1>2, <2>1, <2>2, <2>3, PartSeq
<1>6. ASSUME NEW i \in 1..(Count + 1) PROVE Unread'[i] = Append(Unread, c)[i]
  <2>1. rxBuffer' = [rxBuffer EXCEPT ![nextIn] = c] /\ rxBuffer \in [Slots -> Chars]
    BY DEF Stored, RingInv
  <2>2. CASE i = Count + 1
    <3>1. First + i - 1 = First + Count  BY <1>2, <2>2, RAssumption DEF Slots
    <3> QED  BY <1>2, <1>4, <1>5, <2>1, <2>2, <3>1
  <2>3. CASE i \in 1..Count
    <3>1. i - 1 \in 0..(R - 1) /\ Count \in 0..(R - 1) /\ i - 1 # Count
          /\ First + i - 1 = First + (i - 1)
      BY <1>2, <2>3, RAssumption DEF Slots
    <3>2. Wrap(First + i - 1) # nextIn /\ Wrap(First + i - 1) \in Slots
      BY <1>2, <3>1, Wrapped
    <3>3. Unread'[i] = rxBuffer[Wrap(First + i - 1)]  BY <1>5, <2>1, <3>2
    <3> QED  BY <1>4, <2>3, <3>3
  <2>4. i \in 1..Count \/ i = Count + 1  BY <1>2, RAssumption
  <2> QED  BY <2>2, <2>3, <2>4
<1>7. Append(Unread, c) \in Seq(Chars) /\ Len(Append(Unread, c)) = Count + 1  BY <1>4
<1> QED  BY <1>5, <1>6, <1>7, SameSequence

LEMMA LoadTakes ==
    ASSUME RingInv, Load
    PROVE  Unread # <<>> /\ taken' = Head(Unread) /\ Unread' = Tail(Unread)
<1>1. RingInv'  BY RingCheckInput DEF CheckInput
<1>2. /\ "load" \in todo /\ todo' = todo \ {"load"} /\ taken' = rxBuffer[slot]
      /\ UNCHANGED <<rxBuffer, nextIn, nextOut, slot>>
  BY DEF Load
<1>3. First = slot /\ slot \in Slots /\ nextIn \in Slots /\ Wrap(slot + 1) \in Slots
  BY <1>2, Modulus DEF First, RingInv
<1>4. First' = Wrap(slot + 1)
  <2>1. CASE todo = {"load"}
    <3>1. todo' = {} /\ nextOut' = Wrap(slot + 1)  BY <1>2, <2>1 DEF RingInv
    <3> QED  BY <3>1 DEF First
  <2>2. CASE todo = {"load", "store"}
    <3>1. todo' = {"store"}  BY <1>2, <2>2
    <3> QED  BY <1>2, <3>1 DEF First, Wrap
  <2> QED  BY <1>2, <2>1, <2>2 DEF RingInv, Todos
<1>5. Count = Count' + 1 /\ Count' \in 0..(R - 1)
  <2>1. "load" \notin todo'  BY <1>2
  <2>2. Count' = Distance(First', nextIn')  BY <2>1 DEF Count, Distance
  <2>3. Count = 1 + Distance(Wrap(slot + 1), nextIn)  BY <1>2 DEF Count
  <2>4. Distance(First', nextIn') = Distance(Wrap(slot + 1), nextIn)
    BY <1>2, <1>4
  <2>5. Distance(Wrap(slot + 1), nextIn) \in 0..(R - 1)  BY <1>3, Distances
  <2> QED  BY <2>2, <2>3, <2>4, <2>5, RAssumption
<1>6. /\ Count' \in Nat /\ Count' \in 0..R /\ Count \in 0..R /\ 1 \in 1..Count
      /\ \A i \in 1..Count' : /\ i - 1 \in 0..(R - 1) /\ i - 1 < R - 1 /\ i + 1 \in 1..Count
                              /\ Wrap(slot + 1) + i - 1 = Wrap(slot + 1) + (i - 1)
                              /\ slot + (i + 1) - 1 = slot + ((i - 1) + 1)
  <2>1. R \in Nat /\ R >= 2 /\ slot \in Nat /\ Wrap(slot + 1) \in Nat
    BY <1>3, RAssumption DEF Slots
  <2>2. PICK n : n = Count'  OBVIOUS
  <2>3. PICK m : m = Count  OBVIOUS
  <2>4. n \in 0..(R - 1) /\ m = n + 1  BY <1>5, <2>2, <2>3
  <2>5. PICK w : w = Wrap(slot + 1)  OBVIOUS
  <2>6. /\ n \in Nat /\ n \in 0..R /\ m \in 0..R /\ 1 \in 1..m
        /\ \A i \in 1..n : /\ i - 1 \in 0..(R - 1) /\ i - 1 < R - 1 /\ i + 1 \in 1..m
                          /\ w + i - 1 = w + (i - 1) /\ slot + (i + 1) - 1 = slot + ((i - 1) + 1)
    BY <2>1, <2>4, <2>5
  <2> QED  BY <2>2, <2>3, <2>5, <2>6
<1>7. /\ Unread \in Seq(Chars) /\ Len(Unread) = Count
      /\ \A i \in 1..Count : Unread[i] = rxBuffer[Wrap(slot + i - 1)]
  <2>1. rxBuffer \in [Slots -> Chars]  BY DEF RingInv
  <2>2. Unread = Part(rxBuffer, slot, Count)  BY <1>3, UnreadIsPart
  <2> QED  BY <1>3, <1>6, <2>1, <2>2, PartSeq
<1>8. /\ Unread' \in Seq(Chars) /\ Len(Unread') = Count'
      /\ \A i \in 1..Count' : Unread'[i] = rxBuffer[Wrap(Wrap(slot + 1) + i - 1)]
  <2>1. rxBuffer \in [Slots -> Chars]  BY DEF RingInv
  <2>2. Unread' = Part(rxBuffer, Wrap(slot + 1), Count')  BY <1>2, <1>4, UnreadIsPart
  <2> QED  BY <1>3, <1>6, <2>1, <2>2, PartSeq
<1>9. /\ Unread # <<>> /\ Head(Unread) = Unread[1]
      /\ Tail(Unread) \in Seq(Chars) /\ Len(Tail(Unread)) = Count'
      /\ \A i \in 1..Count' : Tail(Unread)[i] = Unread[i + 1]
  <2>1. Len(Unread) = Count' + 1  BY <1>5, <1>7
  <2> QED  BY <1>6, <1>7, <2>1, TailOf
<1>10. taken' = Head(Unread)
  <2>1. slot + 1 - 1 = slot /\ Wrap(slot) = slot
    BY <1>3, RAssumption DEF Wrap, Slots
  <2> QED  BY <1>2, <1>6, <1>7, <1>9, <2>1
<1>11. ASSUME NEW i \in 1..Count' PROVE Unread'[i] = Tail(Unread)[i]
  <2>1. Wrap(Wrap(slot + 1) + (i - 1)) = Wrap(slot + ((i - 1) + 1))
    BY <1>3, <1>6, Wrapped
  <2> QED  BY <1>6, <1>7, <1>8, <1>9, <2>1
<1> QED  BY <1>8, <1>9, <1>10, <1>11, SameSequence

LEMMA TestTakesNothing ==
    ASSUME RingInv, Test \/ Store PROVE Unread' = Unread
<1>1. First' = First /\ Count' = Count /\ rxBuffer' = rxBuffer
  <2>1. CASE Test
    <3>1. /\ todo = {} /\ todo' = {"load", "store"} /\ slot' = nextOut /\ nextIn # nextOut
          /\ UNCHANGED <<rxBuffer, nextIn, nextOut>>
      BY <2>1 DEF Test
    <3>2. First = nextOut /\ First' = nextOut  BY <3>1 DEF First
    <3>3. Count = Distance(nextOut, nextIn)  BY <3>1, <3>2 DEF Count
    <3>4. Count' = 1 + Distance(Wrap(nextOut + 1), nextIn)
      BY <3>1 DEF Count, Wrap, Distance
    <3> QED  BY <3>1, <3>2, <3>3, <3>4, Distances DEF RingInv
  <2>2. CASE Store
    <3>1. /\ "store" \in todo /\ todo' = todo \ {"store"} /\ nextOut' = Wrap(slot + 1)
          /\ UNCHANGED <<rxBuffer, nextIn, slot>>
      BY <2>2, Modulus DEF Store, RingInv
    <3>2. First' = First
      BY <3>1 DEF First, RingInv, Todos, Wrap
    <3>3. Count' = Count  BY <3>1, <3>2 DEF Count, Distance, Wrap, RingInv, Todos
    <3> QED  BY <3>1, <3>2, <3>3
  <2> QED  BY <2>1, <2>2
<1>2. Unread' = [i \in 1..Count' |-> rxBuffer'[Wrap(First + i - 1)]]
  BY <1>1 DEF Unread, Wrap
<1> QED  BY <1>1, <1>2 DEF Unread

LEMMA UnreadStays ==
    ASSUME UNCHANGED <<rxBuffer, nextIn, nextOut, slot, todo>> PROVE Unread' = Unread
<1>1. First' = First /\ Count' = Count  BY DEF First, Count, Distance, Wrap
<1>2. Unread' = Part(rxBuffer, First, Count)  BY <1>1, UnreadIsPart
<1> QED  BY <1>2, UnreadIsPart

\* The interrupt handler keeps the character, or loses it.
LEMMA InterruptArrives ==
    ASSUME RingInv, UART_Handler PROVE RingInv' /\ Queue!Arrive
<1>1. PICK c \in Chars, lost \in BOOLEAN : Interrupt(c, lost)  BY DEF UART_Handler
<1>2. c \in Queue!Chars /\ Queue!Arriving(c, lost)
  BY <1>1, Zenon DEF Interrupt, Chars, Queue!Chars, Queue!Arriving
<1>3. CASE HasRoom /\ (c.newline \/ ~inError)
  <2>1. nextIn \in Slots /\ (nextIn + 1) % R = Wrap(nextIn + 1)  BY Modulus DEF RingInv
  <2>2. nextIn' = (nextIn + 1) % R /\ rxBuffer' = [rxBuffer EXCEPT ![nextIn] = c]
        /\ UNCHANGED <<nextOut, slot, todo, taken>>
    BY <1>1, <1>3, Zenon DEF Interrupt, receiveChar
  <2>3. Stored(c)  BY <1>3, <2>1, <2>2 DEF Stored
  <2>4. Unread' = Append(Unread, c)  BY <2>3, StoredAppends
  <2>5. inError' = c.flagged /\ kept' = TRUE
    <3>1. c.flagged \in BOOLEAN  BY DEF Chars
    <3> QED  BY <1>1, <1>3, <3>1, Zenon DEF Interrupt, receiveChar
  <2>6. Queue!Keep(c)  BY <1>3, <2>2, <2>4, <2>5, Zenon DEF Queue!Keep
  <2> QED  BY <1>2, <2>3, <2>6, RingStored, Zenon DEF Queue!Arrive
<1>4. CASE ~(HasRoom /\ (c.newline \/ ~inError))
  <2>1. UNCHANGED <<rxBuffer, nextIn, nextOut, slot, todo, taken>>
    BY <1>1, <1>4, Zenon DEF Interrupt, receiveChar
  <2>2. inError' = TRUE /\ kept' = FALSE
    BY <1>1, <1>4, Zenon DEF Interrupt, receiveChar
  <2>3. RingInv'  BY <2>1, Zenon DEF RingInv
  <2>4. Unread' = Unread  BY <2>1, UnreadStays
  <2>5. Queue!Lose(c)  BY <2>1, <2>2, <2>4, Zenon DEF Queue!Lose
  <2> QED  BY <1>2, <2>3, <2>5, Zenon DEF Queue!Arrive
<1> QED  BY <1>3, <1>4

\* The ring implements the queue, however large it is.
THEOREM RingIsQueue == Spec => IsLineQueue
<1>1. Init => RingInv /\ Queue!LQInit
  <2> SUFFICES ASSUME Init PROVE RingInv /\ Queue!LQInit  OBVIOUS
  <2>1. todo = {} /\ nextIn = 0 /\ nextOut = 0  BY DEF Init
  <2>2. Count = 0  BY <2>1 DEF Count, First, Distance
  <2>3. Unread = <<>>  BY <2>2 DEF Unread
  <2> QED  BY <2>3, RingInit, Zenon DEF Init, NewlineRead, Queue!LQInit
<1>2. RingInv /\ [Next]_vars => RingInv' /\ [Queue!LQNext]_(Queue!lqVars)
  <2> SUFFICES ASSUME RingInv, [Next]_vars
               PROVE  RingInv' /\ [Queue!LQNext]_(Queue!lqVars)
    OBVIOUS
  <2>1. CASE UART_Handler  BY <2>1, InterruptArrives DEF Queue!LQNext
  <2>2. CASE Load
    <3>1. UNCHANGED <<inError, kept>>  BY <2>2 DEF Load
    <3>2. Queue!Parse  BY <2>2, <3>1, LoadTakes DEF Queue!Parse
    <3> QED  BY <2>2, <3>2, RingCheckInput DEF CheckInput, Queue!LQNext
  <2>3. CASE Test \/ Store
    <3>1. UNCHANGED <<taken, inError, kept>>  BY <2>3 DEF Test, Store
    <3> QED  BY <2>3, <3>1, TestTakesNothing, RingCheckInput DEF CheckInput, Queue!lqVars
  <2>4. CASE UNCHANGED vars
    <3>1. UNCHANGED <<rxBuffer, nextIn, nextOut, inError, slot, todo, taken, kept>>
      BY <2>4 DEF vars
    <3>2. RingInv'  BY <3>1, Zenon DEF RingInv
    <3> QED  BY <3>1, <3>2, UnreadStays DEF Queue!lqVars
  <2> QED  BY <2>1, <2>2, <2>3, <2>4 DEF Next, CheckInput
<1> QED  BY <1>1, <1>2, PTL DEF Spec, IsLineQueue, Queue!LQSpec

\* The indices stay inside the ring, whichever end is interrupted or reordered (rxBuffer,
\* nextIn and nextOut of src/Hardware/SerialIo.cpp).
THEOREM RingTypes == Spec => []TypeOK
<1> DEFINE Flags == inError \in BOOLEAN /\ taken \in Chars /\ kept \in BOOLEAN
<1>1. Init => RingInv /\ Flags
  <2>1. NewlineRead \in Chars  BY DEF NewlineRead, Chars
  <2> QED  BY <2>1, RingInit, Zenon DEF Init
<1>2. RingInv /\ Flags /\ [Next]_vars => (RingInv /\ Flags)'
  <2> SUFFICES ASSUME RingInv, Flags, [Next]_vars PROVE RingInv' /\ Flags'
    OBVIOUS
  <2>1. CASE UART_Handler
    <3>1. RingInv'  BY <2>1, InterruptArrives
    <3>2. PICK c \in Chars, lost \in BOOLEAN : Interrupt(c, lost)  BY <2>1 DEF UART_Handler
    <3>3. inError' \in BOOLEAN /\ kept' \in BOOLEAN
      <4>1. c.flagged \in BOOLEAN /\ c.newline \in BOOLEAN  BY DEF Chars
      <4>2. CASE HasRoom /\ (c.newline \/ ~inError)
        BY <3>2, <4>1, <4>2, Zenon DEF Interrupt, receiveChar
      <4>3. CASE ~(HasRoom /\ (c.newline \/ ~inError))
        BY <3>2, <4>1, <4>3, Zenon DEF Interrupt, receiveChar
      <4> QED  BY <4>2, <4>3
    <3>4. taken' = taken  BY <3>2 DEF Interrupt
    <3> QED  BY <3>1, <3>3, <3>4
  <2>2. CASE CheckInput
    <3>1. RingInv'  BY <2>2, RingCheckInput
    <3>2. UNCHANGED <<inError, kept>> /\ taken' \in {taken, rxBuffer[slot]}
      BY <2>2 DEF CheckInput, Test, Load, Store
    <3>3. rxBuffer[slot] \in Chars  BY DEF RingInv
    <3> QED  BY <3>1, <3>2, <3>3
  <2>3. CASE UNCHANGED vars
    <3>1. UNCHANGED <<rxBuffer, nextIn, nextOut, inError, slot, todo, taken, kept>>
      BY <2>3 DEF vars
    <3> QED  BY <3>1, Zenon DEF RingInv
  <2> QED  BY <2>1, <2>2, <2>3 DEF Next
<1>3. RingInv /\ Flags => TypeOK  BY DEF RingInv, Todos, TypeOK
<1> QED  BY <1>1, <1>2, <1>3, PTL DEF Spec

\* The parser never sees two pieces of lines joined, however large the ring is.
THEOREM RingIsContiguous == Spec => []Contiguous
BY RingIsQueue, Queue!QueueIsContiguous, PTL DEF IsLineQueue, Contiguous
=============================================================================
