------------------------------ MODULE LineQueue ------------------------------
(***************************************************************************)
(* What the serial receiver promises the parser: a queue of characters that *)
(* loses the ends of lines only.  Once a character is lost or was received  *)
(* with an error, the rest of its line is lost too, and the next character  *)
(* kept is a newline.                                                       *)
(*                                                                         *)
(* A character is known by what the promise is about: whether it is a       *)
(* newline, whether the UART flagged an error with it, and whether the      *)
(* character sent just before it was kept.                                  *)
(***************************************************************************)
EXTENDS Integers, Sequences, TLAPS

VARIABLES
    queue,    \* characters received and not yet parsed
    taken,    \* the character parsed last
    waiting,  \* waiting for the end of the line
    kept      \* the character sent last was kept

lqVars == <<queue, taken, waiting, kept>>

Chars == [newline : BOOLEAN, flagged : BOOLEAN, follows : BOOLEAN]

LQInit ==
    /\ queue = <<>> /\ waiting = FALSE /\ kept = TRUE
    /\ taken = [newline |-> TRUE, flagged |-> FALSE, follows |-> TRUE]

\* The next character on the line; lost says that one before it never got here,
\* which the UART flags too.
Arriving(c, lost) == c.follows = (kept /\ ~lost) /\ (lost => c.flagged)

Keep(c) ==
    /\ c.newline \/ ~waiting
    /\ queue' = Append(queue, c)
    /\ waiting' = c.flagged /\ kept' = TRUE
    /\ UNCHANGED taken

Lose(c) ==
    /\ waiting' = TRUE /\ kept' = FALSE
    /\ UNCHANGED <<queue, taken>>

Arrive ==
    \E c \in Chars, lost \in BOOLEAN : Arriving(c, lost) /\ (Keep(c) \/ Lose(c))

Parse ==
    /\ queue # <<>>
    /\ taken' = Head(queue) /\ queue' = Tail(queue)
    /\ UNCHANGED <<waiting, kept>>

LQNext == Arrive \/ Parse

LQSpec == LQInit /\ [][LQNext]_lqVars

-----------------------------------------------------------------------------
\* Character d may come after character c.
MayFollow(c, d) ==
    /\ c.flagged => d.newline
    /\ d.follows \/ d.newline \/ d.flagged

\* The parser never sees two pieces of lines joined: a character that does not
\* follow the one before it on the line is a newline, or was flagged itself, and
\* after a flagged one comes a newline.
Contiguous ==
    /\ queue # <<>> => MayFollow(taken, queue[1])
    /\ \A i \in 1..(Len(queue) - 1) : MayFollow(queue[i], queue[i + 1])

\* What the receiver knows of the character it kept last: that it need not wait.
Watchful ==
    /\ queue = <<>> => (taken.flagged => waiting)
    /\ queue # <<>> => (queue[Len(queue)].flagged => waiting)
    /\ ~kept => waiting

LQInv == queue \in Seq(Chars) /\ taken \in Chars /\ Contiguous /\ Watchful

LEMMA KeepStep ==
    ASSUME LQInv, NEW c \in Chars, NEW lost \in BOOLEAN, Arriving(c, lost), Keep(c)
    PROVE  LQInv'
<1>1. /\ queue \in Seq(Chars) /\ queue' = Append(queue, c) /\ taken' = taken
      /\ taken \in Chars
  BY DEF LQInv, Keep
<1>2. /\ queue' \in Seq(Chars) /\ queue' # <<>> /\ Len(queue') = Len(queue) + 1
      /\ queue'[Len(queue) + 1] = c /\ Len(queue) \in Nat
      /\ \A i \in 1..Len(queue) : queue'[i] = queue[i]
  BY <1>1
<1>3. (c.flagged => waiting') /\ kept'  BY Zenon DEF Keep
<1>4. (~waiting => c.follows \/ c.flagged) /\ (waiting => c.newline)
  BY Zenon DEF LQInv, Watchful, Arriving, Keep
<1>5. ASSUME NEW d, d.flagged => waiting PROVE MayFollow(d, c)
  BY <1>4, <1>5, Zenon DEF MayFollow
<1>6. Contiguous'
  <2>1. CASE queue = <<>>
    <3>1. taken.flagged => waiting  BY <2>1, Zenon DEF LQInv, Watchful
    <3>2. MayFollow(taken, c)  BY <1>5, <3>1
    <3> QED  BY <1>1, <1>2, <2>1, <3>2 DEF Contiguous
  <2>2. CASE queue # <<>>
    <3>1. queue[Len(queue)].flagged => waiting  BY <2>2, Zenon DEF LQInv, Watchful
    <3>2. MayFollow(queue[Len(queue)], c)  BY <1>5, <3>1
    <3>3. Len(queue) \in 1..Len(queue) /\ 1 \in 1..Len(queue)  BY <1>1, <2>2
    <3>4. MayFollow(taken', queue'[1])  BY <1>1, <1>2, <2>2, <3>3 DEF LQInv, Contiguous
    <3>5. ASSUME NEW i \in 1..(Len(queue') - 1) PROVE MayFollow(queue'[i], queue'[i + 1])
      <4>1. CASE i = Len(queue)  BY <1>2, <3>2, <3>3, <4>1
      <4>2. CASE i # Len(queue)
        <5>1. i \in 1..(Len(queue) - 1) /\ i \in 1..Len(queue) /\ i + 1 \in 1..Len(queue)
          BY <1>2, <4>2
        <5> QED  BY <1>2, <5>1 DEF LQInv, Contiguous
      <4> QED  BY <4>1, <4>2
    <3> QED  BY <3>4, <3>5 DEF Contiguous
  <2> QED  BY <2>1, <2>2
<1>7. Watchful'
  <2>1. queue'[Len(queue')] = c  BY <1>2
  <2>2. queue' # <<>>  BY <1>2
  <2> QED  BY <1>3, <2>1, <2>2, Zenon DEF Watchful
<1> QED  BY <1>1, <1>2, <1>6, <1>7 DEF LQInv

LEMMA ParseStep == ASSUME LQInv, Parse PROVE LQInv'
<1>1. /\ queue \in Seq(Chars) /\ queue # <<>> /\ taken' = Head(queue)
      /\ queue' = Tail(queue) /\ UNCHANGED <<waiting, kept>>
  BY DEF LQInv, Parse
<1>2. /\ queue' \in Seq(Chars) /\ taken' = queue[1] /\ taken' \in Chars
      /\ Len(queue') = Len(queue) - 1 /\ Len(queue) \in Nat /\ Len(queue) >= 1
      /\ \A i \in 1..Len(queue') : queue'[i] = queue[i + 1]
      /\ queue' # <<>> => Len(queue') >= 1
      /\ queue' = <<>> => Len(queue) = 1
  <2>1. Len(queue) \in Nat /\ Len(queue) >= 1  BY <1>1
  <2>2. taken' = queue[1] /\ taken' \in Chars  BY <1>1, <2>1
  <2>3. queue' \in Seq(Chars) /\ Len(queue') = Len(queue) - 1  BY <1>1
  <2>4. \A i \in 1..Len(queue') : queue'[i] = queue[i + 1]  BY <1>1
  <2>5. queue' # <<>> => Len(queue') >= 1  BY <2>3
  <2>6. queue' = <<>> => Len(queue) = 1  BY <2>1, <2>3
  <2> QED  BY <2>1, <2>2, <2>3, <2>4, <2>5, <2>6
<1>3. Contiguous'
  <2>1. ASSUME queue' # <<>> PROVE MayFollow(taken', queue'[1])
    BY <1>2, <2>1 DEF LQInv, Contiguous
  <2>2. ASSUME NEW i \in 1..(Len(queue') - 1) PROVE MayFollow(queue'[i], queue'[i + 1])
    <3>1. /\ i + 1 \in 1..(Len(queue) - 1) /\ i \in 1..Len(queue') /\ i + 1 \in 1..Len(queue')
      BY <1>2
    <3> QED  BY <1>2, <3>1 DEF LQInv, Contiguous
  <2> QED  BY <2>1, <2>2 DEF Contiguous
<1>4. Watchful'
  <2>1. queue[Len(queue)].flagged => waiting  BY <1>1, Zenon DEF LQInv, Watchful
  <2>2. queue' = <<>> => taken' = queue[Len(queue)]  BY <1>2
  <2>3. queue' # <<>> => queue'[Len(queue')] = queue[Len(queue)]  BY <1>2
  <2>4. waiting' = waiting /\ kept' = kept /\ (~kept => waiting)
    BY <1>1, Zenon DEF LQInv, Watchful
  <2> QED  BY <2>1, <2>2, <2>3, <2>4, Zenon DEF Watchful
<1> QED  BY <1>2, <1>3, <1>4 DEF LQInv

\* The queue never holds two pieces of lines joined.
THEOREM QueueIsContiguous == LQSpec => []Contiguous
<1>1. LQInit => LQInv
  <2> SUFFICES ASSUME LQInit PROVE LQInv  OBVIOUS
  <2>1. queue = <<>> /\ taken \in Chars  BY DEF LQInit, Chars
  <2>2. ~taken.flagged /\ kept  BY DEF LQInit
  <2>3. Contiguous  BY <2>1 DEF Contiguous
  <2>4. Watchful  BY <2>1, <2>2, Zenon DEF Watchful
  <2> QED  BY <2>1, <2>3, <2>4 DEF LQInv
<1>2. LQInv /\ [LQNext]_lqVars => LQInv'
  <2> SUFFICES ASSUME LQInv, [LQNext]_lqVars PROVE LQInv'  OBVIOUS
  <2>1. ASSUME NEW c \in Chars, Lose(c) PROVE LQInv'
    <3>1. queue' = queue /\ taken' = taken  BY <2>1 DEF Lose
    <3>2. Contiguous'  BY <3>1 DEF LQInv, Contiguous
    <3>3. Watchful'  BY <2>1, Zenon DEF Lose, Watchful
    <3> QED  BY <3>1, <3>2, <3>3 DEF LQInv
  <2>2. CASE Arrive  BY <2>1, <2>2, KeepStep, Zenon DEF Arrive
  <2>3. CASE Parse  BY <2>3, ParseStep
  <2>4. CASE UNCHANGED lqVars
    BY <2>4, Zenon DEF lqVars, LQInv, Contiguous, Watchful
  <2> QED  BY <2>2, <2>3, <2>4 DEF LQNext
<1>3. LQInv => Contiguous  BY DEF LQInv
<1> QED  BY <1>1, <1>2, <1>3, PTL DEF LQSpec
=============================================================================
