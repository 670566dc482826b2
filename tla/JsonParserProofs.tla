--------------------------- MODULE JsonParserProofs ---------------------------
(***************************************************************************)
(* The name of the field being received does what a stack of brackets would *)
(* do, for names, values and nestings of any length.                        *)
(***************************************************************************)
EXTENDS JsonParser, TLAPS

\* The brackets left over at the end of a message: that of "result", if its name was dropped.
Surplus(drop) == IF drop THEN 1 ELSE 0

Mark(kind) == IF kind = "lbracket" THEN "^" ELSE ":"

IsPrefix(path, id) ==
    Len(path) <= Len(id) /\ \A k \in 1..Len(path) : path[k] = id[k]

\* The paths of the brackets open are prefixes of the name; each ends with a mark of its
\* own, but for the message itself and a "result" dropped.
PathsNest(id, stack, drop) ==
    /\ \A i \in 1..Len(stack) :
         /\ IsPrefix(stack[i].path, id)
         /\ i <= 1 + Surplus(drop) => Len(stack[i].path) = 0 /\ stack[i].kind = "lbrace"
         /\ i > 1 + Surplus(drop) =>
              Len(stack[i].path) > 0 /\ id[Len(stack[i].path)] = Mark(stack[i].kind)
    /\ \A i, j \in 1..Len(stack) :
         i < j /\ j > 1 + Surplus(drop) => Len(stack[i].path) < Len(stack[j].path)

\* There are no other marks, and within an array no names.
MarksAreBrackets(id, stack) ==
    /\ \A k \in 1..Len(id) :
         id[k] \in Marks => \E i \in 1..Len(stack) : Len(stack[i].path) = k
    /\ \A i \in 1..Len(stack) : stack[i].kind = "lbracket" =>
         Len(IF i < Len(stack) THEN stack[i + 1].path ELSE id) =
            Len(stack[i].path) + (IF i < Len(stack) THEN 1 ELSE 0)

\* "result" is the whole name or all before the first mark; if it may be dropped that mark
\* is that of an object.
NamesAreFirst(id, drop, key) ==
    /\ \A k \in 1..Len(id) : id[k] \in Names => k = 1 /\ ~drop
    /\ Len(id) > 1 /\ id[1] = "result" => id[2] \in Marks /\ (id[2] = "^" => key)

Nested(id, stack, drop, key) ==
    /\ Len(stack) >= 1 + Surplus(drop)
    /\ PathsNest(id, stack, drop) /\ MarksAreBrackets(id, stack) /\ NamesAreFirst(id, drop, key)

\* depth counts the arrays.
DepthsCount(stack) ==
    /\ stack[1].depth = 0
    /\ \A i \in 1..Len(stack), j \in 1..Len(stack) :
         /\ i < j => stack[i].depth <= stack[j].depth
         /\ i < j /\ stack[j].kind = "lbracket" => stack[i].depth < stack[j].depth
         /\ j = i + 1 =>
              stack[j].depth = stack[i].depth + (IF stack[j].kind = "lbracket" THEN 1 ELSE 0)

Counts(stack, indices) ==
    \A i \in 1..Len(stack) :
       stack[i].kind = "lbracket" => indices[stack[i].depth - 1] = stack[i].elements

\* The reader's numbers agree with the parser's.
Indexed(stack, indices, depth) ==
    DepthsCount(stack) /\ Counts(stack, indices) /\ depth = Top(stack).depth

InsideInv ==
    /\ Nested(fieldId, open, dropped, keyed)
    /\ Indexed(open, arrayIndices, arrayDepth)
    /\ state \in {"jsExpectId", "jsId"} => Top(open).kind = "lbrace"
    /\ owed = (IF state \in ScalarStates THEN 1 ELSE 0)
    /\ called = "start"

ParserInv ==
    /\ TypeOK
    /\ called = "end" => state = "jsBegin" /\ Len(open) <= Surplus(dropped)
    /\ Inside => InsideInv

-----------------------------------------------------------------------------
(* Sequences.                                                               *)

LEMMA FirstPart ==
    ASSUME NEW S, NEW s \in Seq(S), NEW n \in 0..Len(s)
    PROVE  /\ SubSeq(s, 1, n) \in Seq(S) /\ Len(SubSeq(s, 1, n)) = n
           /\ \A k \in 1..n : SubSeq(s, 1, n)[k] = s[k]
<1>1. Len(s) \in Nat /\ n \in Nat /\ \A k \in 1..n : s[k] \in S  OBVIOUS
<1>2. SubSeq(s, 1, n) = [k \in 1..n |-> s[k]]  BY <1>1
<1> QED  BY <1>1, <1>2

LEMMA PopFacts ==
    ASSUME NEW S, NEW s \in Seq(S), Len(s) > 0
    PROVE  /\ Pop(s) \in Seq(S) /\ Len(Pop(s)) = Len(s) - 1
           /\ \A i \in 1..(Len(s) - 1) : Pop(s)[i] = s[i]
<1>1. Len(s) \in Nat /\ Len(s) - 1 \in 0..Len(s)  OBVIOUS
<1> QED  BY <1>1, FirstPart DEF Pop

LEMMA AppendFacts ==
    ASSUME NEW S, NEW s \in Seq(S), NEW e \in S
    PROVE  /\ Append(s, e) \in Seq(S) /\ Len(Append(s, e)) = Len(s) + 1
           /\ \A i \in 1..Len(s) : Append(s, e)[i] = s[i]
           /\ Append(s, e)[Len(s) + 1] = e
OBVIOUS

LEMMA TailFacts ==
    ASSUME NEW S, NEW s \in Seq(S), Len(s) > 0
    PROVE  /\ Tail(s) \in Seq(S) /\ Len(Tail(s)) = Len(s) - 1
           /\ \A i \in 1..(Len(s) - 1) : Tail(s)[i] = s[i + 1]
OBVIOUS

LEMMA SingleName ==
    ASSUME NEW s \in Seq(Pieces), 1 \in 1..Len(s), Len(s) <= 1
    PROVE  s = <<s[1]>>
<1>1. PICK n \in Nat : n = Len(s)  OBVIOUS
<1>2. n >= 1 /\ n <= 1  BY <1>1
<1>3. n = 1  BY <1>2
<1>4. s \in [1..n -> Pieces]  BY <1>1
<1>5. s \in [1..1 -> Pieces]  BY <1>3, <1>4
<1>6. PICK t : t = <<s[1]>>  OBVIOUS
<1>7. t \in [1..1 -> Pieces] /\ t[1] = s[1]  BY <1>5, <1>6
<1>8. \A i \in 1..1 : i = 1  OBVIOUS
<1>9. s = t  BY <1>5, <1>7, <1>8
<1> QED  BY <1>6, <1>9

-----------------------------------------------------------------------------
(* The name.                                                                *)

\* The name behind the last mark is removed, and nothing else.
LEMMA RemoveLastIdIsPrefix ==
    ASSUME NEW id \in Seq(Pieces), NEW n \in 0..Len(id),
           n = 0 \/ id[n] \in Marks, \A k \in (n + 1)..Len(id) : id[k] \notin Marks
    PROVE  RemoveLastId(id) = SubSeq(id, 1, n)
<1> DEFINE IsLast(i) == /\ i = 0 \/ id[i] \in Marks
                        /\ \A k \in (i + 1)..Len(id) : id[k] \notin Marks
<1>1. IsLast(n)  OBVIOUS
<1>2. \A i \in 0..Len(id) : IsLast(i) => i = n
  <2> SUFFICES ASSUME NEW i \in 0..Len(id), IsLast(i), i # n PROVE FALSE  OBVIOUS
  <2>1. CASE i < n
    <3>1. n \in (i + 1)..Len(id) /\ n # 0  BY <2>1
    <3> QED  BY <3>1
  <2>2. CASE n < i
    <3>1. i \in (n + 1)..Len(id) /\ i # 0  BY <2>2
    <3> QED  BY <3>1
  <2> QED  BY <2>1, <2>2
<1>3. (CHOOSE i \in 0..Len(id) : IsLast(i)) = n  BY <1>1, <1>2
<1> QED  BY <1>3 DEF RemoveLastId

LEMMA RenamedFacts ==
    ASSUME NEW id \in Seq(Pieces), keyed \in BOOLEAN
    PROVE  /\ Renamed(id) \in Seq(Pieces) /\ Len(Renamed(id)) <= Len(id)
           /\ Len(id) = 0 \/ id[1] # "result" => Renamed(id) = id
           /\ Len(id) > 0 /\ id[1] = "result" /\ keyed =>
                /\ Len(Renamed(id)) = Len(id) /\ Renamed(id)[1] = "seq"
                /\ \A k \in 2..Len(id) : Renamed(id)[k] = id[k]
           /\ Len(id) > 0 /\ Len(id) <= 1 /\ id[1] = "result" /\ ~keyed => Renamed(id) = <<>>
           /\ Len(id) > 1 /\ id[1] = "result" /\ ~keyed =>
                /\ Len(Renamed(id)) = Len(id) - 2
                /\ \A k \in 1..(Len(id) - 2) : Renamed(id)[k] = id[k + 2]
<1>1. Len(id) \in Nat /\ (id = <<>> <=> Len(id) = 0)  OBVIOUS
<1>2. CASE Len(id) = 0 \/ id[1] # "result"
  <2>1. Renamed(id) = id  BY <1>1, <1>2 DEF Renamed
  <2> QED  BY <1>1, <1>2, <2>1
<1>3. CASE Len(id) > 0 /\ id[1] = "result" /\ keyed
  <2>1. Renamed(id) = <<"seq">> \o Tail(id)  BY <1>1, <1>3 DEF Renamed
  <2>2. "seq" \in Pieces  BY DEF Pieces
  <2>3. Tail(id) \in Seq(Pieces) /\ Len(Tail(id)) = Len(id) - 1
        /\ \A k \in 1..(Len(id) - 1) : Tail(id)[k] = id[k + 1]
    BY <1>3, TailFacts
  <2>4. <<"seq">> \in Seq(Pieces) /\ Len(<<"seq">>) = 1 /\ <<"seq">>[1] = "seq"  BY <2>2
  <2>5. PICK t : t = Tail(id)  OBVIOUS
  <2>6. PICK h : h = <<"seq">>  OBVIOUS
  <2>7. h \o t \in Seq(Pieces) /\ Len(h \o t) = Len(id) /\ (h \o t)[1] = "seq"
        /\ \A k \in 2..Len(id) : (h \o t)[k] = t[k - 1]
    BY <1>1, <2>3, <2>4, <2>5, <2>6
  <2>8. \A k \in 2..Len(id) : t[k - 1] = id[k]
    <3> TAKE k \in 2..Len(id)
    <3>1. k - 1 \in 1..(Len(id) - 1) /\ (k - 1) + 1 = k  BY <1>1
    <3> QED  BY <2>3, <2>5, <3>1
  <2> QED  BY <1>1, <1>3, <2>1, <2>5, <2>6, <2>7, <2>8
<1>4. CASE Len(id) > 0 /\ Len(id) <= 1 /\ id[1] = "result" /\ ~keyed
  <2>1. Tail(id) = <<>>
    <3>1. PICK t : t = Tail(id)  OBVIOUS
    <3>2. t \in Seq(Pieces) /\ Len(t) = Len(id) - 1  BY <1>4, <3>1, TailFacts
    <3>3. Len(t) <= 0  BY <1>1, <1>4, <3>2
    <3> QED  BY <3>1, <3>2, <3>3
  <2>2. Renamed(id) = <<>>  BY <1>1, <1>4, <2>1 DEF Renamed
  <2> QED  BY <1>1, <1>4, <2>2
<1>5. CASE Len(id) > 1 /\ id[1] = "result" /\ ~keyed
  <2>1. PICK t : t = Tail(id)  OBVIOUS
  <2>2. t \in Seq(Pieces) /\ Len(t) = Len(id) - 1
        /\ \A k \in 1..(Len(id) - 1) : t[k] = id[k + 1]
    BY <1>5, <2>1, TailFacts
  <2>3. Len(t) > 0 /\ t # <<>>  BY <1>1, <1>5, <2>2
  <2>4. Renamed(id) = Tail(t)  BY <1>1, <1>5, <2>1, <2>3 DEF Renamed
  <2>5. Tail(t) \in Seq(Pieces) /\ Len(Tail(t)) = Len(t) - 1
        /\ \A k \in 1..(Len(t) - 1) : Tail(t)[k] = t[k + 1]
    BY <2>2, <2>3, TailFacts
  <2>6. \A k \in 1..(Len(id) - 2) : Tail(t)[k] = id[k + 2]
    <3> TAKE k \in 1..(Len(id) - 2)
    <3>1. k \in 1..(Len(t) - 1) /\ k + 1 \in 1..(Len(id) - 1) /\ (k + 1) + 1 = k + 2
      BY <1>1, <2>2
    <3> QED  BY <2>2, <2>5, <3>1
  <2> QED  BY <1>1, <1>5, <2>2, <2>4, <2>5, <2>6
<1> QED  BY <1>1, <1>2, <1>3, <1>4, <1>5

-----------------------------------------------------------------------------
(* The callback, which renames the field while brackets are open.            *)

\* Reported, of dropped.
DroppedAfter(processed) ==
    \/ dropped
    \/ /\ processed /\ ~keyed
       /\ Len(fieldId) > 1 /\ fieldId[1] = "result" /\ fieldId[2] = ":"

LEMMA RenamedFrameFacts ==
    ASSUME open \in Seq(Frames), keyed \in BOOLEAN
    PROVE  /\ RenamedFrames \in Seq(Frames) /\ Len(RenamedFrames) = Len(open)
           /\ \A i \in 1..Len(open) :
                /\ RenamedFrames[i].kind = open[i].kind
                /\ RenamedFrames[i].elements = open[i].elements
                /\ RenamedFrames[i].depth = open[i].depth
                /\ RenamedFrames[i].path = Renamed(open[i].path)
<1>1. Len(open) \in Nat  OBVIOUS
<1>2. ASSUME NEW i \in 1..Len(open)
      PROVE  /\ [open[i] EXCEPT !.path = Renamed(@)] \in Frames
             /\ [open[i] EXCEPT !.path = Renamed(@)].kind = open[i].kind
             /\ [open[i] EXCEPT !.path = Renamed(@)].elements = open[i].elements
             /\ [open[i] EXCEPT !.path = Renamed(@)].depth = open[i].depth
             /\ [open[i] EXCEPT !.path = Renamed(@)].path = Renamed(open[i].path)
  <2>1. open[i] \in Frames  OBVIOUS
  <2>2. Renamed(open[i].path) \in Seq(Pieces)  BY <2>1, RenamedFacts DEF Frames
  <2> QED  BY <2>1, <2>2 DEF Frames
<1>3. RenamedFrames \in [1..Len(open) -> Frames]  BY <1>2 DEF RenamedFrames
<1>4. RenamedFrames \in Seq(Frames) /\ Len(RenamedFrames) = Len(open)  BY <1>1, <1>3
<1> QED  BY <1>2, <1>4 DEF RenamedFrames

\* What is nested stays so if each path is as it was and the name too.
LEMMA NestedAlike ==
    ASSUME NEW id \in Seq(Pieces), NEW st \in Seq(Frames), NEW st2 \in Seq(Frames),
           NEW drop \in BOOLEAN, NEW key \in BOOLEAN, NEW key2 \in BOOLEAN,
           Len(st2) = Len(st),
           \A i \in 1..Len(st) : st2[i].kind = st[i].kind /\ st2[i].path = st[i].path,
           Len(id) > 1 /\ id[1] = "result" => key2 = key,
           Nested(id, st, drop, key)
    PROVE  Nested(id, st2, drop, key2)
<1>1. Len(st) \in Nat  OBVIOUS
<1>2. PathsNest(id, st2, drop)  BY DEF Nested, PathsNest
<1>3. MarksAreBrackets(id, st2)
  <2>1. \A i \in 1..Len(st) : i < Len(st) => i + 1 \in 1..Len(st)  BY <1>1
  <2>2. \A k \in 1..Len(id) :
           id[k] \in Marks => \E i \in 1..Len(st2) : Len(st2[i].path) = k
    BY DEF Nested, MarksAreBrackets
  <2> QED  BY <2>1, <2>2 DEF Nested, MarksAreBrackets
<1> QED  BY <1>2, <1>3 DEF Nested, NamesAreFirst

LEMMA CallbackNests ==
    ASSUME TypeOK, Nested(fieldId, open, dropped, keyed), NEW key \in KeyedAfter(TRUE)
    PROVE  Nested(Renamed(fieldId), RenamedFrames, DroppedAfter(TRUE), key)
<1> DEFINE st == RenamedFrames
           id == Renamed(fieldId)
<1>1. /\ fieldId \in Seq(Pieces) /\ open \in Seq(Frames) /\ keyed \in BOOLEAN
      /\ dropped \in BOOLEAN /\ key \in BOOLEAN /\ Len(fieldId) \in Nat /\ Len(open) \in Nat
  BY DEF TypeOK, KeyedAfter
<1>7. Len(fieldId) \in Nat /\ Len(open) \in Nat  BY <1>1
<1>2. /\ st \in Seq(Frames) /\ Len(st) = Len(open)
      /\ \A i \in 1..Len(open) :
           /\ st[i].kind = open[i].kind /\ st[i].path = Renamed(open[i].path)
           /\ open[i].path \in Seq(Pieces) /\ Len(open[i].path) \in Nat
           /\ IsPrefix(open[i].path, fieldId)
  <2>1. ASSUME NEW i \in 1..Len(open) PROVE open[i].path \in Seq(Pieces)
    <3>1. open[i] \in Frames  BY <1>1
    <3> QED  BY <3>1 DEF Frames
  <2>2. \A i \in 1..Len(open) : IsPrefix(open[i].path, fieldId)  BY DEF Nested, PathsNest
  <2>3. \A i \in 1..Len(open) : Len(open[i].path) \in Nat  BY <2>1
  <2> QED  BY <1>1, <2>1, <2>2, <2>3, RenamedFrameFacts
<1>3. id \in Seq(Pieces)  BY <1>1, RenamedFacts
<1>4. CASE Len(fieldId) = 0 \/ fieldId[1] # "result"
  <2>1. id = fieldId  BY <1>1, <1>4, RenamedFacts
  <2>2. ASSUME NEW i \in 1..Len(open) PROVE st[i].path = open[i].path
    <3>1. Len(open[i].path) = 0 \/ open[i].path[1] # "result"
      BY <1>1, <1>2, <1>4 DEF IsPrefix
    <3> QED  BY <1>1, <1>2, <3>1, RenamedFacts
  <2>3. ~(Len(fieldId) > 1 /\ fieldId[1] = "result")  BY <1>1, <1>4
  <2>4. DroppedAfter(TRUE) = dropped  BY <1>1, <2>3 DEF DroppedAfter
  <2> HIDE DEF st, id
  <2>5. Nested(fieldId, st, dropped, key)  BY <1>1, <1>2, <2>2, <2>3, NestedAlike
  <2> QED  BY <2>1, <2>4, <2>5 DEF st, id
<1>5. ASSUME Len(fieldId) > 0, fieldId[1] = "result"
      PROVE  Nested(Renamed(fieldId), RenamedFrames, DroppedAfter(TRUE), key)
  <2>1. ~dropped /\ Surplus(dropped) = 0 /\ "result" \notin Marks
    BY <1>1, <1>5 DEF Nested, NamesAreFirst, Names, Surplus, Marks
  <2>2. \A i \in 1..Len(open) : Len(open[i].path) > 0 => open[i].path[1] = "result"
    BY <1>1, <1>2, <1>5 DEF IsPrefix
  <2>3. Len(open) >= 1 /\ 1 \in 1..Len(open)  BY <1>1, <2>1 DEF Nested
  <2>10. dropped = FALSE /\ PathsNest(fieldId, open, FALSE)  BY <1>1, <2>1 DEF Nested
  <2>4. Len(open[1].path) = 0 /\ open[1].kind = "lbrace"
    BY <2>3, <2>10 DEF PathsNest, Surplus
  <2>8. ASSUME NEW i \in 1..Len(open), i > 1
        PROVE  Len(open[i].path) > 1 /\ fieldId[Len(open[i].path)] = Mark(open[i].kind)
    <3>1. Len(open[i].path) > 0 /\ fieldId[Len(open[i].path)] = Mark(open[i].kind)
      BY <2>8, <2>10 DEF PathsNest, Surplus
    <3>2. fieldId[1] # Mark(open[i].kind)  BY <1>5 DEF Mark
    <3> QED  BY <1>2, <3>1, <3>2
  <2>9. ASSUME NEW i \in 1..Len(open), NEW j \in 1..Len(open), i < j
        PROVE  Len(open[i].path) < Len(open[j].path)
    BY <1>1, <2>9, <2>10 DEF PathsNest, Surplus
  <2>5. CASE keyed
    <3>1. key = keyed /\ DroppedAfter(TRUE) = FALSE
      <4>1. fieldId # <<"key">>  BY <1>5
      <4>2. key = keyed  BY <4>1 DEF KeyedAfter
      <4> QED  BY <2>5, <2>10, <4>2 DEF DroppedAfter
    <3>2. Len(id) = Len(fieldId) /\ id[1] = "seq" /\ \A k \in 2..Len(fieldId) : id[k] = fieldId[k]
      BY <1>1, <1>5, <2>5, RenamedFacts
    <3>3. ASSUME NEW i \in 1..Len(open)
          PROVE  /\ Len(st[i].path) = Len(open[i].path) /\ IsPrefix(st[i].path, id)
                 /\ i > 1 => id[Len(st[i].path)] = Mark(st[i].kind)
      <4> DEFINE p == open[i].path
      <4>1. /\ p \in Seq(Pieces) /\ st[i].path = Renamed(p) /\ st[i].kind = open[i].kind
            /\ Len(p) \in Nat /\ Len(p) <= Len(fieldId)
            /\ \A k \in 1..Len(p) : p[k] = fieldId[k]
        BY <1>2 DEF IsPrefix
      <4>2. Len(p) > 0 => p[1] = "result"  BY <2>2
      <4> HIDE DEF p
      <4>3. CASE Len(p) = 0
        <5>1. Renamed(p) = p  BY <1>1, <4>1, <4>3, RenamedFacts
        <5>2. i = 1  BY <2>3, <2>4, <2>8, <2>9, <4>3 DEF p
        <5> QED  BY <1>1, <3>2, <4>1, <4>3, <5>1, <5>2 DEF p, IsPrefix
      <4>4. CASE Len(p) > 0
        <5>1. /\ Len(Renamed(p)) = Len(p) /\ Renamed(p)[1] = "seq"
              /\ \A k \in 2..Len(p) : Renamed(p)[k] = p[k]
          BY <1>1, <2>5, <4>1, <4>2, <4>4, RenamedFacts
        <5>2. IsPrefix(Renamed(p), id)
          BY <1>1, <3>2, <4>1, <4>4, <5>1 DEF IsPrefix
        <5>3. i > 1 => id[Len(p)] = Mark(st[i].kind)
          BY <1>1, <2>3, <2>4, <2>8, <2>9, <3>2, <4>1 DEF p
        <5> QED  BY <4>1, <5>1, <5>2, <5>3 DEF p
      <4> QED  BY <4>1, <4>3, <4>4
    <3> HIDE DEF st, id
    <3>4. PathsNest(id, st, FALSE)
      BY <1>1, <1>2, <2>3, <2>4, <2>8, <2>9, <3>3 DEF PathsNest, Surplus
    <3>5. MarksAreBrackets(id, st)
      <4>1. \A k \in 1..Len(id) : id[k] \in Marks => k \in 2..Len(fieldId) /\ fieldId[k] \in Marks
        BY <1>1, <3>2 DEF Marks
      <4>2. \A k \in 1..Len(id) :
               id[k] \in Marks => \E i \in 1..Len(st) : Len(st[i].path) = k
        <5> TAKE k \in 1..Len(id)
        <5> HAVE id[k] \in Marks
        <5>1. PICK i \in 1..Len(open) : Len(open[i].path) = k
          BY <1>1, <4>1 DEF Nested, MarksAreBrackets
        <5> QED  BY <1>2, <3>3, <5>1
      <4>3. ASSUME NEW i \in 1..Len(st), st[i].kind = "lbracket"
            PROVE  Len(IF i < Len(st) THEN st[i + 1].path ELSE id) =
                      Len(st[i].path) + (IF i < Len(st) THEN 1 ELSE 0)
        <5>1. Len(IF i < Len(open) THEN open[i + 1].path ELSE fieldId) =
                 Len(open[i].path) + (IF i < Len(open) THEN 1 ELSE 0)
          BY <1>2, <4>3 DEF Nested, MarksAreBrackets
        <5>2. i < Len(open) => i + 1 \in 1..Len(open)  BY <1>1, <1>2
        <5> QED  BY <1>1, <1>2, <3>2, <3>3, <5>1, <5>2
      <4> QED  BY <4>2, <4>3 DEF MarksAreBrackets
    <3>6. NamesAreFirst(id, FALSE, key)
      <4>1. \A k \in 1..Len(id) : id[k] \notin Names
        BY <1>1, <3>2 DEF Nested, NamesAreFirst, Names
      <4> QED  BY <1>3, <3>2, <4>1 DEF NamesAreFirst
    <3>7. Len(st) >= 1 + Surplus(FALSE)  BY <1>2, <2>3 DEF Surplus
    <3>8. Nested(id, st, FALSE, key)  BY <3>4, <3>5, <3>6, <3>7 DEF Nested
    <3> QED  BY <3>1, <3>8 DEF st, id
  <2>6. CASE ~keyed /\ Len(fieldId) <= 1
    <3>1. id = <<>> /\ Len(id) = 0  BY <1>1, <1>5, <2>6, RenamedFacts
    <3>2. DroppedAfter(TRUE) = FALSE  BY <2>1, <2>6 DEF DroppedAfter
    <3>3. Len(open) <= 1
      <4> SUFFICES ASSUME Len(open) > 1 PROVE FALSE  BY <1>7
      <4>1. 2 \in 1..Len(open)  BY <1>7, <2>3
      <4> QED  BY <1>2, <2>8, <2>6, <4>1 DEF IsPrefix
    <3>4. 1 \in 1..Len(open) /\ st[1].path = open[1].path
      BY <1>1, <1>2, <2>3, <2>4, <2>8, <2>9, <3>3, RenamedFacts
    <3>5. st[1].kind = "lbrace" /\ Len(st[1].path) = 0 /\ Len(st) = 1 /\ \A i \in 1..Len(st) : i = 1
      BY <1>2, <2>3, <2>4, <2>8, <2>9, <3>3, <3>4
    <3> HIDE DEF st, id
    <3> QED
      BY <3>1, <3>2, <3>5
      DEF st, id, Nested, PathsNest, MarksAreBrackets, NamesAreFirst, IsPrefix, Surplus
  <2>7. CASE ~keyed /\ Len(fieldId) > 1
    <3>1. fieldId[2] = ":"
      BY <1>1, <1>5, <2>7 DEF Nested, NamesAreFirst, Marks
    <3>2. DroppedAfter(TRUE) = TRUE  BY <1>5, <2>7, <3>1 DEF DroppedAfter
    <3>3. Len(open) >= 2 /\ Len(open[2].path) = 2 /\ open[2].kind = "lbrace"
      <4>1. 2 \in 1..Len(fieldId)  BY <1>1, <2>7
      <4>2. PICK m \in 1..Len(open) : Len(open[m].path) = 2
        BY <3>1, <4>1 DEF Nested, MarksAreBrackets, Marks
      <4>3. m > 1 /\ 2 \in 1..Len(open)
        <5>1. m # 1  BY <2>4, <4>2
        <5> QED  BY <1>1, <4>2, <5>1
      <4>4. m = 2
        <5> SUFFICES ASSUME 2 < m PROVE FALSE  BY <1>1, <4>3
        <5>1. Len(open[2].path) < Len(open[m].path)  BY <2>9, <4>2, <4>3
        <5>2. Len(open[2].path) > 1  BY <2>8, <4>3
        <5>3. Len(open[2].path) \in Nat  BY <1>2, <4>3
        <5> QED  BY <4>2, <5>1, <5>2, <5>3
      <4>5. open[2].kind # "lbracket"  BY <2>3, <2>4, <2>8, <2>9, <3>1, <4>2, <4>3, <4>4 DEF Mark
      <4>6. open[2] \in Frames  BY <1>1, <4>3
      <4>7. open[2].kind = "lbrace"  BY <4>5, <4>6 DEF Frames
      <4> QED  BY <1>1, <4>2, <4>3, <4>4, <4>7
    <3>4. Len(id) = Len(fieldId) - 2 /\ \A k \in 1..(Len(fieldId) - 2) : id[k] = fieldId[k + 2]
      BY <1>1, <1>5, <2>7, RenamedFacts
    <3>5. Len(st[1].path) = 0 /\ st[1].kind = "lbrace"
      <4>1. 1 \in 1..Len(open)  BY <1>1, <2>3, <2>4, <2>8, <2>9
      <4>2. Renamed(open[1].path) = open[1].path  BY <1>1, <1>2, <2>3, <2>4, <2>8, <2>9, <4>1, RenamedFacts
      <4> QED  BY <1>2, <2>3, <2>4, <2>8, <2>9, <4>1, <4>2
    <3>6. ASSUME NEW i \in 1..Len(open), i > 1
          PROVE  /\ Len(st[i].path) = Len(open[i].path) - 2 /\ IsPrefix(st[i].path, id)
                 /\ i > 2 => Len(st[i].path) > 0 /\ id[Len(st[i].path)] = Mark(st[i].kind)
      <4> DEFINE p == open[i].path
      <4>1. /\ p \in Seq(Pieces) /\ st[i].path = Renamed(p) /\ st[i].kind = open[i].kind
            /\ Len(p) \in Nat /\ Len(p) <= Len(fieldId) /\ Len(p) > 1 /\ p[1] = "result"
            /\ \A k \in 1..Len(p) : p[k] = fieldId[k]
        BY <1>2, <2>2, <2>8, <3>6 DEF IsPrefix
      <4>2. i > 2 => Len(p) > 2 /\ fieldId[Len(p)] = Mark(st[i].kind)
        BY <1>1, <2>3, <2>4, <2>8, <2>9, <3>3, <3>6, <4>1
      <4> HIDE DEF p
      <4>3. /\ Len(Renamed(p)) = Len(p) - 2
            /\ \A k \in 1..(Len(p) - 2) : Renamed(p)[k] = p[k + 2]
        BY <1>1, <2>7, <4>1, RenamedFacts
      <4>4. IsPrefix(Renamed(p), id)
        <5>1. Len(Renamed(p)) <= Len(id)  BY <1>1, <3>4, <4>1, <4>3
        <5>2. ASSUME NEW k \in 1..Len(Renamed(p)) PROVE Renamed(p)[k] = id[k]
          <6>1. k \in 1..(Len(p) - 2) /\ k + 2 \in 1..Len(p) /\ k \in 1..(Len(fieldId) - 2)
            BY <1>1, <4>1, <4>3
          <6> QED  BY <3>4, <4>1, <4>3, <6>1
        <5> QED  BY <5>1, <5>2 DEF IsPrefix
      <4>5. i > 2 => Len(p) - 2 > 0 /\ id[Len(p) - 2] = Mark(st[i].kind)
        <5> HAVE i > 2
        <5>1. Len(p) - 2 \in 1..(Len(fieldId) - 2) /\ (Len(p) - 2) + 2 = Len(p)
          BY <1>1, <4>1, <4>2
        <5> QED  BY <3>4, <4>2, <5>1
      <4> QED  BY <4>1, <4>3, <4>4, <4>5 DEF p
    <3>7. IsPrefix(st[1].path, id)  BY <3>4, <3>5, <1>1, <2>7 DEF IsPrefix
    <3> HIDE DEF st, id
    <3>8. PathsNest(id, st, TRUE)
      <4>1. ASSUME NEW i \in 1..Len(st)
            PROVE  /\ IsPrefix(st[i].path, id)
                   /\ i <= 2 => Len(st[i].path) = 0 /\ st[i].kind = "lbrace"
                   /\ i > 2 => Len(st[i].path) > 0 /\ id[Len(st[i].path)] = Mark(st[i].kind)
        <5>1. CASE i = 1  BY <3>5, <3>7, <5>1
        <5>2. CASE i = 2
          <6>1. i \in 1..Len(open) /\ i > 1 /\ ~(i > 2)  BY <1>1, <1>2, <5>2
          <6>2. Len(st[2].path) = Len(open[2].path) - 2  BY <3>6, <5>2, <6>1
          <6>4. Len(st[i].path) = 0  BY <3>3, <5>2, <6>2
          <6>3. st[i].kind = "lbrace"  BY <1>2, <3>3, <5>2, <6>1
          <6> QED  BY <3>6, <6>1, <6>3, <6>4
        <5>3. CASE i > 2  BY <1>2, <3>6, <5>3
        <5> QED  BY <5>1, <5>2, <5>3
      <4>2. ASSUME NEW i \in 1..Len(st), NEW j \in 1..Len(st), i < j, j > 2
            PROVE  Len(st[i].path) < Len(st[j].path)
        <5>1. CASE i = 1  BY <3>5, <4>1, <4>2, <5>1
        <5>2. CASE i > 1
          <6>1. Len(open[i].path) < Len(open[j].path)  BY <1>2, <2>3, <2>4, <2>8, <2>9, <4>2
          <6>2. Len(st[i].path) = Len(open[i].path) - 2 /\ Len(st[j].path) = Len(open[j].path) - 2
            BY <1>2, <3>6, <4>2, <5>2
          <6> QED  BY <1>2, <6>1, <6>2
        <5> QED  BY <5>1, <5>2
      <4> QED  BY <4>1, <4>2 DEF PathsNest, Surplus
    <3>9. MarksAreBrackets(id, st)
      <4>1. ASSUME NEW k \in 1..Len(id), id[k] \in Marks
            PROVE  \E i \in 1..Len(st) : Len(st[i].path) = k
        <5>1. k + 2 \in 1..Len(fieldId) /\ fieldId[k + 2] \in Marks  BY <1>1, <3>4, <4>1
        <5>2. PICK i \in 1..Len(open) : Len(open[i].path) = k + 2
          BY <5>1 DEF Nested, MarksAreBrackets
        <5>3. i > 1  BY <2>3, <2>4, <2>8, <2>9, <5>2
        <5>4. Len(st[i].path) = (k + 2) - 2  BY <3>6, <5>2, <5>3
        <5> QED  BY <1>2, <5>2, <5>4
      <4>2. ASSUME NEW i \in 1..Len(st), st[i].kind = "lbracket"
            PROVE  Len(IF i < Len(st) THEN st[i + 1].path ELSE id) =
                      Len(st[i].path) + (IF i < Len(st) THEN 1 ELSE 0)
        <5>1. Len(IF i < Len(open) THEN open[i + 1].path ELSE fieldId) =
                 Len(open[i].path) + (IF i < Len(open) THEN 1 ELSE 0)
          BY <1>2, <4>2 DEF Nested, MarksAreBrackets
        <5>2. i > 1  BY <3>5, <4>2
        <5>3. i < Len(open) => i + 1 \in 1..Len(open) /\ i + 1 > 1  BY <1>1, <1>2
        <5>4. Len(st[i].path) = Len(open[i].path) - 2  BY <1>2, <3>6, <5>2
        <5>5. i < Len(open) => Len(st[i + 1].path) = Len(open[i + 1].path) - 2  BY <3>6, <5>3
        <5>6. Len(open[i].path) \in Nat  BY <1>2
        <5>7. CASE i < Len(open)
          <6>1. Len(open[i + 1].path) = Len(open[i].path) + 1  BY <5>1, <5>7
          <6> QED  BY <1>2, <5>4, <5>5, <5>6, <5>7, <6>1
        <5>8. CASE ~(i < Len(open))
          <6>1. Len(fieldId) = Len(open[i].path) + 0  BY <5>1, <5>8
          <6> QED  BY <1>1, <1>2, <3>4, <5>4, <5>6, <5>8, <6>1
        <5> QED  BY <5>7, <5>8
      <4> QED  BY <4>1, <4>2 DEF MarksAreBrackets
    <3>10. NamesAreFirst(id, TRUE, key)
      <4>1. ASSUME NEW k \in 1..Len(id) PROVE id[k] \notin Names
        <5>1. k + 2 \in 1..Len(fieldId) /\ k + 2 # 1 /\ id[k] = fieldId[k + 2]  BY <1>1, <3>4
        <5> QED  BY <5>1 DEF Nested, NamesAreFirst
      <4>2. Len(id) \in Nat  BY <1>3
      <4>3. Len(id) > 1 => id[1] \notin Names  BY <4>1, <4>2
      <4> QED  BY <4>1, <4>3 DEF NamesAreFirst, Names
    <3>11. Nested(id, st, TRUE, key)
      <4>1. Len(st) >= 1 + Surplus(TRUE)  BY <1>2, <3>3 DEF Surplus
      <4> QED  BY <3>8, <3>9, <3>10, <4>1 DEF Nested
    <3> QED  BY <3>2, <3>11 DEF st, id
  <2>11. Len(fieldId) <= 1 \/ Len(fieldId) > 1  BY <1>5, <1>7
  <2> QED  BY <2>5, <2>6, <2>7, <2>11
<1>6. Len(fieldId) = 0 \/ Len(fieldId) > 0  BY <1>1
<1> QED  BY <1>4, <1>5, <1>6

-----------------------------------------------------------------------------
(* What brackets, commas and names do to a nest.                            *)

LEMMA StackTypes ==
    ASSUME NEW st \in Seq(Frames), NEW i \in 1..Len(st)
    PROVE  /\ st[i] \in Frames /\ st[i].path \in Seq(Pieces) /\ Len(st[i].path) \in Nat
           /\ st[i].depth \in Nat /\ st[i].elements \in Nat
           /\ st[i].kind = "lbrace" \/ st[i].kind = "lbracket"
<1>1. st[i] \in Frames  OBVIOUS
<1>2. st[i].path \in Seq(Pieces)  BY <1>1 DEF Frames
<1> QED  BY <1>1, <1>2 DEF Frames

LEMMA SurplusIs == Surplus(TRUE) = 1 /\ Surplus(FALSE) = 0
BY DEF Surplus

LEMMA SurplusNat == ASSUME NEW drop \in BOOLEAN PROVE Surplus(drop) \in Nat
BY DEF Surplus

\* The path on top reaches to the last mark of the name.
LEMMA TopIsLast ==
    ASSUME NEW id \in Seq(Pieces), NEW st \in Seq(Frames), NEW drop \in BOOLEAN, NEW key,
           Nested(id, st, drop, key)
    PROVE  /\ Len(st) >= 1 /\ Len(st) \in 1..Len(st) /\ 1 \in 1..Len(st)
           /\ Len(Top(st).path) \in 0..Len(id) /\ IsPrefix(Top(st).path, id)
           /\ Len(st) <= 1 + Surplus(drop) => Len(Top(st).path) = 0 /\ Top(st).kind = "lbrace"
           /\ Len(st) > 1 + Surplus(drop) =>
                Len(Top(st).path) > 0 /\ id[Len(Top(st).path)] = Mark(Top(st).kind)
           /\ \A k \in (Len(Top(st).path) + 1)..Len(id) : id[k] \notin Marks
           /\ Top(st).kind = "lbracket" => Len(Top(st).path) = Len(id)
<1>1. Len(st) \in Nat /\ Len(id) \in Nat /\ Surplus(drop) \in Nat  BY SurplusNat
<1>2. Len(st) >= 1 + Surplus(drop)  BY DEF Nested
<1>3. Len(st) >= 1 /\ Len(st) \in 1..Len(st) /\ 1 \in 1..Len(st)  BY <1>1, <1>2
<1>4. PICK n : n = Len(st)  OBVIOUS
<1>5. n \in 1..Len(st) /\ Top(st) = st[n]  BY <1>3, <1>4 DEF Top
<1>6. Len(st[n].path) \in Nat  BY <1>5, StackTypes
<1>7. /\ IsPrefix(st[n].path, id)
      /\ n <= 1 + Surplus(drop) => Len(st[n].path) = 0 /\ st[n].kind = "lbrace"
      /\ n > 1 + Surplus(drop) =>
           Len(st[n].path) > 0 /\ id[Len(st[n].path)] = Mark(st[n].kind)
  BY <1>5 DEF Nested, PathsNest
<1>8. ASSUME NEW k \in (Len(st[n].path) + 1)..Len(id), id[k] \in Marks PROVE FALSE
  <2>1. k \in 1..Len(id)  BY <1>1, <1>6
  <2>2. PICK i \in 1..Len(st) : Len(st[i].path) = k
    BY <1>8, <2>1 DEF Nested, MarksAreBrackets
  <2>3. k > Len(st[n].path)  BY <1>6
  <2>4. i < n  BY <1>1, <1>4, <2>2, <2>3
  <2>5. CASE n > 1 + Surplus(drop)
    <3>1. Len(st[i].path) < Len(st[n].path)  BY <1>5, <2>4, <2>5 DEF Nested, PathsNest
    <3> QED  BY <1>6, <2>2, <2>3, <3>1
  <2>6. CASE n <= 1 + Surplus(drop)
    <3>1. i <= 1 + Surplus(drop)  BY <1>1, <1>4, <2>4, <2>6
    <3>2. Len(st[i].path) = 0  BY <3>1 DEF Nested, PathsNest
    <3> QED  BY <2>1, <2>2, <3>2
  <2> QED  BY <1>1, <1>4, <2>5, <2>6
<1>9. ASSUME st[n].kind = "lbracket" PROVE Len(st[n].path) = Len(id)
  <2>1. Len(IF n < Len(st) THEN st[n + 1].path ELSE id) =
           Len(st[n].path) + (IF n < Len(st) THEN 1 ELSE 0)
    BY <1>5, <1>9 DEF Nested, MarksAreBrackets
  <2>2. ~(n < Len(st))  BY <1>1, <1>4
  <2>3. Len(id) = Len(st[n].path) + 0  BY <2>1, <2>2
  <2> QED  BY <1>1, <1>6, <2>3
<1>10. Len(st[n].path) \in 0..Len(id)  BY <1>1, <1>6, <1>7 DEF IsPrefix
<1> QED  BY <1>3, <1>4, <1>5, <1>7, <1>8, <1>9, <1>10

\* A closing bracket takes away the top with its mark.
LEMMA ClosingNests ==
    ASSUME NEW id \in Seq(Pieces), NEW st \in Seq(Frames), NEW drop \in BOOLEAN, NEW key,
           Nested(id, st, drop, key), Len(st) > 1 + Surplus(drop),
           NEW id2 \in Seq(Pieces), Len(id2) = Len(Top(st).path) - 1,
           \A k \in 1..Len(id2) : id2[k] = id[k]
    PROVE  Nested(id2, Pop(st), drop, key)
<1>1. Len(st) \in Nat /\ Len(id) \in Nat /\ Surplus(drop) \in Nat /\ Len(id2) \in Nat
  BY SurplusNat
<1>2. PICK n : n = Len(st)  OBVIOUS
<1>3. PICK p : p = Pop(st)  OBVIOUS
<1>4. n \in 1..Len(st) /\ Top(st) = st[n] /\ Len(st[n].path) \in 0..Len(id)
  BY <1>2, TopIsLast DEF Top
<1>5. p \in Seq(Frames) /\ Len(p) = n - 1 /\ \A i \in 1..(n - 1) : p[i] = st[i]
  BY <1>1, <1>2, <1>3, PopFacts
<1>6. ASSUME NEW i \in 1..Len(p)
      PROVE  /\ i \in 1..Len(st) /\ p[i] = st[i] /\ Len(p[i].path) \in Nat
             /\ Len(p[i].path) <= Len(id2) /\ i < n
  <2>1. i \in 1..(n - 1) /\ p[i] = st[i]  BY <1>5
  <2>2. i \in 1..Len(st) /\ i < n  BY <1>1, <1>2, <2>1
  <2>3. Len(st[i].path) < Len(st[n].path)  BY <1>2, <1>4, <2>2 DEF Nested, PathsNest
  <2>4. Len(st[i].path) \in Nat  BY <2>2, StackTypes
  <2> QED  BY <1>1, <1>4, <2>1, <2>2, <2>3, <2>4
<1>7. PathsNest(id2, p, drop)
  <2>1. ASSUME NEW i \in 1..Len(p)
        PROVE  /\ IsPrefix(p[i].path, id2)
               /\ i <= 1 + Surplus(drop) => Len(p[i].path) = 0 /\ p[i].kind = "lbrace"
               /\ i > 1 + Surplus(drop) =>
                    Len(p[i].path) > 0 /\ id2[Len(p[i].path)] = Mark(p[i].kind)
    <3>1. /\ IsPrefix(st[i].path, id)
          /\ i <= 1 + Surplus(drop) => Len(st[i].path) = 0 /\ st[i].kind = "lbrace"
          /\ i > 1 + Surplus(drop) =>
               Len(st[i].path) > 0 /\ id[Len(st[i].path)] = Mark(st[i].kind)
      BY <1>6 DEF Nested, PathsNest
    <3>2. IsPrefix(p[i].path, id2)  BY <1>1, <1>6, <3>1 DEF IsPrefix
    <3>3. i > 1 + Surplus(drop) => Len(p[i].path) \in 1..Len(id2)  BY <1>1, <1>6, <3>1
    <3> QED  BY <1>6, <3>1, <3>2, <3>3
  <2>2. ASSUME NEW i \in 1..Len(p), NEW j \in 1..Len(p), i < j, j > 1 + Surplus(drop)
        PROVE  Len(p[i].path) < Len(p[j].path)
    <3>1. Len(st[i].path) < Len(st[j].path)  BY <1>6, <2>2 DEF Nested, PathsNest
    <3> QED  BY <1>6, <3>1
  <2> QED  BY <2>1, <2>2 DEF PathsNest
<1>8. MarksAreBrackets(id2, p)
  <2>1. ASSUME NEW k \in 1..Len(id2), id2[k] \in Marks
        PROVE  \E i \in 1..Len(p) : Len(p[i].path) = k
    <3>1. k \in 1..Len(id) /\ id[k] \in Marks  BY <1>1, <1>4, <2>1
    <3>2. PICK i \in 1..Len(st) : Len(st[i].path) = k
      BY <3>1 DEF Nested, MarksAreBrackets
    <3>3. i # n  BY <1>1, <1>4, <3>2
    <3>4. i \in 1..Len(p)  BY <1>1, <1>2, <1>5, <3>3
    <3> QED  BY <1>6, <3>2, <3>4
  <2>2. ASSUME NEW i \in 1..Len(p), p[i].kind = "lbracket"
        PROVE  Len(IF i < Len(p) THEN p[i + 1].path ELSE id2) =
                  Len(p[i].path) + (IF i < Len(p) THEN 1 ELSE 0)
    <3>1. i < Len(st) /\ i \in 1..Len(st) /\ st[i].kind = "lbracket"  BY <1>2, <1>6, <2>2
    <3>2. Len(IF i < Len(st) THEN st[i + 1].path ELSE id) =
             Len(st[i].path) + (IF i < Len(st) THEN 1 ELSE 0)
      BY <3>1 DEF Nested, MarksAreBrackets
    <3>3. Len(st[i + 1].path) = Len(st[i].path) + 1  BY <3>1, <3>2
    <3>4. CASE i < Len(p)
      <4>1. i + 1 \in 1..Len(p)  BY <1>1, <1>2, <1>5, <3>4
      <4> QED  BY <1>6, <3>3, <3>4, <4>1
    <3>5. CASE ~(i < Len(p))
      <4>1. i + 1 = n  BY <1>1, <1>2, <1>5, <3>5
      <4>2. Len(st[n].path) = Len(p[i].path) + 1  BY <1>6, <3>3, <4>1
      <4>3. Len(id2) = Len(p[i].path) + 0  BY <1>1, <1>4, <1>6, <4>2
      <4> QED  BY <3>5, <4>3
    <3> QED  BY <3>4, <3>5
  <2> QED  BY <2>1, <2>2 DEF MarksAreBrackets
<1>9. NamesAreFirst(id2, drop, key)
  <2>1. \A k \in 1..Len(id2) : k \in 1..Len(id)  BY <1>1, <1>4
  <2>2. \A k \in 1..Len(id2) : id2[k] \in Names => k = 1 /\ ~drop
    BY <2>1 DEF Nested, NamesAreFirst
  <2>3. Len(id2) > 1 => Len(id) > 1 /\ id2[1] = id[1] /\ id2[2] = id[2]
    BY <1>1, <1>4
  <2>4. Len(id2) > 1 /\ id2[1] = "result" => id2[2] \in Marks /\ (id2[2] = "^" => key)
    BY <2>3 DEF Nested, NamesAreFirst
  <2> QED  BY <2>2, <2>4 DEF NamesAreFirst
<1>10. Len(p) >= 1 + Surplus(drop)  BY <1>1, <1>2, <1>5
<1> QED  BY <1>3, <1>7, <1>8, <1>9, <1>10 DEF Nested

\* An opening bracket puts a frame with the name and its mark on top.
LEMMA OpeningNests ==
    ASSUME NEW id \in Seq(Pieces), NEW st \in Seq(Frames), NEW drop \in BOOLEAN, NEW key,
           Nested(id, st, drop, key), NEW e \in Frames, e.path = Append(id, Mark(e.kind)),
           e.kind = "lbracket" => key \/ id # <<"result">>
    PROVE  /\ Append(id, Mark(e.kind)) \in Seq(Pieces)
           /\ Nested(Append(id, Mark(e.kind)), Append(st, e), drop, key)
<1>1. Len(st) \in Nat /\ Len(id) \in Nat /\ Surplus(drop) \in Nat
      /\ Len(st) >= 1 + Surplus(drop)
  BY SurplusNat DEF Nested
<1>2. PICK m : m = Mark(e.kind)  OBVIOUS
<1>3. PICK id2 : id2 = Append(id, m)  OBVIOUS
<1>4. PICK st2 : st2 = Append(st, e)  OBVIOUS
<1>5. m \in Pieces /\ m \in Marks /\ m \notin Names /\ (m = "^" => e.kind = "lbracket")
  BY <1>2 DEF Mark, Pieces, Marks, Names
<1>6. /\ id2 \in Seq(Pieces) /\ Len(id2) = Len(id) + 1 /\ id2[Len(id) + 1] = m
      /\ \A k \in 1..Len(id) : id2[k] = id[k]
  BY <1>3, <1>5, AppendFacts
<1>7. /\ st2 \in Seq(Frames) /\ Len(st2) = Len(st) + 1 /\ st2[Len(st) + 1] = e
      /\ \A i \in 1..Len(st) : st2[i] = st[i]
  BY <1>4, AppendFacts
<1>8. e.path = id2  BY <1>2, <1>3
<1>9. \A i \in 1..Len(st2) : i \in 1..Len(st) \/ i = Len(st) + 1  BY <1>1, <1>7
<1>10. \A k \in 1..Len(id2) : k \in 1..Len(id) \/ k = Len(id) + 1  BY <1>1, <1>6
<1>11. ASSUME NEW i \in 1..Len(st)
       PROVE  /\ st2[i] = st[i] /\ Len(st[i].path) \in Nat /\ Len(st[i].path) <= Len(id)
              /\ IsPrefix(st[i].path, id)
  <2>1. IsPrefix(st[i].path, id)  BY DEF Nested, PathsNest
  <2> QED  BY <1>7, <2>1, StackTypes DEF IsPrefix
<1>12. PathsNest(id2, st2, drop)
  <2>1. ASSUME NEW i \in 1..Len(st2)
        PROVE  /\ IsPrefix(st2[i].path, id2)
               /\ i <= 1 + Surplus(drop) => Len(st2[i].path) = 0 /\ st2[i].kind = "lbrace"
               /\ i > 1 + Surplus(drop) =>
                    Len(st2[i].path) > 0 /\ id2[Len(st2[i].path)] = Mark(st2[i].kind)
    <3>1. CASE i \in 1..Len(st)
      <4>1. /\ i <= 1 + Surplus(drop) => Len(st[i].path) = 0 /\ st[i].kind = "lbrace"
            /\ i > 1 + Surplus(drop) =>
                 Len(st[i].path) > 0 /\ id[Len(st[i].path)] = Mark(st[i].kind)
        BY <3>1 DEF Nested, PathsNest
      <4>2. IsPrefix(st2[i].path, id2)
        <5>1. IsPrefix(st[i].path, id) /\ Len(st[i].path) \in Nat /\ Len(st[i].path) <= Len(id)
          BY <1>11, <3>1
        <5>2. Len(st[i].path) <= Len(id2)  BY <1>1, <1>6, <5>1
        <5>3. \A k \in 1..Len(st[i].path) : k \in 1..Len(id)  BY <1>1, <5>1
        <5>4. \A k \in 1..Len(st[i].path) : st[i].path[k] = id2[k]
          BY <1>6, <5>1, <5>3 DEF IsPrefix
        <5> QED  BY <1>11, <3>1, <5>2, <5>4 DEF IsPrefix
      <4>3. i > 1 + Surplus(drop) => Len(st[i].path) \in 1..Len(id)  BY <1>1, <1>11, <3>1, <4>1
      <4> QED  BY <1>6, <1>11, <3>1, <4>1, <4>2, <4>3
    <3>2. CASE i = Len(st) + 1
      <4>1. i > 1 + Surplus(drop)  BY <1>1, <3>2
      <4>2. st2[i].path = id2 /\ st2[i].kind = e.kind  BY <1>7, <1>8, <3>2
      <4>3. IsPrefix(id2, id2)  BY <1>1, <1>6 DEF IsPrefix
      <4>4. Len(id2) > 0 /\ id2[Len(id2)] = Mark(st2[i].kind)  BY <1>1, <1>2, <1>6, <4>2
      <4> QED  BY <1>1, <3>2, <4>1, <4>2, <4>3, <4>4
    <3> QED  BY <1>9, <3>1, <3>2
  <2>2. ASSUME NEW i \in 1..Len(st2), NEW j \in 1..Len(st2), i < j, j > 1 + Surplus(drop)
        PROVE  Len(st2[i].path) < Len(st2[j].path)
    <3>1. i \in 1..Len(st)  BY <1>1, <1>7, <1>9, <2>2
    <3>2. CASE j \in 1..Len(st)
      <4>1. Len(st[i].path) < Len(st[j].path)  BY <2>2, <3>1, <3>2 DEF Nested, PathsNest
      <4> QED  BY <1>11, <3>1, <3>2, <4>1
    <3>3. CASE j = Len(st) + 1
      <4>1. st2[j].path = id2  BY <1>7, <1>8, <3>3
      <4> QED  BY <1>1, <1>6, <1>11, <3>1, <4>1
    <3> QED  BY <1>9, <3>2, <3>3
  <2> QED  BY <2>1, <2>2 DEF PathsNest
<1>13. MarksAreBrackets(id2, st2)
  <2>1. ASSUME NEW k \in 1..Len(id2), id2[k] \in Marks
        PROVE  \E i \in 1..Len(st2) : Len(st2[i].path) = k
    <3>1. CASE k \in 1..Len(id)
      <4>1. PICK i \in 1..Len(st) : Len(st[i].path) = k
        BY <1>6, <2>1, <3>1 DEF Nested, MarksAreBrackets
      <4>2. i \in 1..Len(st2)  BY <1>1, <1>7
      <4> QED  BY <1>11, <4>1, <4>2
    <3>2. CASE k = Len(id) + 1
      <4>1. Len(st) + 1 \in 1..Len(st2)  BY <1>1, <1>7
      <4> QED  BY <1>6, <1>7, <1>8, <3>2, <4>1
    <3> QED  BY <1>10, <3>1, <3>2
  <2>2. ASSUME NEW i \in 1..Len(st2), st2[i].kind = "lbracket"
        PROVE  Len(IF i < Len(st2) THEN st2[i + 1].path ELSE id2) =
                  Len(st2[i].path) + (IF i < Len(st2) THEN 1 ELSE 0)
    <3>1. CASE i \in 1..Len(st)
      <4>1. Len(IF i < Len(st) THEN st[i + 1].path ELSE id) =
               Len(st[i].path) + (IF i < Len(st) THEN 1 ELSE 0)
        BY <1>11, <2>2, <3>1 DEF Nested, MarksAreBrackets
      <4>2. i < Len(st2)  BY <1>1, <1>7, <3>1
      <4>3. CASE i < Len(st)
        <5>1. i + 1 \in 1..Len(st)  BY <1>1, <3>1, <4>3
        <5>2. Len(st[i + 1].path) = Len(st[i].path) + 1  BY <4>1, <4>3
        <5> QED  BY <1>11, <3>1, <4>2, <5>1, <5>2
      <4>4. CASE ~(i < Len(st))
        <5>1. i = Len(st)  BY <1>1, <3>1, <4>4
        <5>2. Len(id) = Len(st[i].path) + 0  BY <4>1, <4>4
        <5>3. st2[i + 1].path = id2  BY <1>7, <1>8, <5>1
        <5>4. Len(id2) = Len(st2[i].path) + 1  BY <1>1, <1>6, <1>11, <3>1, <5>2
        <5> QED  BY <4>2, <5>3, <5>4
      <4> QED  BY <4>3, <4>4
    <3>2. CASE i = Len(st) + 1
      <4>1. ~(i < Len(st2)) /\ st2[i].path = id2  BY <1>1, <1>7, <1>8, <3>2
      <4>2. Len(id2) = Len(st2[i].path) + 0  BY <1>1, <1>6, <4>1
      <4> QED  BY <4>1, <4>2
    <3> QED  BY <1>9, <3>1, <3>2
  <2> QED  BY <2>1, <2>2 DEF MarksAreBrackets
<1>14. NamesAreFirst(id2, drop, key)
  <2>1. \A k \in 1..Len(id2) : id2[k] \in Names => k = 1 /\ ~drop
    <3> SUFFICES ASSUME NEW k \in 1..Len(id2), id2[k] \in Names PROVE k = 1 /\ ~drop
      OBVIOUS
    <3>1. k \in 1..Len(id)  BY <1>5, <1>6, <1>10
    <3> QED  BY <1>6, <3>1 DEF Nested, NamesAreFirst
  <2>2. ASSUME Len(id2) > 1, id2[1] = "result"
        PROVE  id2[2] \in Marks /\ (id2[2] = "^" => key)
    <3>1. 1 \in 1..Len(id) /\ id[1] = "result"  BY <1>1, <1>6, <2>2
    <3>2. CASE Len(id) > 1
      <4>1. id2[2] = id[2]  BY <1>1, <1>6, <3>2
      <4> QED  BY <3>1, <3>2, <4>1 DEF Nested, NamesAreFirst
    <3>3. CASE Len(id) <= 1
      <4>1. Len(id) + 1 = 2  BY <1>1, <3>1, <3>3
      <4>2. id = <<"result">>  BY <1>1, <3>1, <3>3, SingleName
      <4>3. id2[2] = m  BY <1>6, <4>1
      <4>4. m = "^" => key  BY <1>5, <4>2
      <4> QED  BY <1>5, <4>3, <4>4
    <3> QED  BY <1>1, <3>2, <3>3
  <2> QED  BY <2>1, <2>2 DEF NamesAreFirst
<1>15. Len(st2) >= 1 + Surplus(drop)  BY <1>1, <1>7
<1> QED  BY <1>2, <1>3, <1>4, <1>6, <1>12, <1>13, <1>14, <1>15 DEF Nested

\* A name ends with the comma behind its value.
LEMMA NameEndNests ==
    ASSUME NEW id \in Seq(Pieces), NEW st \in Seq(Frames), NEW drop \in BOOLEAN, NEW key,
           Nested(id, st, drop, key), Top(st).kind = "lbrace",
           NEW id2 \in Seq(Pieces), Len(id2) = Len(Top(st).path),
           \A k \in 1..Len(id2) : id2[k] = id[k]
    PROVE  Nested(id2, st, drop, key)
<1>1. Len(st) \in Nat /\ Len(id) \in Nat /\ Surplus(drop) \in Nat /\ Len(id2) \in Nat
  BY SurplusNat
<1>2. PICK n : n = Len(st)  OBVIOUS
<1>3. n \in 1..Len(st) /\ Top(st) = st[n] /\ Len(st[n].path) \in 0..Len(id)
  BY <1>2, TopIsLast DEF Top
<1>4. ASSUME NEW i \in 1..Len(st)
      PROVE  Len(st[i].path) \in Nat /\ Len(st[i].path) <= Len(id2)
  <2>1. Len(st[i].path) \in Nat  BY StackTypes
  <2>2. CASE i = n  BY <1>1, <1>3, <2>1, <2>2
  <2>3. CASE i # n /\ n > 1 + Surplus(drop)
    <3>1. i < n  BY <1>1, <1>2, <2>3
    <3>2. Len(st[i].path) < Len(st[n].path)  BY <1>3, <2>3, <3>1 DEF Nested, PathsNest
    <3> QED  BY <1>1, <1>3, <2>1, <3>2
  <2>4. CASE n <= 1 + Surplus(drop)
    <3>1. i <= 1 + Surplus(drop)  BY <1>1, <1>2, <2>4
    <3>2. Len(st[i].path) = 0  BY <3>1 DEF Nested, PathsNest
    <3> QED  BY <1>1, <3>2
  <2> QED  BY <1>1, <1>3, <2>2, <2>3, <2>4
<1>5. PathsNest(id2, st, drop)
  <2>1. ASSUME NEW i \in 1..Len(st)
        PROVE  /\ IsPrefix(st[i].path, id2)
               /\ i > 1 + Surplus(drop) => id2[Len(st[i].path)] = Mark(st[i].kind)
    <3>1. /\ IsPrefix(st[i].path, id)
          /\ i > 1 + Surplus(drop) =>
               Len(st[i].path) > 0 /\ id[Len(st[i].path)] = Mark(st[i].kind)
      BY DEF Nested, PathsNest
    <3>2. IsPrefix(st[i].path, id2)  BY <1>1, <1>4, <3>1 DEF IsPrefix
    <3>3. i > 1 + Surplus(drop) => Len(st[i].path) \in 1..Len(id2)  BY <1>1, <1>4, <3>1
    <3> QED  BY <3>1, <3>2, <3>3
  <2> QED  BY <2>1 DEF Nested, PathsNest
<1>6. MarksAreBrackets(id2, st)
  <2>1. \A k \in 1..Len(id2) : k \in 1..Len(id)  BY <1>1, <1>3
  <2>2. ASSUME NEW k \in 1..Len(id2), id2[k] \in Marks
        PROVE  \E i \in 1..Len(st) : Len(st[i].path) = k
    BY <2>1, <2>2 DEF Nested, MarksAreBrackets
  <2>3. ASSUME NEW i \in 1..Len(st), st[i].kind = "lbracket"
        PROVE  Len(IF i < Len(st) THEN st[i + 1].path ELSE id2) =
                  Len(st[i].path) + (IF i < Len(st) THEN 1 ELSE 0)
    <3>1. i < Len(st)  BY <1>1, <1>2, <1>3, <2>3
    <3>2. Len(IF i < Len(st) THEN st[i + 1].path ELSE id) =
             Len(st[i].path) + (IF i < Len(st) THEN 1 ELSE 0)
      BY <2>3 DEF Nested, MarksAreBrackets
    <3> QED  BY <3>1, <3>2
  <2> QED  BY <2>2, <2>3 DEF MarksAreBrackets
<1>7. NamesAreFirst(id2, drop, key)
  <2>1. \A k \in 1..Len(id2) : k \in 1..Len(id)  BY <1>1, <1>3
  <2>2. \A k \in 1..Len(id2) : id2[k] \in Names => k = 1 /\ ~drop
    BY <2>1 DEF Nested, NamesAreFirst
  <2>3. Len(id2) > 1 => Len(id) > 1 /\ id2[1] = id[1] /\ id2[2] = id[2]
    BY <1>1, <1>3
  <2>4. Len(id2) > 1 /\ id2[1] = "result" => id2[2] \in Marks /\ (id2[2] = "^" => key)
    BY <2>3 DEF Nested, NamesAreFirst
  <2> QED  BY <2>2, <2>4 DEF NamesAreFirst
<1> QED  BY <1>5, <1>6, <1>7 DEF Nested

\* A character of a name.
LEMMA NameNests ==
    ASSUME NEW id \in Seq(Pieces), NEW st \in Seq(Frames), NEW drop \in BOOLEAN, NEW key,
           Nested(id, st, drop, key), Top(st).kind = "lbrace",
           NEW p \in Names \cup {"x"}, p \in Names => id = <<>> /\ Len(st) <= 1,
           id # <<"result">>
    PROVE  Append(id, p) \in Seq(Pieces) /\ Nested(Append(id, p), st, drop, key)
<1>1. Len(st) \in Nat /\ Len(id) \in Nat /\ Surplus(drop) \in Nat
      /\ Len(st) >= 1 + Surplus(drop)
  BY SurplusNat DEF Nested
<1>2. PICK n : n = Len(st)  OBVIOUS
<1>3. n \in 1..Len(st) /\ Top(st) = st[n]  BY <1>2, TopIsLast DEF Top
<1>4. PICK id2 : id2 = Append(id, p)  OBVIOUS
<1>5. p \in Pieces /\ p \notin Marks  BY DEF Pieces, Marks, Names
<1>6. /\ id2 \in Seq(Pieces) /\ Len(id2) = Len(id) + 1 /\ id2[Len(id) + 1] = p
      /\ \A k \in 1..Len(id) : id2[k] = id[k]
  BY <1>4, <1>5, AppendFacts
<1>7. \A k \in 1..Len(id2) : k \in 1..Len(id) \/ k = Len(id) + 1  BY <1>1, <1>6
<1>8. PathsNest(id2, st, drop)
  <2>1. ASSUME NEW i \in 1..Len(st)
        PROVE  /\ IsPrefix(st[i].path, id2)
               /\ i > 1 + Surplus(drop) => id2[Len(st[i].path)] = Mark(st[i].kind)
    <3>1. /\ IsPrefix(st[i].path, id)
          /\ i > 1 + Surplus(drop) =>
               Len(st[i].path) > 0 /\ id[Len(st[i].path)] = Mark(st[i].kind)
      BY DEF Nested, PathsNest
    <3>2. Len(st[i].path) \in Nat  BY StackTypes
    <3>3. IsPrefix(st[i].path, id2)  BY <1>1, <1>6, <3>1, <3>2 DEF IsPrefix
    <3>4. i > 1 + Surplus(drop) => Len(st[i].path) \in 1..Len(id)
      BY <1>1, <3>1, <3>2 DEF IsPrefix
    <3> QED  BY <1>6, <3>1, <3>3, <3>4
  <2> QED  BY <2>1 DEF Nested, PathsNest
<1>9. MarksAreBrackets(id2, st)
  <2>1. ASSUME NEW k \in 1..Len(id2), id2[k] \in Marks
        PROVE  \E i \in 1..Len(st) : Len(st[i].path) = k
    <3>1. k \in 1..Len(id)  BY <1>5, <1>6, <1>7, <2>1
    <3> QED  BY <1>6, <2>1, <3>1 DEF Nested, MarksAreBrackets
  <2>2. ASSUME NEW i \in 1..Len(st), st[i].kind = "lbracket"
        PROVE  Len(IF i < Len(st) THEN st[i + 1].path ELSE id2) =
                  Len(st[i].path) + (IF i < Len(st) THEN 1 ELSE 0)
    <3>1. i < Len(st)  BY <1>1, <1>2, <1>3, <2>2
    <3>2. Len(IF i < Len(st) THEN st[i + 1].path ELSE id) =
             Len(st[i].path) + (IF i < Len(st) THEN 1 ELSE 0)
      BY <2>2 DEF Nested, MarksAreBrackets
    <3> QED  BY <3>1, <3>2
  <2> QED  BY <2>1, <2>2 DEF MarksAreBrackets
<1>10. NamesAreFirst(id2, drop, key)
  <2>1. \A k \in 1..Len(id2) : id2[k] \in Names => k = 1 /\ ~drop
    <3> SUFFICES ASSUME NEW k \in 1..Len(id2), id2[k] \in Names PROVE k = 1 /\ ~drop
      OBVIOUS
    <3>1. CASE k \in 1..Len(id)  BY <1>6, <3>1 DEF Nested, NamesAreFirst
    <3>2. CASE k = Len(id) + 1
      <4>1. id = <<>> /\ Len(st) <= 1  BY <1>6, <3>2
      <4>2. k = 1  BY <3>2, <4>1
      <4>3. Surplus(drop) # 1  BY <1>1, <4>1
      <4> QED  BY <4>2, <4>3 DEF Surplus
    <3> QED  BY <1>7, <3>1, <3>2
  <2>2. ASSUME Len(id2) > 1, id2[1] = "result"
        PROVE  id2[2] \in Marks /\ (id2[2] = "^" => key)
    <3>1. 1 \in 1..Len(id) /\ id[1] = "result"  BY <1>1, <1>6, <2>2
    <3>2. Len(id) > 1
      <4> SUFFICES ASSUME Len(id) <= 1 PROVE FALSE  BY <1>1
      <4>1. id = <<"result">>  BY <1>1, <3>1, SingleName
      <4> QED  BY <4>1
    <3>3. id2[2] = id[2]  BY <1>1, <1>6, <3>2
    <3> QED  BY <3>1, <3>2, <3>3 DEF Nested, NamesAreFirst
  <2> QED  BY <2>1, <2>2 DEF NamesAreFirst
<1> QED  BY <1>1, <1>4, <1>6, <1>8, <1>9, <1>10 DEF Nested

-----------------------------------------------------------------------------
(* The indices of the arrays.                                               *)

LEMMA IndexedAlike ==
    ASSUME NEW st \in Seq(Frames), NEW st2 \in Seq(Frames), NEW indices, NEW depth,
           Len(st) >= 1, Len(st2) = Len(st),
           \A i \in 1..Len(st) : /\ st2[i].kind = st[i].kind /\ st2[i].depth = st[i].depth
                                 /\ st2[i].elements = st[i].elements,
           Indexed(st, indices, depth)
    PROVE  Indexed(st2, indices, depth)
<1>1. Len(st) \in 1..Len(st) /\ 1 \in 1..Len(st)  OBVIOUS
<1>2. DepthsCount(st2)  BY <1>1 DEF Indexed, DepthsCount
<1>3. Counts(st2, indices)  BY DEF Indexed, Counts
<1> QED  BY <1>1, <1>2, <1>3 DEF Indexed, Top

\* An array is not the first bracket, and has an index.
LEMMA ArrayHasIndex ==
    ASSUME NEW st \in Seq(Frames), NEW i \in 1..Len(st), st[1].kind = "lbrace",
           DepthsCount(st), st[i].kind = "lbracket"
    PROVE  st[i].depth >= 1
<1>1. 1 \in 1..Len(st) /\ i # 1  OBVIOUS
<1>2. 1 < i  OBVIOUS
<1>3. st[1].depth = 0 /\ st[1].depth < st[i].depth  BY <1>1, <1>2 DEF DepthsCount
<1>4. st[i].depth \in Nat  BY StackTypes
<1> QED  BY <1>3, <1>4

LEMMA OpeningIndexed ==
    ASSUME NEW st \in Seq(Frames), NEW e \in Frames, NEW indices \in [Slots -> Nat],
           NEW depth \in 0..MaxArrayNesting, Len(st) >= 1, st[1].kind = "lbrace",
           Indexed(st, indices, depth), e.elements = 0,
           e.depth = depth + (IF e.kind = "lbracket" THEN 1 ELSE 0),
           NEW indices2,
           indices2 = IF e.kind = "lbracket" THEN [indices EXCEPT ![depth] = 0] ELSE indices,
           e.kind = "lbracket" => depth < MaxArrayNesting
    PROVE  Indexed(Append(st, e), indices2, e.depth)
<1>1. Len(st) \in Nat /\ depth \in Nat /\ MaxArrayNesting \in Nat  BY ParserAssumption
<1>2. PICK st2 : st2 = Append(st, e)  OBVIOUS
<1>3. /\ st2 \in Seq(Frames) /\ Len(st2) = Len(st) + 1 /\ st2[Len(st) + 1] = e
      /\ \A i \in 1..Len(st) : st2[i] = st[i]
  BY <1>2, AppendFacts
<1>4. \A i \in 1..Len(st2) : i \in 1..Len(st) \/ i = Len(st) + 1  BY <1>1, <1>3
<1>5. Len(st) \in 1..Len(st) /\ depth = st[Len(st)].depth  BY <1>1 DEF Indexed, Top
<1>6. ASSUME NEW i \in 1..Len(st) PROVE st[i].depth \in Nat /\ st[i].depth <= depth
  <2>1. st[i].depth \in Nat  BY StackTypes
  <2>2. CASE i = Len(st)  BY <1>5, <2>1, <2>2
  <2>3. CASE i < Len(st)  BY <1>5, <2>1, <2>3 DEF Indexed, DepthsCount
  <2> QED  BY <1>1, <2>2, <2>3
<1>7. DepthsCount(st2)
  <2>1. st2[1].depth = 0
    <3>1. 1 \in 1..Len(st)  BY <1>1
    <3> QED  BY <1>3, <3>1 DEF Indexed, DepthsCount
  <2>2. ASSUME NEW i \in 1..Len(st2), NEW j \in 1..Len(st2)
        PROVE  /\ i < j => st2[i].depth <= st2[j].depth
               /\ i < j /\ st2[j].kind = "lbracket" => st2[i].depth < st2[j].depth
               /\ j = i + 1 =>
                    st2[j].depth =
                      st2[i].depth + (IF st2[j].kind = "lbracket" THEN 1 ELSE 0)
    <3>1. CASE i < j \/ j = i + 1
      <4>1. i \in 1..Len(st)  BY <1>1, <1>3, <3>1
      <4>2. CASE j \in 1..Len(st)  BY <1>3, <4>1, <4>2 DEF Indexed, DepthsCount
      <4>3. CASE j = Len(st) + 1
        <5>1. st2[j] = e /\ st2[i] = st[i]  BY <1>3, <4>1, <4>3
        <5>2. st[i].depth \in Nat /\ st[i].depth <= depth  BY <1>6, <4>1
        <5>3. j = i + 1 => st[i].depth = depth  BY <1>1, <1>5, <4>1, <4>3
        <5>4. CASE e.kind = "lbracket"  BY <1>1, <5>1, <5>2, <5>3, <5>4
        <5>5. CASE e.kind # "lbracket"  BY <1>1, <5>1, <5>2, <5>3, <5>5
        <5> QED  BY <5>4, <5>5
      <4> QED  BY <1>4, <4>2, <4>3
    <3>2. CASE ~(i < j \/ j = i + 1)  BY <3>2
    <3> QED  BY <3>1, <3>2
  <2> QED  BY <2>1, <2>2 DEF DepthsCount
<1>8. ASSUME NEW i \in 1..Len(st2), st2[i].kind = "lbracket"
      PROVE  indices2[st2[i].depth - 1] = st2[i].elements
  <2>1. CASE i \in 1..Len(st)
    <3>1. st[i].kind = "lbracket" /\ st2[i] = st[i]  BY <1>3, <1>8, <2>1
    <3>2. indices[st[i].depth - 1] = st[i].elements  BY <2>1, <3>1 DEF Indexed, Counts
    <3>3. st[i].depth >= 1 /\ st[i].depth \in Nat /\ st[i].depth <= depth
      BY <1>6, <2>1, <3>1, ArrayHasIndex DEF Indexed
    <3>4. indices2[st[i].depth - 1] = indices[st[i].depth - 1]
      <4>1. PICK d : d = st[i].depth  OBVIOUS
      <4>2. d >= 1 /\ d \in Nat /\ d <= depth /\ depth \in 0..MaxArrayNesting
        BY <1>1, <3>3, <4>1
      <4>3. d - 1 \in Slots /\ d - 1 # depth  BY <1>1, <4>2 DEF Slots
      <4> QED  BY <4>1, <4>3
    <3> QED  BY <3>1, <3>2, <3>4
  <2>2. CASE i = Len(st) + 1
    <3>1. st2[i] = e /\ e.kind = "lbracket"  BY <1>3, <1>8, <2>2
    <3>2. e.depth - 1 = depth /\ depth \in Slots
      <4>1. e.depth = depth + 1 /\ depth < MaxArrayNesting  BY <3>1
      <4> QED  BY <1>1, <4>1 DEF Slots
    <3>3. indices2[depth] = 0  BY <3>1, <3>2
    <3> QED  BY <3>1, <3>2, <3>3
  <2> QED  BY <1>4, <2>1, <2>2
<1>9. Top(st2) = e  BY <1>3 DEF Top
<1> QED  BY <1>2, <1>7, <1>8, <1>9 DEF Indexed, Counts

LEMMA ClosingIndexed ==
    ASSUME NEW st \in Seq(Frames), NEW indices, NEW depth, NEW indices2,
           Len(st) > 1, st[1].kind = "lbrace", Indexed(st, indices, depth),
           \A d \in Nat : (Top(st).kind = "lbracket" /\ d = depth - 1) \/ indices2[d] = indices[d]
    PROVE  /\ Indexed(Pop(st), indices2, Top(Pop(st)).depth)
           /\ depth \in Nat
           /\ Top(st).kind = "lbracket" => depth # 0
           /\ Top(Pop(st)).depth = depth - (IF Top(st).kind = "lbracket" THEN 1 ELSE 0)
<1>1. PICK n \in Nat : n = Len(st)  OBVIOUS
<1>2. PICK p : p = Pop(st)  OBVIOUS
<1>3. p \in Seq(Frames) /\ Len(p) = n - 1 /\ \A i \in 1..(n - 1) : p[i] = st[i]
  BY <1>1, <1>2, PopFacts
<1>4. n > 1 /\ n \in 1..Len(st) /\ n - 1 \in 1..Len(st) /\ n - 1 \in 1..Len(p)
  BY <1>1, <1>3
<1>5. \A i \in 1..Len(p) : i \in 1..Len(st) /\ i < n /\ p[i] = st[i]
  <2> TAKE i \in 1..Len(p)
  <2>1. i \in 1..(n - 1)  BY <1>3
  <2> QED  BY <1>1, <1>3, <2>1
<1>6. Top(st) = st[n] /\ Top(p) = st[n - 1] /\ depth = st[n].depth
  BY <1>1, <1>3, <1>4, <1>5 DEF Top, Indexed
<1>7. st[n].depth \in Nat /\ st[n - 1].depth \in Nat  BY <1>4, StackTypes
<1>8. st[n].depth = st[n - 1].depth + (IF st[n].kind = "lbracket" THEN 1 ELSE 0)
  <2>1. n = (n - 1) + 1  BY <1>1
  <2> QED  BY <1>4, <2>1 DEF Indexed, DepthsCount
<1>9. DepthsCount(p)
  <2>1. 1 \in 1..Len(p)  BY <1>1, <1>3, <1>4
  <2> QED  BY <1>5, <2>1 DEF Indexed, DepthsCount
<1>10. ASSUME NEW i \in 1..Len(p), p[i].kind = "lbracket"
       PROVE  indices2[p[i].depth - 1] = p[i].elements
  <2>1. st[i].kind = "lbracket" /\ i \in 1..Len(st)  BY <1>5, <1>10
  <2>2. indices[st[i].depth - 1] = st[i].elements  BY <2>1 DEF Indexed, Counts
  <2>3. st[i].depth \in Nat /\ st[i].depth >= 1  BY <2>1, StackTypes, ArrayHasIndex DEF Indexed
  <2>4. st[n].kind = "lbracket" => st[i].depth < st[n].depth
    BY <1>4, <1>5, <2>1 DEF Indexed, DepthsCount
  <2>5. st[i].depth - 1 \in Nat  BY <2>3
  <2>6. ~(st[n].kind = "lbracket" /\ st[i].depth - 1 = depth - 1)  BY <1>6, <1>7, <2>3, <2>4
  <2>7. indices2[st[i].depth - 1] = indices[st[i].depth - 1]  BY <1>6, <2>5, <2>6
  <2> QED  BY <1>5, <2>2, <2>7
<1>11. Indexed(p, indices2, Top(p).depth)  BY <1>9, <1>10 DEF Indexed, Counts
<1>12. CASE st[n].kind = "lbracket"
  <2>1. st[n].depth = st[n - 1].depth + 1  BY <1>8, <1>12
  <2> QED  BY <1>2, <1>6, <1>7, <1>11, <1>12, <2>1
<1>13. CASE st[n].kind # "lbracket"
  <2>1. st[n].depth = st[n - 1].depth + 0  BY <1>8, <1>13
  <2> QED  BY <1>2, <1>6, <1>7, <1>11, <1>13, <2>1
<1> QED  BY <1>12, <1>13

\* The next element of an array.
CountTop(st) == Append(Pop(st), Counted(Top(st)))

LEMMA CountTopFacts ==
    ASSUME NEW st \in Seq(Frames), Len(st) >= 1
    PROVE  /\ CountTop(st) \in Seq(Frames) /\ Len(CountTop(st)) = Len(st)
           /\ \A i \in 1..Len(st) :
                /\ CountTop(st)[i].kind = st[i].kind /\ CountTop(st)[i].path = st[i].path
                /\ CountTop(st)[i].depth = st[i].depth
                /\ CountTop(st)[i].elements =
                     st[i].elements + (IF i = Len(st) THEN 1 ELSE 0)
<1>1. PICK n \in Nat : n = Len(st)  OBVIOUS
<1>2. PICK p : p = Pop(st)  OBVIOUS
<1>3. p \in Seq(Frames) /\ Len(p) = n - 1 /\ \A i \in 1..(n - 1) : p[i] = st[i]
  BY <1>1, <1>2, PopFacts
<1>4. n >= 1 /\ n \in 1..Len(st) /\ Top(st) = st[n]  BY <1>1 DEF Top
<1>5. st[n] \in Frames /\ st[n].elements \in Nat  BY <1>4, StackTypes
<1>6. /\ Counted(st[n]) \in Frames /\ Counted(st[n]).kind = st[n].kind
      /\ Counted(st[n]).path = st[n].path /\ Counted(st[n]).depth = st[n].depth
      /\ Counted(st[n]).elements = st[n].elements + 1
  <2>1. PICK f \in Frames : f = st[n]  BY <1>5
  <2>2. PICK k \in Nat : k = f.elements + 1  BY <1>5, <2>1
  <2>3. Counted(f) = [f EXCEPT !.elements = k]  BY <2>2 DEF Counted
  <2>4. [f EXCEPT !.elements = k] \in Frames  BY DEF Frames
  <2> QED  BY <2>1, <2>2, <2>3, <2>4 DEF Frames
<1>7. PICK e : e = Counted(st[n])  OBVIOUS
<1>8. PICK c : c = Append(p, e)  OBVIOUS
<1>9. /\ c \in Seq(Frames) /\ Len(c) = (n - 1) + 1 /\ c[(n - 1) + 1] = e
      /\ \A i \in 1..(n - 1) : c[i] = p[i]
  BY <1>3, <1>6, <1>7, <1>8, AppendFacts
<1>10. (n - 1) + 1 = n /\ CountTop(st) = c  BY <1>2, <1>4, <1>7, <1>8 DEF CountTop
<1>11. ASSUME NEW i \in 1..Len(st)
       PROVE  /\ c[i].kind = st[i].kind /\ c[i].path = st[i].path /\ c[i].depth = st[i].depth
              /\ c[i].elements = st[i].elements + (IF i = Len(st) THEN 1 ELSE 0)
  <2>1. CASE i = n  BY <1>1, <1>6, <1>7, <1>9, <1>10, <2>1
  <2>2. CASE i # n
    <3>1. i \in 1..(n - 1)  BY <1>1, <2>2
    <3>2. c[i] = st[i]  BY <1>3, <1>9, <3>1
    <3>3. st[i].elements \in Nat  BY StackTypes
    <3>4. st[i].elements = st[i].elements + 0  BY <3>3
    <3> QED  BY <1>1, <2>2, <3>2, <3>4
  <2> QED  BY <2>1, <2>2
<1> QED  BY <1>1, <1>9, <1>10, <1>11

LEMMA CountingIndexed ==
    ASSUME NEW st \in Seq(Frames), NEW indices \in [Slots -> Nat],
           NEW depth \in 0..MaxArrayNesting, Len(st) >= 1, st[1].kind = "lbrace",
           Indexed(st, indices, depth), Top(st).kind = "lbracket"
    PROVE  Indexed(CountTop(st), [indices EXCEPT ![depth - 1] = @ + 1], depth)
<1>1. PICK n \in Nat : n = Len(st)  OBVIOUS
<1>2. PICK c : c = CountTop(st)  OBVIOUS
<1>3. n >= 1 /\ n \in 1..Len(st) /\ Top(st) = st[n] /\ Top(c) = c[n]
  BY <1>1, <1>2, CountTopFacts DEF Top
<1>4. /\ c \in Seq(Frames) /\ Len(c) = Len(st)
      /\ \A i \in 1..Len(st) :
           /\ c[i].kind = st[i].kind /\ c[i].depth = st[i].depth
           /\ c[i].elements = st[i].elements + (IF i = Len(st) THEN 1 ELSE 0)
  BY <1>2, CountTopFacts
<1>5. DepthsCount(c)
  <2>1. 1 \in 1..Len(st)  BY <1>1, <1>3
  <2> QED  BY <1>4, <2>1 DEF Indexed, DepthsCount
<1>6. depth = st[n].depth /\ depth \in Nat /\ depth >= 1 /\ MaxArrayNesting \in Nat
  BY <1>3, ArrayHasIndex, ParserAssumption DEF Indexed
<1>7. depth - 1 \in Slots  BY <1>6 DEF Slots
<1>8. PICK indices2 : indices2 = [indices EXCEPT ![depth - 1] = @ + 1]  OBVIOUS
<1>9. ASSUME NEW i \in 1..Len(st), st[i].kind = "lbracket"
      PROVE  indices2[st[i].depth - 1] = c[i].elements
  <2>1. indices[st[i].depth - 1] = st[i].elements  BY <1>9 DEF Indexed, Counts
  <2>2. CASE i = n
    <3>1. indices2[depth - 1] = indices[depth - 1] + 1  BY <1>7, <1>8
    <3>2. c[i].elements = st[i].elements + 1  BY <1>1, <1>4, <2>2
    <3> QED  BY <1>6, <2>1, <2>2, <3>1, <3>2
  <2>3. CASE i # n
    <3>1. i < n  BY <1>1, <2>3
    <3>2. st[i].depth < st[n].depth  BY <1>3, <3>1 DEF Indexed, DepthsCount
    <3>3. st[i].depth \in Nat /\ st[i].depth >= 1
      BY <1>9, StackTypes, ArrayHasIndex DEF Indexed
    <3>8. st[i].depth < depth /\ depth <= MaxArrayNesting  BY <1>6, <3>2
    <3>4. st[i].depth - 1 \in Slots /\ st[i].depth - 1 # depth - 1
      <4>1. \A a, b, m \in Nat :
               a >= 1 /\ a < b /\ b <= m => a - 1 \in 0..(m - 1) /\ a - 1 # b - 1
        OBVIOUS
      <4> QED  BY <1>6, <3>3, <3>8, <4>1 DEF Slots
    <3>5. indices2[st[i].depth - 1] = indices[st[i].depth - 1]  BY <1>8, <3>4
    <3>6. c[i].elements = st[i].elements + 0  BY <1>1, <1>4, <2>3
    <3>7. st[i].elements \in Nat  BY StackTypes
    <3> QED  BY <2>1, <3>5, <3>6, <3>7
  <2> QED  BY <2>2, <2>3
<1>10. Counts(c, indices2)  BY <1>4, <1>9 DEF Counts
<1>11. depth = Top(c).depth  BY <1>3, <1>4, <1>6
<1> QED  BY <1>2, <1>5, <1>8, <1>10, <1>11 DEF Indexed

-----------------------------------------------------------------------------
(* The reader, and the parser's state after a callback.                     *)

LEMMA ReadPlain ==
    ASSUME NEW st, NEW c, c \notin {"newline", "lbrace", "rbrace", "lbracket", "rbracket", "comma"}
    PROVE  Read(c, st) = st
BY DEF Read

LEMMA ReadInText ==
    ASSUME NEW st, NEW c, c # "newline", InText
    PROVE  Read(c, st) = st
BY DEF Read, InText

LEMMA ReadBrackets ==
    ASSUME NEW st, Inside, ~InText
    PROVE  /\ Read("comma", st) = IF Top(st).kind = "lbracket" THEN CountTop(st) ELSE st
           /\ st # <<>> =>
                /\ Read("rbrace", st) = IF Top(st).kind = "lbrace" THEN Pop(st) ELSE st
                /\ Read("rbracket", st) = IF Top(st).kind = "lbracket" THEN Pop(st) ELSE st
           /\ Read("lbrace", st) = Append(st, Frame("lbrace", Top(st).depth + 0, fieldId'))
           /\ Read("lbracket", st) = Append(st, Frame("lbracket", Top(st).depth + 1, fieldId'))
<1>1. state # "jsBegin" /\ state # "jsError"  BY DEF Inside
<1> QED  BY <1>1 DEF Read, CountTop, Closes

LEMMA FrameType ==
    ASSUME NEW kind \in {"lbrace", "lbracket"}, NEW depth \in Nat, NEW path \in Seq(Pieces)
    PROVE  /\ Frame(kind, depth, path) \in Frames /\ Frame(kind, depth, path).kind = kind
           /\ Frame(kind, depth, path).depth = depth /\ Frame(kind, depth, path).path = path
           /\ Frame(kind, depth, path).elements = 0
BY DEF Frame, Frames

LEMMA ReadType ==
    ASSUME NEW st \in Seq(Frames), Len(st) >= 1, NEW c \in Chars, fieldId' \in Seq(Pieces),
           state # "jsBegin"
    PROVE  Read(c, st) \in Seq(Frames)
<1>1. Len(st) \in 1..Len(st) /\ Len(st) > 0 /\ st # <<>>  OBVIOUS
<1>2. Top(st).depth \in Nat  BY <1>1, StackTypes DEF Top
<1>3. Pop(st) \in Seq(Frames)  BY <1>1, PopFacts
<1>4. CountTop(st) \in Seq(Frames)  BY CountTopFacts
<1>5. ASSUME NEW kind \in {"lbrace", "lbracket"}, NEW depth \in Nat
      PROVE  Append(st, Frame(kind, depth, fieldId')) \in Seq(Frames)
  BY <1>5, FrameType, AppendFacts
<1>6. Append(st, Frame("lbrace", Top(st).depth + 0, fieldId')) \in Seq(Frames)
      /\ Append(st, Frame("lbracket", Top(st).depth + 1, fieldId')) \in Seq(Frames)
  <2>1. Top(st).depth + 0 \in Nat /\ Top(st).depth + 1 \in Nat  BY <1>2
  <2> QED  BY <1>5, <2>1
<1>7. <<>> \in Seq(Frames)  OBVIOUS
<1>8. CASE InText /\ c # "newline"  BY <1>8, ReadInText
<1>9. CASE c = "newline"  BY <1>7, <1>9 DEF Read
<1>10. CASE ~InText /\ c # "newline"
  <2>1. Inside  BY <1>10 DEF Inside, InText
  <2>2. CASE c \in {"lbrace", "rbrace", "lbracket", "rbracket", "comma"}
    <3>1. CASE c = "lbrace" \/ c = "lbracket"  BY <1>6, <1>10, <2>1, <3>1, ReadBrackets
    <3>2. CASE c = "comma"  BY <1>4, <1>10, <2>1, <3>2, ReadBrackets
    <3>3. CASE c = "rbrace" \/ c = "rbracket"
      BY <1>1, <1>3, <1>10, <2>1, <3>3, ReadBrackets
    <3> QED  BY <2>2, <3>1, <3>2, <3>3
  <2>3. CASE c \notin {"lbrace", "rbrace", "lbracket", "rbracket", "comma"}
    BY <1>10, <2>3, ReadPlain
  <2> QED  BY <2>2, <2>3
<1> QED  BY <1>8, <1>9, <1>10

\* An array is where the name ends with its mark.
LEMMA EndsWithMark ==
    ASSUME NEW id \in Seq(Pieces), NEW st \in Seq(Frames), NEW drop \in BOOLEAN, NEW key,
           Nested(id, st, drop, key)
    PROVE  EndsWith(id, "^") <=> Top(st).kind = "lbracket"
<1>1. Len(id) \in Nat /\ (id # <<>> <=> Len(id) > 0)  OBVIOUS
<1>2. Len(Top(st).path) \in 0..Len(id)  BY TopIsLast
<1>3. ASSUME EndsWith(id, "^") PROVE Top(st).kind = "lbracket"
  <2>1. Len(id) > 0 /\ id[Len(id)] = "^" /\ id[Len(id)] \in Marks
    BY <1>1, <1>3 DEF EndsWith, Marks
  <2>2. Len(id) \notin (Len(Top(st).path) + 1)..Len(id)  BY <2>1, TopIsLast
  <2>3. Len(Top(st).path) = Len(id)  BY <1>1, <1>2, <2>2
  <2>4. Len(Top(st).path) # 0  BY <2>1, <2>3
  <2>5. id[Len(Top(st).path)] = Mark(Top(st).kind)
    <3>1. Len(st) \in Nat /\ Surplus(drop) \in Nat  BY SurplusNat
    <3>2. ~(Len(st) <= 1 + Surplus(drop))  BY <2>4, TopIsLast
    <3>3. Len(st) > 1 + Surplus(drop)  BY <3>1, <3>2
    <3> QED  BY <3>3, TopIsLast
  <2> QED  BY <2>1, <2>3, <2>5 DEF Mark
<1>4. ASSUME Top(st).kind = "lbracket" PROVE EndsWith(id, "^")
  <2>1. Len(Top(st).path) = Len(id)  BY <1>4, TopIsLast
  <2>2. Len(st) > 1 + Surplus(drop)
    <3>1. Len(st) \in Nat /\ Surplus(drop) \in Nat  BY SurplusNat
    <3>2. ~(Len(st) <= 1 + Surplus(drop))  BY <1>4, TopIsLast
    <3> QED  BY <3>1, <3>2
  <2>3. Len(id) > 0 /\ id[Len(id)] = "^"  BY <1>4, <2>1, <2>2, TopIsLast DEF Mark
  <2> QED  BY <1>1, <2>3 DEF EndsWith
<1> QED  BY <1>3, <1>4

LEMMA InsideFacts ==
    ASSUME ParserInv, Inside
    PROVE  /\ fieldId \in Seq(Pieces) /\ Len(fieldId) <= MaxId /\ open \in Seq(Frames)
           /\ keyed \in BOOLEAN /\ dropped \in BOOLEAN
           /\ Nested(fieldId, open, dropped, keyed) /\ Indexed(open, arrayIndices, arrayDepth)
           /\ Len(open) >= 1 /\ open # <<>> /\ open[1].kind = "lbrace"
           /\ InArray <=> Top(open).kind = "lbracket"
           /\ Top(open).kind = "lbrace" \/ Top(open).kind = "lbracket"
           /\ Top(open).depth = arrayDepth
<1>1. /\ fieldId \in Seq(Pieces) /\ Len(fieldId) <= MaxId /\ open \in Seq(Frames)
      /\ keyed \in BOOLEAN /\ dropped \in BOOLEAN
      /\ Nested(fieldId, open, dropped, keyed) /\ Indexed(open, arrayIndices, arrayDepth)
  BY DEF ParserInv, InsideInv, TypeOK
<1>2. Len(open) >= 1 /\ 1 \in 1..Len(open) /\ Len(open) \in 1..Len(open)  BY <1>1, TopIsLast
<1>3. open # <<>>  BY <1>2
<1>4. open[1].kind = "lbrace"
  <2>1. Surplus(dropped) \in Nat  BY <1>1, SurplusNat
  <2>2. 1 <= 1 + Surplus(dropped)  BY <2>1
  <2> QED  BY <1>1, <1>2, <2>2 DEF Nested, PathsNest
<1>5. InArray <=> Top(open).kind = "lbracket"  BY <1>1, EndsWithMark DEF InArray
<1>6. Top(open).kind = "lbrace" \/ Top(open).kind = "lbracket"  BY <1>1, <1>2, StackTypes DEF Top
<1> QED  BY <1>1, <1>2, <1>3, <1>4, <1>5, <1>6 DEF Indexed

LEMMA CallbackKeeps ==
    ASSUME ParserInv, Inside, NEW p \in BOOLEAN, NEW key \in KeyedAfter(p)
    PROVE  /\ Path(p) \in Seq(Pieces) /\ Len(Path(p)) <= MaxId
           /\ Stack(p) \in Seq(Frames) /\ Len(Stack(p)) = Len(open) /\ Len(Stack(p)) >= 1
           /\ key \in BOOLEAN /\ DroppedAfter(p) \in BOOLEAN
           /\ Nested(Path(p), Stack(p), DroppedAfter(p), key)
           /\ Indexed(Stack(p), arrayIndices, arrayDepth)
           /\ Stack(p)[1].kind = "lbrace" /\ Top(Stack(p)).kind = Top(open).kind
<1>1. CASE p
  <2>1. RenamedFrames \in Seq(Frames) /\ Len(RenamedFrames) = Len(open)
        /\ \A i \in 1..Len(open) :
             /\ RenamedFrames[i].kind = open[i].kind
             /\ RenamedFrames[i].elements = open[i].elements
             /\ RenamedFrames[i].depth = open[i].depth
    BY InsideFacts, RenamedFrameFacts
  <2>2. Renamed(fieldId) \in Seq(Pieces) /\ Len(Renamed(fieldId)) <= MaxId
    <3>1. Renamed(fieldId) \in Seq(Pieces) /\ Len(Renamed(fieldId)) <= Len(fieldId)
      BY InsideFacts, RenamedFacts
    <3>2. Len(fieldId) \in Nat /\ Len(fieldId) <= MaxId /\ MaxId \in Nat
      BY InsideFacts, ParserAssumption
    <3>3. Len(Renamed(fieldId)) \in Nat  BY <3>1
    <3> QED  BY <3>1, <3>2, <3>3
  <2>3. Nested(Renamed(fieldId), RenamedFrames, DroppedAfter(TRUE), key)
    <3>1. TypeOK /\ key \in KeyedAfter(TRUE)  BY <1>1 DEF ParserInv
    <3> QED  BY <3>1, InsideFacts, CallbackNests
  <2>4. Indexed(RenamedFrames, arrayIndices, arrayDepth)  BY <2>1, InsideFacts, IndexedAlike
  <2>5. key \in BOOLEAN  BY InsideFacts DEF KeyedAfter
  <2>6. DroppedAfter(TRUE) \in BOOLEAN  BY InsideFacts DEF DroppedAfter
  <2>7. Len(open) \in 1..Len(open) /\ 1 \in 1..Len(open)  BY InsideFacts
  <2>8. Top(RenamedFrames).kind = Top(open).kind  BY <2>1, <2>7 DEF Top
  <2>9. RenamedFrames[1].kind = "lbrace"  BY <2>1, <2>7, InsideFacts
  <2>10. Path(p) = Renamed(fieldId) /\ Stack(p) = RenamedFrames /\ p = TRUE
    BY <1>1 DEF Path, Stack
  <2> QED  BY <2>1, <2>2, <2>3, <2>4, <2>5, <2>6, <2>8, <2>9, <2>10, InsideFacts
<1>2. CASE ~p
  <2>1. Path(p) = fieldId /\ Stack(p) = open  BY <1>2 DEF Path, Stack
  <2>2. key = keyed /\ DroppedAfter(p) = dropped  BY <1>2, InsideFacts DEF KeyedAfter, DroppedAfter
  <2> QED  BY <2>1, <2>2, InsideFacts
<1> QED  BY <1>1, <1>2

-----------------------------------------------------------------------------
(* The steps, one lemma for each.                                           *)

LEMMA BackInside ==
    ASSUME TypeOK', Nested(fieldId', open', dropped', keyed'),
           Indexed(open', arrayIndices', arrayDepth'),
           state' \in {"jsExpectId", "jsId"} => Top(open').kind = "lbrace",
           owed' = (IF state' \in ScalarStates THEN 1 ELSE 0), called' = "start"
    PROVE  ParserInv'
<1>1. InsideInv'  BY DEF InsideInv
<1> QED  BY <1>1 DEF ParserInv

\* The message is not the parser's any more.
LEMMA Fails ==
    ASSUME ParserInv, Inside, NEW c \in Chars, state' = "jsError", open' = Read(c, open),
           UNCHANGED <<fieldId, fieldVal, arrays, keyed, called, owed, dropped>>
    PROVE  ParserInv'
<1>1. state # "jsBegin" /\ called = "start"  BY DEF Inside, ParserInv, InsideInv
<1>2. open' \in Seq(Frames)
  <2>1. fieldId' \in Seq(Pieces)  BY InsideFacts
  <2>2. Read(c, open) \in Seq(Frames)  BY <1>1, <2>1, InsideFacts, ReadType
  <2> QED  BY <2>2
<1>3. TypeOK'  BY <1>2 DEF ParserInv, TypeOK, States, arrays
<1>4. called' = "start" /\ ~Inside'  BY <1>1 DEF Inside
<1> QED  BY <1>3, <1>4 DEF ParserInv

\* Only the state and the value change.
LEMMA Stays ==
    ASSUME ParserInv, Inside, state' \in States, state' \in ScalarStates <=> state \in ScalarStates,
           state' \in {"jsExpectId", "jsId"} => Top(open).kind = "lbrace",
           fieldVal' \in 0..MaxVal,
           UNCHANGED <<fieldId, arrays, keyed, called, open, owed, dropped>>
    PROVE  ParserInv'
<1>1. TypeOK'  BY DEF ParserInv, TypeOK, arrays
<1>2. Nested(fieldId', open', dropped', keyed')  BY InsideFacts
<1>3. Indexed(open', arrayIndices', arrayDepth')  BY InsideFacts DEF arrays
<1>4. owed' = (IF state' \in ScalarStates THEN 1 ELSE 0) /\ called' = "start"
  BY DEF ParserInv, InsideInv
<1> QED  BY <1>1, <1>2, <1>3, <1>4, BackInside

LEMMA OwedAfter ==
    ASSUME ParserInv, Inside, NEW p \in BOOLEAN, p <=> state \in ScalarStates, Reported(p)
    PROVE  owed' = 0 /\ dropped' = DroppedAfter(p) /\ called = "start"
<1>1. owed = (IF state \in ScalarStates THEN 1 ELSE 0) /\ called = "start"
  BY DEF ParserInv, InsideInv
<1>2. dropped' = DroppedAfter(p)  BY DEF Reported, DroppedAfter
<1>3. owed' = 0
  <2>1. CASE p  BY <1>1, <2>1 DEF Reported
  <2>2. CASE ~p  BY <1>1, <2>2 DEF Reported
  <2> QED  BY <2>1, <2>2
<1> QED  BY <1>1, <1>2, <1>3

\* What RemoveLastId leaves is the path on top.
LEMMA RestIsTop ==
    ASSUME NEW id \in Seq(Pieces), NEW st \in Seq(Frames), NEW drop \in BOOLEAN, NEW key,
           Nested(id, st, drop, key)
    PROVE  /\ RemoveLastId(id) \in Seq(Pieces) /\ Len(RemoveLastId(id)) = Len(Top(st).path)
           /\ Len(RemoveLastId(id)) <= Len(id)
           /\ \A k \in 1..Len(RemoveLastId(id)) : RemoveLastId(id)[k] = id[k]
<1>1. PICK n : n = Len(Top(st).path)  OBVIOUS
<1>2. n \in 0..Len(id) /\ \A k \in (n + 1)..Len(id) : id[k] \notin Marks  BY <1>1, TopIsLast
<1>3. n = 0 \/ id[n] \in Marks
  <2>1. Len(st) \in Nat /\ Surplus(drop) \in Nat  BY SurplusNat
  <2>2. CASE Len(st) <= 1 + Surplus(drop)  BY <1>1, <2>2, TopIsLast
  <2>3. CASE Len(st) > 1 + Surplus(drop)
    <3>1. id[n] = Mark(Top(st).kind)  BY <1>1, <2>3, TopIsLast
    <3> QED  BY <3>1 DEF Mark, Marks
  <2> QED  BY <2>1, <2>2, <2>3
<1>4. RemoveLastId(id) = SubSeq(id, 1, n)  BY <1>2, <1>3, RemoveLastIdIsPrefix
<1>5. /\ SubSeq(id, 1, n) \in Seq(Pieces) /\ Len(SubSeq(id, 1, n)) = n
      /\ \A k \in 1..n : SubSeq(id, 1, n)[k] = id[k]
  BY <1>2, FirstPart
<1>6. n <= Len(id)  BY <1>2
<1> QED  BY <1>1, <1>4, <1>5, <1>6

LEMMA LastCharFacts ==
    ASSUME NEW id \in Seq(Pieces), Len(id) > 0
    PROVE  /\ RemoveLastIdChar(id) \in Seq(Pieces) /\ Len(RemoveLastIdChar(id)) = Len(id) - 1
           /\ \A k \in 1..Len(RemoveLastIdChar(id)) : RemoveLastIdChar(id)[k] = id[k]
<1>1. PICK n : n = Len(id) - 1  OBVIOUS
<1>2. n \in 0..Len(id) /\ id # <<>>  BY <1>1
<1>3. RemoveLastIdChar(id) = SubSeq(id, 1, n)  BY <1>1, <1>2 DEF RemoveLastIdChar
<1>4. /\ SubSeq(id, 1, n) \in Seq(Pieces) /\ Len(SubSeq(id, 1, n)) = n
      /\ \A k \in 1..n : SubSeq(id, 1, n)[k] = id[k]
  BY <1>2, FirstPart
<1> QED  BY <1>1, <1>3, <1>4

\* The indices are as before but for that at n.
SameBut(indices, before, n) == \A d : d = n \/ indices[d] = before[d]

\* The name and the stack behind a ']'.
LEMMA ArrayCloses ==
    ASSUME NEW id \in Seq(Pieces), NEW st \in Seq(Frames), NEW drop \in BOOLEAN, NEW key,
           NEW indices, NEW depth, NEW indices2, NEW before, before = depth - 1,
           Nested(id, st, drop, key), Indexed(st, indices, depth),
           st[1].kind = "lbrace", Top(st).kind = "lbracket",
           SameBut(indices2, indices, before)
    PROVE  /\ RemoveLastIdChar(id) \in Seq(Pieces) /\ Len(RemoveLastIdChar(id)) <= Len(id)
           /\ Pop(st) \in Seq(Frames) /\ depth # 0
           /\ Nested(RemoveLastIdChar(id), Pop(st), drop, key)
           /\ Indexed(Pop(st), indices2, before)
<1>1. Len(st) \in Nat /\ Surplus(drop) \in Nat /\ Len(id) \in Nat  BY SurplusNat
<1>2. Len(st) > 1 + Surplus(drop)
  <2>1. ~(Len(st) <= 1 + Surplus(drop))  BY TopIsLast
  <2> QED  BY <1>1, <2>1
<1>3. Len(st) > 1 /\ Len(st) > 0 /\ Len(st) \in 1..Len(st)  BY <1>1, <1>2
<1>4. Len(Top(st).path) = Len(id) /\ Len(id) > 0  BY <1>2, TopIsLast
<1>5. /\ RemoveLastIdChar(id) \in Seq(Pieces) /\ Len(RemoveLastIdChar(id)) = Len(id) - 1
      /\ \A k \in 1..Len(RemoveLastIdChar(id)) : RemoveLastIdChar(id)[k] = id[k]
  BY <1>4, LastCharFacts
<1>6. Len(RemoveLastIdChar(id)) = Len(Top(st).path) - 1  BY <1>4, <1>5
<1>7. Nested(RemoveLastIdChar(id), Pop(st), drop, key)  BY <1>2, <1>5, <1>6, ClosingNests
<1>8. Indexed(Pop(st), indices2, depth - 1)  BY <1>3, ClosingIndexed DEF SameBut
<1>9. depth # 0
  <2>1. DepthsCount(st) /\ depth = Top(st).depth  BY DEF Indexed
  <2>2. st[Len(st)].depth >= 1  BY <1>3, <2>1, ArrayHasIndex DEF Top
  <2> QED  BY <2>1, <2>2 DEF Top
<1>10. Len(RemoveLastIdChar(id)) <= Len(id)  BY <1>1, <1>5
<1>11. Pop(st) \in Seq(Frames)  BY <1>3, PopFacts
<1> QED  BY <1>5, <1>7, <1>8, <1>9, <1>10, <1>11

\* The name and the stack behind a '}'.
LEMMA ObjectCloses ==
    ASSUME NEW id \in Seq(Pieces), NEW st \in Seq(Frames), NEW drop \in BOOLEAN, NEW key,
           NEW indices, NEW depth,
           Nested(id, st, drop, key), Indexed(st, indices, depth),
           st[1].kind = "lbrace", Top(st).kind = "lbrace"
    PROVE  /\ RemoveLastId(id) \in Seq(Pieces) /\ Len(RemoveLastId(id)) <= Len(id)
           /\ Pop(st) \in Seq(Frames)
           /\ RemoveLastId(id) = <<>> => Len(Pop(st)) <= Surplus(drop)
           /\ RemoveLastId(id) # <<>> =>
                /\ RemoveLastIdChar(RemoveLastId(id)) \in Seq(Pieces)
                /\ Len(RemoveLastIdChar(RemoveLastId(id))) <= Len(id)
                /\ Nested(RemoveLastIdChar(RemoveLastId(id)), Pop(st), drop, key)
                /\ Indexed(Pop(st), indices, depth)
<1>1. Len(st) \in Nat /\ Surplus(drop) \in Nat /\ Len(id) \in Nat  BY SurplusNat
<1>2. PICK rest : rest = RemoveLastId(id)  OBVIOUS
<1>3. /\ rest \in Seq(Pieces) /\ Len(rest) = Len(Top(st).path) /\ Len(rest) <= Len(id)
      /\ \A k \in 1..Len(rest) : rest[k] = id[k]
  BY <1>2, RestIsTop
<1>4. Len(st) >= 1 /\ Len(st) > 0  BY TopIsLast
<1>5. Pop(st) \in Seq(Frames) /\ Len(Pop(st)) = Len(st) - 1  BY <1>4, PopFacts
<1>6. ASSUME rest = <<>> PROVE Len(Pop(st)) <= Surplus(drop)
  <2>1. ~(Len(Top(st).path) > 0)  BY <1>3, <1>6
  <2>2. ~(Len(st) > 1 + Surplus(drop))  BY <2>1, TopIsLast
  <2> QED  BY <1>1, <1>5, <2>2
<1>7. ASSUME rest # <<>>
      PROVE  /\ RemoveLastIdChar(rest) \in Seq(Pieces) /\ Len(RemoveLastIdChar(rest)) <= Len(id)
             /\ Nested(RemoveLastIdChar(rest), Pop(st), drop, key)
             /\ Indexed(Pop(st), indices, depth)
  <2>1. Len(rest) > 0 /\ Len(rest) \in Nat  BY <1>3, <1>7
  <2>2. Len(st) > 1 + Surplus(drop)
    <3>1. ~(Len(st) <= 1 + Surplus(drop))  BY <1>3, <2>1, TopIsLast
    <3> QED  BY <1>1, <3>1
  <2>3. Len(st) > 1  BY <1>1, <2>2
  <2>4. PICK short : short = RemoveLastIdChar(rest)  OBVIOUS
  <2>5. /\ short \in Seq(Pieces) /\ Len(short) = Len(rest) - 1
        /\ \A k \in 1..Len(short) : short[k] = rest[k]
    BY <1>3, <2>1, <2>4, LastCharFacts
  <2>6. Len(short) = Len(Top(st).path) - 1 /\ Len(short) <= Len(id)  BY <1>1, <1>3, <2>1, <2>5
  <2>7. \A k \in 1..Len(short) : k \in 1..Len(rest)  BY <2>1, <2>5
  <2>8. \A k \in 1..Len(short) : short[k] = id[k]  BY <1>3, <2>5, <2>7
  <2>9. Nested(short, Pop(st), drop, key)  BY <2>2, <2>5, <2>6, <2>8, ClosingNests
  <2>10. Indexed(Pop(st), indices, depth - 0)
    <3>1. Indexed(Pop(st), indices, depth - (IF Top(st).kind = "lbracket" THEN 1 ELSE 0))
      BY <2>3, ClosingIndexed
    <3> QED  BY <3>1
  <2>11. depth - 0 = depth
    <3>1. depth = Top(st).depth /\ Len(st) \in 1..Len(st)  BY TopIsLast DEF Indexed
    <3>2. depth \in Nat  BY <3>1, StackTypes DEF Top
    <3> QED  BY <3>2
  <2> QED  BY <2>4, <2>5, <2>6, <2>9, <2>10, <2>11
<1> QED  BY <1>2, <1>3, <1>5, <1>6, <1>7

LEMMA IndicesAfter ==
    ASSUME NEW indices \in [Slots -> Nat], NEW n \in Int
    PROVE  /\ [indices EXCEPT ![n] = @ + 1] \in [Slots -> Nat]
           /\ \A d : d = n \/ [indices EXCEPT ![n] = @ + 1][d] = indices[d]
<1>1. PICK f : f = [indices EXCEPT ![n] = indices[n] + 1]  OBVIOUS
<1>2. CASE n \in Slots
  <2>1. indices[n] + 1 \in Nat  BY <1>2
  <2>2. f \in [Slots -> Nat]  BY <1>1, <2>1
  <2>3. ASSUME NEW d, d # n PROVE f[d] = indices[d]
    <3>1. CASE d \in Slots  BY <1>1, <2>3, <3>1
    <3>2. CASE d \notin Slots  BY <1>1, <2>3, <3>2
    <3> QED  BY <3>1, <3>2
  <2> QED  BY <1>1, <2>2, <2>3
<1>3. CASE n \notin Slots
  <2>1. f = indices  BY <1>1, <1>3
  <2> QED  BY <1>1, <2>1
<1> QED  BY <1>2, <1>3

LEMMA CommaKeeps ==
    ASSUME ParserInv, Inside, ~InText, NEW p \in BOOLEAN, p <=> state \in ScalarStates, Comma(p)
    PROVE  ParserInv'
<1> DEFINE id == Path(p)
           st == Stack(p)
<1>1. owed' = 0 /\ dropped' = DroppedAfter(p) /\ called' = "start"
  BY OwedAfter DEF Comma
<1>2. /\ id \in Seq(Pieces) /\ Len(id) <= MaxId /\ st \in Seq(Frames) /\ Len(st) >= 1
      /\ keyed' \in BOOLEAN /\ DroppedAfter(p) \in BOOLEAN
      /\ Nested(id, st, DroppedAfter(p), keyed')
      /\ Indexed(st, arrayIndices, arrayDepth) /\ st[1].kind = "lbrace"
  BY CallbackKeeps DEF Comma
<1>3. EndsWith(id, "^") <=> Top(st).kind = "lbracket"  BY <1>2, EndsWithMark
<1>4. open' = IF Top(st).kind = "lbracket" THEN CountTop(st) ELSE st
  BY ReadBrackets DEF Comma
<1>5. /\ fieldVal \in 0..MaxVal /\ 0 \in 0..MaxVal /\ arrayIndices \in [Slots -> Nat]
      /\ arrayDepth \in 0..MaxArrayNesting
  BY ParserAssumption DEF ParserInv, TypeOK
<1>6. Top(st).kind = "lbrace" \/ Top(st).kind = "lbracket"
  <2>1. Len(st) \in 1..Len(st)  BY <1>2
  <2> QED  BY <1>2, <2>1, StackTypes DEF Top
<1> HIDE DEF id, st
<1>7. CASE Top(st).kind = "lbracket"
  <2>1. /\ state' = "jsVal" /\ fieldId' = id /\ fieldVal' = 0
        /\ arrayIndices' = [arrayIndices EXCEPT ![arrayDepth - 1] = @ + 1]
        /\ arrayDepth' = arrayDepth
    BY <1>3, <1>7 DEF Comma, id, Goto
  <2>2. Indexed(open', arrayIndices', arrayDepth')  BY <1>2, <1>4, <1>5, <1>7, <2>1, CountingIndexed
  <2>3. /\ CountTop(st) \in Seq(Frames) /\ Len(CountTop(st)) = Len(st)
        /\ \A i \in 1..Len(st) :
             CountTop(st)[i].kind = st[i].kind /\ CountTop(st)[i].path = st[i].path
    BY <1>2, CountTopFacts
  <2>4. Nested(id, CountTop(st), dropped', keyed')  BY <1>1, <1>2, <2>3, NestedAlike
  <2>5. arrayIndices' \in [Slots -> Nat]
    <3>1. arrayDepth - 1 \in Int  BY <1>5
    <3> QED  BY <1>5, <2>1, <3>1, IndicesAfter
  <2>6. TypeOK'
    BY <1>1, <1>2, <1>4, <1>5, <1>7, <2>1, <2>3, <2>5 DEF TypeOK, States
  <2> QED  BY <1>1, <1>4, <1>7, <2>1, <2>2, <2>4, <2>6, BackInside DEF ScalarStates, NumberStates
<1>8. CASE Top(st).kind = "lbrace"
  <2>1. /\ state' = "jsExpectId" /\ fieldId' = RemoveLastId(id) /\ Cleared(p)
        /\ arrayIndices' = arrayIndices /\ arrayDepth' = arrayDepth
    BY <1>3, <1>8 DEF Comma, id, Goto
  <2>2. open' = st  BY <1>4, <1>8
  <2>3. /\ fieldId' \in Seq(Pieces) /\ Len(fieldId') = Len(Top(st).path)
        /\ Len(fieldId') <= Len(id) /\ \A k \in 1..Len(fieldId') : fieldId'[k] = id[k]
    BY <1>2, <2>1, RestIsTop
  <2>4. Nested(fieldId', st, dropped', keyed')  BY <1>1, <1>2, <1>8, <2>3, NameEndNests
  <2>5. Len(fieldId') <= MaxId
    <3>1. Len(fieldId') \in Nat /\ Len(id) \in Nat /\ MaxId \in Nat
      BY <1>2, <2>3, ParserAssumption
    <3> QED  BY <1>2, <2>3, <3>1
  <2>6. fieldVal' \in 0..MaxVal  BY <1>5, <2>1 DEF Cleared
  <2>7. TypeOK'  BY <1>1, <1>2, <1>5, <2>1, <2>2, <2>3, <2>5, <2>6 DEF TypeOK, States
  <2> QED  BY <1>1, <1>2, <1>8, <2>1, <2>2, <2>4, <2>7, BackInside DEF ScalarStates, NumberStates
<1> QED  BY <1>6, <1>7, <1>8

LEMMA CloseArrayKeeps ==
    ASSUME ParserInv, Inside, ~InText, NEW p \in BOOLEAN, p <=> state \in ScalarStates,
           CloseArray(p)
    PROVE  ParserInv'
<1> DEFINE id == Path(p)
           st == Stack(p)
<1>1. owed' = 0 /\ dropped' = DroppedAfter(p) /\ called' = "start"
  BY OwedAfter DEF CloseArray
<1>2. /\ id \in Seq(Pieces) /\ Len(id) <= MaxId /\ st \in Seq(Frames) /\ Len(st) >= 1
      /\ keyed' \in BOOLEAN /\ DroppedAfter(p) \in BOOLEAN
      /\ Nested(id, st, DroppedAfter(p), keyed')
      /\ Indexed(st, arrayIndices, arrayDepth) /\ st[1].kind = "lbrace"
      /\ Top(st).kind = "lbracket"
  BY CallbackKeeps, InsideFacts DEF CloseArray
<1>3. open' = Pop(st)
  <2>1. st # <<>>  BY <1>2
  <2> QED  BY <1>2, <2>1, ReadBrackets DEF CloseArray
<1>4. /\ fieldVal \in 0..MaxVal /\ 0 \in 0..MaxVal /\ arrayIndices \in [Slots -> Nat]
      /\ arrayDepth \in 0..MaxArrayNesting /\ MaxArrayNesting \in Nat
  BY ParserAssumption DEF ParserInv, TypeOK
<1>5. /\ state' = "jsEndVal" /\ EndArray(id) /\ Cleared(p)
      /\ arrayIndices' = [arrayIndices EXCEPT ![arrayDepth - 1] = @ + 1]
  BY DEF CloseArray, Goto
<1> HIDE DEF id, st
<1>6. /\ arrayIndices' \in [Slots -> Nat]
      /\ \A d : d = arrayDepth - 1 \/ arrayIndices'[d] = arrayIndices[d]
  <2>1. arrayDepth - 1 \in Int  BY <1>4
  <2> QED  BY <1>4, <1>5, <2>1, IndicesAfter
<1>7. /\ RemoveLastIdChar(id) \in Seq(Pieces) /\ Len(RemoveLastIdChar(id)) <= Len(id)
      /\ Pop(st) \in Seq(Frames) /\ arrayDepth # 0
      /\ Nested(RemoveLastIdChar(id), Pop(st), DroppedAfter(p), keyed')
      /\ Indexed(Pop(st), arrayIndices', arrayDepth - 1)
  <2>1. PICK indices2 : indices2 = arrayIndices'  OBVIOUS
  <2>2. SameBut(indices2, arrayIndices, arrayDepth - 1)  BY <1>6, <2>1 DEF SameBut
  <2>3. /\ RemoveLastIdChar(id) \in Seq(Pieces) /\ Len(RemoveLastIdChar(id)) <= Len(id)
        /\ Pop(st) \in Seq(Frames) /\ arrayDepth # 0
        /\ Nested(RemoveLastIdChar(id), Pop(st), DroppedAfter(p), keyed')
        /\ Indexed(Pop(st), indices2, arrayDepth - 1)
    BY <1>2, <2>2, ArrayCloses
  <2> QED  BY <2>1, <2>3
<1>8. fieldId' = RemoveLastIdChar(id) /\ arrayDepth' = arrayDepth - 1
  BY <1>5, <1>7 DEF EndArray
<1>9. Len(fieldId') <= MaxId
  <2>1. Len(fieldId') \in Nat /\ Len(id) \in Nat /\ MaxId \in Nat
    BY <1>2, <1>7, <1>8, ParserAssumption
  <2> QED  BY <1>2, <1>7, <1>8, <2>1
<1>10. arrayIndices' \in [Slots -> Nat] /\ fieldVal' \in 0..MaxVal
       /\ arrayDepth' \in 0..MaxArrayNesting
  <2>1. arrayIndices' \in [Slots -> Nat]  BY <1>6
  <2>2. fieldVal' \in 0..MaxVal  BY <1>4, <1>5 DEF Cleared
  <2>3. arrayDepth' \in 0..MaxArrayNesting  BY <1>4, <1>7, <1>8
  <2> QED  BY <2>1, <2>2, <2>3
<1>11. TypeOK'
  BY <1>1, <1>2, <1>3, <1>5, <1>7, <1>8, <1>9, <1>10 DEF TypeOK, States
<1> QED
  BY <1>1, <1>3, <1>5, <1>7, <1>8, <1>11, BackInside DEF ScalarStates, NumberStates

LEMMA EndObjectKeeps ==
    ASSUME ParserInv, Inside, ~InText, NEW p \in BOOLEAN, p <=> state \in ScalarStates,
           Top(open).kind = "lbrace", EndObject(p)
    PROVE  ParserInv'
<1> DEFINE id == Path(p)
           st == Stack(p)
           rest == RemoveLastId(Path(p))
<1>1. owed' = 0 /\ dropped' = DroppedAfter(p) /\ called = "start"
  BY OwedAfter DEF EndObject
<1>2. PICK key \in KeyedAfter(p) : rest # <<>> => keyed' = key
  <2>1. \E key : key \in KeyedAfter(p)  BY DEF KeyedAfter
  <2> QED  BY <2>1 DEF EndObject
<1>3. /\ id \in Seq(Pieces) /\ Len(id) <= MaxId /\ st \in Seq(Frames) /\ Len(st) >= 1
      /\ key \in BOOLEAN /\ DroppedAfter(p) \in BOOLEAN
      /\ Nested(id, st, DroppedAfter(p), key)
      /\ Indexed(st, arrayIndices, arrayDepth) /\ st[1].kind = "lbrace"
      /\ Top(st).kind = "lbrace"
  BY CallbackKeeps
<1>4. open' = Pop(st)
  <2>1. st # <<>>  BY <1>3
  <2> QED  BY <1>3, <2>1, ReadBrackets DEF EndObject
<1>5. /\ fieldVal \in 0..MaxVal /\ 0 \in 0..MaxVal /\ arrayIndices \in [Slots -> Nat]
      /\ arrayDepth \in 0..MaxArrayNesting
  BY ParserAssumption DEF ParserInv, TypeOK
<1>6. /\ Cleared(p) /\ arrayIndices' = arrayIndices /\ arrayDepth' = arrayDepth
      /\ rest = <<>> => /\ state' = "jsBegin" /\ fieldId' = rest
                        /\ called' = "end" /\ keyed' = FALSE
      /\ rest # <<>> => /\ state' = "jsEndVal" /\ fieldId' = RemoveLastIdChar(rest)
                        /\ called' = called
  BY DEF EndObject, arrays, Goto
<1>7. /\ rest \in Seq(Pieces) /\ Len(rest) <= Len(id) /\ Pop(st) \in Seq(Frames)
      /\ rest = <<>> => Len(Pop(st)) <= Surplus(DroppedAfter(p))
      /\ rest # <<>> =>
           /\ RemoveLastIdChar(rest) \in Seq(Pieces) /\ Len(RemoveLastIdChar(rest)) <= Len(id)
           /\ Nested(RemoveLastIdChar(rest), Pop(st), DroppedAfter(p), key)
           /\ Indexed(Pop(st), arrayIndices, arrayDepth)
  BY <1>3, ObjectCloses
<1> HIDE DEF id, st, rest
<1>8. fieldId' \in Seq(Pieces) /\ Len(fieldId') <= Len(id)  BY <1>6, <1>7
<1>9. Len(fieldId') <= MaxId
  <2>1. Len(fieldId') \in Nat /\ Len(id) \in Nat /\ MaxId \in Nat
    BY <1>3, <1>8, ParserAssumption
  <2> QED  BY <1>3, <1>8, <2>1
<1>10. fieldVal' \in 0..MaxVal  BY <1>5, <1>6 DEF Cleared
<1>11. TypeOK'
  <2>1. keyed' \in BOOLEAN  BY <1>2, <1>3, <1>6
  <2>2. state' \in States /\ called' \in {"none", "start", "end", "error"}
    BY <1>1, <1>6 DEF States
  <2>3. open' \in Seq(Frames) /\ owed' \in Int /\ dropped' \in BOOLEAN  BY <1>1, <1>3, <1>4, <1>7
  <2>4. arrayIndices' \in [Slots -> Nat] /\ arrayDepth' \in 0..MaxArrayNesting  BY <1>5, <1>6
  <2> QED  BY <1>8, <1>9, <1>10, <2>1, <2>2, <2>3, <2>4 DEF TypeOK
<1>12. CASE rest = <<>>
  <2>1. ~Inside'  BY <1>6, <1>12 DEF Inside
  <2> QED  BY <1>1, <1>4, <1>6, <1>7, <1>11, <1>12, <2>1 DEF ParserInv
<1>13. CASE rest # <<>>
  BY <1>1, <1>2, <1>4, <1>6, <1>7, <1>11, <1>13, BackInside DEF ScalarStates, NumberStates
<1> QED  BY <1>12, <1>13

\* A message begins with its bracket.
LEMMA FirstNests ==
    ASSUME NEW none \in Seq(Pieces), Len(none) = 0, NEW f \in Frames, f.kind = "lbrace",
           f.depth = 0, f.path = none, NEW st, st = <<f>>, NEW key, NEW indices
    PROVE  /\ st \in Seq(Frames) /\ Top(st) = f
           /\ Nested(none, st, FALSE, key) /\ Indexed(st, indices, f.depth)
<1>0. st \in Seq(Frames) /\ Len(st) <= 1 /\ 1 \in 1..Len(st) /\ st[1] = f  OBVIOUS
<1>1. \A i \in 1..Len(st) : i <= 1 /\ ~(i > 1) /\ i = 1 /\ st[i] = f  BY <1>0
<1>2. PathsNest(none, st, FALSE)
  <2>1. IsPrefix(none, none)  BY DEF IsPrefix
  <2>2. \A i \in 1..Len(st) : i <= 1 + 0 /\ ~(i > 1 + 0)  BY <1>1
  <2> QED  BY <1>1, <2>1, <2>2, SurplusIs DEF PathsNest
<1>3. MarksAreBrackets(none, st)
  <2>1. \A i \in 1..Len(st) : st[i].kind # "lbracket"  BY <1>1
  <2>2. \A k \in 1..Len(none) : FALSE  OBVIOUS
  <2> QED  BY <2>1, <2>2 DEF MarksAreBrackets
<1>4. NamesAreFirst(none, FALSE, key)  BY DEF NamesAreFirst
<1>5. Len(st) >= 1 + Surplus(FALSE)
  <2>1. Len(st) >= 1 + 0  BY <1>0
  <2> QED  BY <2>1, SurplusIs
<1>6. Nested(none, st, FALSE, key)  BY <1>2, <1>3, <1>4, <1>5 DEF Nested
<1>7. Top(st) = f
  <2>1. Len(st) \in 1..Len(st)  BY <1>0
  <2> QED  BY <1>1, <2>1 DEF Top
<1>8. DepthsCount(st)
  <2>1. \A i, j \in 1..Len(st) : ~(i < j) /\ j # i + 1  BY <1>1
  <2> QED  BY <2>1 DEF DepthsCount
<1>9. Counts(st, indices)
  <2>1. \A i \in 1..Len(st) : st[i].kind # "lbracket"  BY <1>1
  <2> QED  BY <2>1 DEF Counts
<1> QED  BY <1>0, <1>6, <1>7, <1>8, <1>9 DEF Indexed

LEMMA StartKeeps ==
    ASSUME ParserInv, NEW c, StartReceivedMessage(c)
    PROVE  ParserInv'
<1>1. PICK none : none = <<>>  OBVIOUS
<1>2. PICK f : f = Frame("lbrace", 0, none)  OBVIOUS
<1>3. /\ state' = "jsExpectId" /\ fieldId' = none /\ fieldVal' = 0 /\ arrayDepth' = 0
      /\ called' = "start" /\ owed' = 0 /\ dropped' = FALSE
      /\ arrayIndices' = arrayIndices /\ keyed' = keyed /\ open' = <<f>>
  BY <1>1, <1>2 DEF StartReceivedMessage, Goto, Read
<1>4. arrayIndices \in [Slots -> Nat] /\ keyed \in BOOLEAN  BY DEF ParserInv, TypeOK
<1>5. f \in Frames /\ f.kind = "lbrace" /\ f.depth = 0 /\ f.path = none
  <2>1. 0 \in Nat /\ none \in Seq(Pieces)  BY <1>1
  <2> QED  BY <1>2, <2>1, FrameType
<1>6. PICK st : st = <<f>>  OBVIOUS
<1>7. none \in Seq(Pieces) /\ Len(none) = 0 /\ Len(none) <= MaxId  BY <1>1, ParserAssumption
<1>8. /\ st \in Seq(Frames) /\ Top(st) = f
      /\ Nested(none, st, FALSE, keyed) /\ Indexed(st, arrayIndices, f.depth)
  BY <1>5, <1>6, <1>7, FirstNests
<1>9. Nested(none, st, FALSE, keyed) /\ Indexed(st, arrayIndices, 0) /\ Top(st) = f
  BY <1>5, <1>8
<1>10. TypeOK'
  <2>1. 0 \in 0..MaxVal /\ 0 \in 0..MaxArrayNesting /\ 0 \in Int  BY ParserAssumption
  <2>2. open' \in Seq(Frames)  BY <1>3, <1>6, <1>8
  <2> QED  BY <1>3, <1>4, <1>7, <2>1, <2>2 DEF TypeOK, States
<1> QED
  BY <1>3, <1>5, <1>6, <1>9, <1>10, BackInside DEF ScalarStates, NumberStates

LEMMA IgnoreKeeps ==
    ASSUME ParserInv, NEW c, c # "newline", Ignore(c)
    PROVE  ParserInv'
<1>1. /\ state' = state /\ ~Inside /\ ~Inside'
      /\ UNCHANGED <<fieldId, fieldVal, arrays, keyed, called, owed, dropped>>
      /\ open' = Read(c, open)
  BY DEF Ignore, Step, Goto, Inside
<1>2. open \in Seq(Frames) /\ dropped \in BOOLEAN  BY DEF ParserInv, TypeOK
<1>3. open' \in Seq(Frames) /\ Len(open') <= Len(open)
  <2>1. open' = open \/ (open # <<>> /\ open' = Pop(open))
    <3>1. state = "jsError" \/ (state = "jsBegin" /\ c # "lbrace")  BY DEF Ignore
    <3>2. CASE state = "jsError"  BY <1>1, <3>2, ReadInText DEF InText
    <3>3. CASE state = "jsBegin" /\ c # "lbrace"
      <4>1. CASE c \in {"rbrace", "rbracket"}  BY <1>1, <3>3, <4>1 DEF Read, InText
      <4>2. CASE c = "comma"  BY <1>1, <3>3, <4>2 DEF Read
      <4>3. CASE c = "lbracket"  BY <1>1, <3>3, <4>3 DEF Read
      <4>4. CASE c \notin {"rbrace", "rbracket", "comma", "lbracket"}
        BY <1>1, <3>3, <4>4, ReadPlain
      <4> QED  BY <4>1, <4>2, <4>3, <4>4
    <3> QED  BY <3>1, <3>2, <3>3
  <2>2. CASE open' = open  BY <1>2, <2>2
  <2>3. CASE open # <<>> /\ open' = Pop(open)
    <3>1. Len(open) > 0  BY <1>2, <2>3
    <3> QED  BY <1>2, <2>3, <3>1, PopFacts
  <2> QED  BY <2>1, <2>2, <2>3
<1>4. TypeOK'  BY <1>1, <1>3 DEF ParserInv, TypeOK, arrays
<1>5. called' = "end" => state' = "jsBegin" /\ Len(open') <= Surplus(dropped')
  <2>1. Len(open) \in Nat /\ Len(open') \in Nat /\ Surplus(dropped) \in Nat
    BY <1>2, <1>3, SurplusNat
  <2>2. called = "end" => state = "jsBegin" /\ Len(open) <= Surplus(dropped)  BY DEF ParserInv
  <2>3. called = "end" => Len(open') <= Surplus(dropped)  BY <1>3, <2>1, <2>2
  <2> QED  BY <1>1, <2>2, <2>3
<1> QED  BY <1>1, <1>4, <1>5 DEF ParserInv

\* A step that leaves the reader's brackets alone.
LEMMA StepStays ==
    ASSUME ParserInv, Inside, NEW c \in Chars, NEW s \in States, Step(c, s), Read(c, open) = open,
           s \in ScalarStates <=> state \in ScalarStates,
           s \in {"jsExpectId", "jsId"} => Top(open).kind = "lbrace"
    PROVE  ParserInv'
<1>1. fieldVal' \in 0..MaxVal  BY DEF Step, ParserInv, TypeOK
<1> QED  BY <1>1, Stays DEF Step, Goto

LEMMA StepFails ==
    ASSUME ParserInv, Inside, NEW c \in Chars, Fail(c)
    PROVE  ParserInv'
BY Fails DEF Fail, Step, Goto

LEMMA ExpectIdKeeps ==
    ASSUME ParserInv, NEW c \in Chars, c # "newline", ExpectId(c)
    PROVE  ParserInv'
<1>1. Inside /\ ~InText /\ state = "jsExpectId" /\ state \notin ScalarStates
  BY DEF ExpectId, Inside, InText, ScalarStates, NumberStates
<1>2. Top(open).kind = "lbrace"  BY <1>1 DEF ParserInv, InsideInv
<1>3. CASE c = "space" /\ Step(c, state)
  <2>1. Read(c, open) = open  BY <1>3, ReadPlain
  <2>2. Step(c, "jsExpectId")  BY <1>1, <1>3
  <2> QED  BY <1>1, <1>2, <2>1, <2>2, StepStays DEF States
<1>4. CASE c = "quote" /\ Step(c, "jsId")
  <2>1. Read(c, open) = open  BY <1>4, ReadPlain
  <2> QED  BY <1>1, <1>2, <1>4, <2>1, StepStays DEF States, ScalarStates, NumberStates
<1>5. CASE EndObject(FALSE)  BY <1>1, <1>2, <1>5, EndObjectKeeps
<1>6. CASE Fail(c)  BY <1>1, <1>6, StepFails
<1> QED  BY <1>3, <1>4, <1>5, <1>6 DEF ExpectId

LEMMA IdKeeps ==
    ASSUME ParserInv, NEW c \in Chars, c # "newline", Sent(c), Id(c)
    PROVE  ParserInv'
<1>1. Inside /\ InText /\ state = "jsId" /\ state \notin ScalarStates
  BY DEF Id, Inside, InText, ScalarStates, NumberStates
<1>2. Top(open).kind = "lbrace"  BY <1>1 DEF ParserInv, InsideInv
<1>3. Read(c, open) = open  BY <1>1, ReadInText
<1>4. CASE Step(c, "jsHadId")
  BY <1>1, <1>3, <1>4, StepStays DEF States, ScalarStates, NumberStates
<1>5. CASE Step(c, state)  BY <1>1, <1>2, <1>3, <1>5, StepStays DEF States
<1>6. CASE Fail(c)  BY <1>1, <1>6, StepFails
<1>7. CASE /\ c \notin {"quote", "control"} \cup Marks
           /\ CatId(IF c \in Names THEN c ELSE "x", "jsId") /\ open' = Read(c, open)
           /\ UNCHANGED <<fieldVal, arrays, keyed, called, owed, dropped>>
  <2>1. CASE ~(Len(fieldId) < MaxId)
    BY <1>1, <1>7, <2>1, Fails DEF CatId, Goto
  <2>2. CASE Len(fieldId) < MaxId
    <3>1. PICK p : p = IF c \in Names THEN c ELSE "x"  OBVIOUS
    <3>2. /\ state' = "jsId" /\ fieldId' = Append(fieldId, p) /\ open' = open
          /\ arrayIndices' = arrayIndices /\ arrayDepth' = arrayDepth
      BY <1>3, <1>7, <2>2, <3>1 DEF CatId, Goto, arrays
    <3>3. p \in Names \cup {"x"} /\ (p \in Names => fieldId = <<>> /\ Len(open) <= 1)
      <4>1. CASE c \in Names
        <5>1. Len(open) = 1 /\ fieldId = <<>>  BY <1>1, <4>1 DEF Sent
        <5>2. Len(open) <= 1  BY <5>1
        <5> QED  BY <3>1, <4>1, <5>1, <5>2
      <4>2. CASE c \notin Names  BY <3>1, <4>2 DEF Names
      <4> QED  BY <4>1, <4>2
    <3>4. fieldId # <<"result">>  BY <1>1, <1>7 DEF Sent
    <3>5. Append(fieldId, p) \in Seq(Pieces) /\ Nested(Append(fieldId, p), open, dropped, keyed)
      BY <1>1, <1>2, <3>3, <3>4, InsideFacts, NameNests
    <3>6. Len(fieldId') <= MaxId
      <4>1. Len(fieldId) \in Nat /\ MaxId \in Nat /\ Len(Append(fieldId, p)) = Len(fieldId) + 1
        BY <1>1, InsideFacts, ParserAssumption
      <4> QED  BY <2>2, <3>2, <4>1
    <3>7. TypeOK'  BY <1>7, <3>2, <3>5, <3>6 DEF ParserInv, TypeOK, States
    <3>8. Nested(fieldId', open', dropped', keyed')  BY <1>7, <3>2, <3>5
    <3>9. Indexed(open', arrayIndices', arrayDepth')  BY <1>1, <3>2, InsideFacts
    <3>10. owed' = (IF state' \in ScalarStates THEN 1 ELSE 0) /\ called' = "start"
      BY <1>1, <1>7, <3>2 DEF ParserInv, InsideInv
    <3> QED  BY <1>2, <3>2, <3>7, <3>8, <3>9, <3>10, BackInside
  <2> QED  BY <2>1, <2>2
<1> QED  BY <1>4, <1>5, <1>6, <1>7 DEF Id

LEMMA HadIdKeeps ==
    ASSUME ParserInv, NEW c \in Chars, c # "newline", HadId(c)
    PROVE  ParserInv'
<1>1. Inside /\ state = "jsHadId" /\ state \notin ScalarStates
  BY DEF HadId, Inside, ScalarStates, NumberStates
<1>2. CASE c = ":" /\ Step(c, "jsVal")
  <2>1. Read(c, open) = open  BY <1>2, ReadPlain
  <2> QED  BY <1>1, <1>2, <2>1, StepStays DEF States, ScalarStates, NumberStates
<1>3. CASE c = "space" /\ Step(c, state)
  <2>1. Read(c, open) = open  BY <1>3, ReadPlain
  <2> QED  BY <1>1, <1>3, <2>1, StepStays DEF States
<1>4. CASE Fail(c)  BY <1>1, <1>4, StepFails
<1> QED  BY <1>2, <1>3, <1>4 DEF HadId

\* An opening bracket, with room for its mark.
LEMMA Opens ==
    ASSUME ParserInv, Inside, ~InText, NEW kind \in {"lbrace", "lbracket"},
           state' \in States, state' \notin ScalarStates, state \notin ScalarStates,
           state' \in {"jsExpectId", "jsId"} => kind = "lbrace",
           Len(fieldId) < MaxId, fieldId' = Append(fieldId, Mark(kind)),
           kind = "lbracket" => arrayDepth < MaxArrayNesting /\ (keyed \/ fieldId # <<"result">>),
           arrayIndices' = IF kind = "lbracket" THEN [arrayIndices EXCEPT ![arrayDepth] = 0]
                           ELSE arrayIndices,
           arrayDepth' = arrayDepth + (IF kind = "lbracket" THEN 1 ELSE 0),
           open' = Append(open, Frame(kind, arrayDepth', fieldId')),
           UNCHANGED <<fieldVal, keyed, called, owed, dropped>>
    PROVE  ParserInv'
<1>1. PICK e : e = Frame(kind, arrayDepth', fieldId')  OBVIOUS
<1>2. /\ arrayDepth \in 0..MaxArrayNesting /\ MaxArrayNesting \in Nat
      /\ arrayIndices \in [Slots -> Nat]
  BY ParserAssumption DEF ParserInv, TypeOK
<1>3. Mark(kind) \in Pieces  BY DEF Mark, Pieces, Marks
<1>4. /\ fieldId' \in Seq(Pieces) /\ Len(fieldId') = Len(fieldId) + 1
      /\ arrayDepth' \in 0..MaxArrayNesting /\ arrayDepth' \in Nat
  <2>1. fieldId' \in Seq(Pieces) /\ Len(fieldId') = Len(fieldId) + 1
    BY <1>3, InsideFacts, AppendFacts
  <2>2. CASE kind = "lbracket"  BY <1>2, <2>1, <2>2
  <2>3. CASE kind # "lbracket"  BY <1>2, <2>1, <2>3
  <2> QED  BY <2>2, <2>3
<1>5. /\ e \in Frames /\ e.kind = kind /\ e.depth = arrayDepth' /\ e.path = fieldId'
      /\ e.elements = 0
  <2>1. PICK depth \in Nat : depth = arrayDepth'  BY <1>4
  <2>2. PICK id2 \in Seq(Pieces) : id2 = fieldId'  BY <1>4
  <2>3. e = Frame(kind, depth, id2)  BY <1>1, <2>1, <2>2
  <2>4. e \in Frames /\ e.kind = kind /\ e.depth = depth /\ e.path = id2 /\ e.elements = 0
    BY <2>3, FrameType
  <2> QED  BY <2>1, <2>2, <2>4
<1>6. Nested(fieldId', Append(open, e), dropped, keyed)
  BY <1>5, InsideFacts, OpeningNests
<1>7. Indexed(Append(open, e), arrayIndices', e.depth)
  <2>1. PICK indices2 : indices2 = arrayIndices'  OBVIOUS
  <2>2. /\ indices2 = IF e.kind = "lbracket" THEN [arrayIndices EXCEPT ![arrayDepth] = 0]
                      ELSE arrayIndices
        /\ e.depth = arrayDepth + (IF e.kind = "lbracket" THEN 1 ELSE 0)
        /\ e.kind = "lbracket" => arrayDepth < MaxArrayNesting
    BY <1>5, <2>1
  <2>3. Indexed(Append(open, e), indices2, e.depth)
    BY <1>2, <1>5, <2>2, InsideFacts, OpeningIndexed
  <2> QED  BY <2>1, <2>3
<1>8. Append(open, e) \in Seq(Frames) /\ Top(Append(open, e)) = e
  BY <1>5, InsideFacts, AppendFacts DEF Top
<1>9. arrayIndices' \in [Slots -> Nat]
  <2>1. CASE kind = "lbracket"  BY <1>2, <2>1
  <2>2. CASE kind # "lbracket"  BY <1>2, <2>2
  <2> QED  BY <2>1, <2>2
<1>10. Len(fieldId') <= MaxId
  <2>1. Len(fieldId) \in Nat /\ MaxId \in Nat  BY InsideFacts, ParserAssumption
  <2> QED  BY <1>4, <2>1
<1>11. TypeOK'
  BY <1>1, <1>4, <1>8, <1>9, <1>10 DEF ParserInv, TypeOK
<1>12. owed' = (IF state' \in ScalarStates THEN 1 ELSE 0) /\ called' = "start"
  BY DEF ParserInv, InsideInv
<1> QED  BY <1>1, <1>5, <1>6, <1>7, <1>8, <1>11, <1>12, BackInside

LEMMA OpenArrayKeeps ==
    ASSUME ParserInv, NEW c \in Chars, state = "jsVal", Sent(c), OpenArray(c)
    PROVE  ParserInv'
<1>1. Inside /\ ~InText /\ state \notin ScalarStates /\ c = "lbracket"
  BY DEF OpenArray, Inside, InText, ScalarStates, NumberStates
<1>2. CASE ~(arrayDepth < MaxArrayNesting /\ Len(fieldId) < MaxId)
  BY <1>1, <1>2, Fails DEF OpenArray, Goto
<1>3. CASE arrayDepth < MaxArrayNesting /\ Len(fieldId) < MaxId
  <2>1. /\ state' = "jsVal" /\ fieldId' = Append(fieldId, "^") /\ arrayDepth' = arrayDepth + 1
        /\ arrayIndices' = [arrayIndices EXCEPT ![arrayDepth] = 0]
        /\ open' = Read("lbracket", open)
        /\ UNCHANGED <<fieldVal, keyed, called, owed, dropped>>
    BY <1>1, <1>3 DEF OpenArray
  <2>2. open' = Append(open, Frame("lbracket", arrayDepth', fieldId'))
    BY <1>1, <2>1, ReadBrackets, InsideFacts
  <2>3. keyed \/ fieldId # <<"result">>  BY <1>1 DEF Sent
  <2>4. PICK kind \in {"lbrace", "lbracket"} : kind = "lbracket"  OBVIOUS
  <2>5. /\ fieldId' = Append(fieldId, Mark(kind))
        /\ arrayDepth' = arrayDepth + (IF kind = "lbracket" THEN 1 ELSE 0)
        /\ arrayIndices' = IF kind = "lbracket" THEN [arrayIndices EXCEPT ![arrayDepth] = 0]
                           ELSE arrayIndices
    BY <2>1, <2>4 DEF Mark
  <2>6. state' \in States /\ state' \notin ScalarStates /\ state' \notin {"jsExpectId", "jsId"}
    BY <2>1 DEF States, ScalarStates, NumberStates
  <2> QED  BY <1>1, <1>3, <2>1, <2>2, <2>3, <2>4, <2>5, <2>6, Opens
<1> QED  BY <1>2, <1>3

LEMMA OpenObjectKeeps ==
    ASSUME ParserInv, NEW c \in Chars, state = "jsVal", OpenObject(c)
    PROVE  ParserInv'
<1>1. Inside /\ ~InText /\ state \notin ScalarStates /\ c = "lbrace"
  BY DEF OpenObject, Inside, InText, ScalarStates, NumberStates
<1>2. CASE ~(Len(fieldId) < MaxId)
  BY <1>1, <1>2, Fails DEF OpenObject, CatId, Goto
<1>3. CASE Len(fieldId) < MaxId
  <2>1. /\ state' = "jsExpectId" /\ fieldId' = Append(fieldId, ":") /\ arrayDepth' = arrayDepth
        /\ arrayIndices' = arrayIndices /\ open' = Read("lbrace", open)
        /\ UNCHANGED <<fieldVal, keyed, called, owed, dropped>>
    BY <1>1, <1>3 DEF OpenObject, CatId, Goto, arrays
  <2>2. arrayDepth + 0 = arrayDepth  BY DEF ParserInv, TypeOK
  <2>3. PICK depth : depth = Top(open).depth + 0  OBVIOUS
  <2>4. depth = arrayDepth'  BY <1>1, <2>1, <2>2, <2>3, InsideFacts
  <2>5. open' = Append(open, Frame("lbrace", depth, fieldId'))
    BY <1>1, <2>1, <2>3, ReadBrackets
  <2>6. open' = Append(open, Frame("lbrace", arrayDepth', fieldId'))  BY <2>4, <2>5
  <2>7. PICK kind \in {"lbrace", "lbracket"} : kind = "lbrace"  OBVIOUS
  <2>8. /\ fieldId' = Append(fieldId, Mark(kind))
        /\ arrayDepth' = arrayDepth + (IF kind = "lbracket" THEN 1 ELSE 0)
        /\ arrayIndices' = IF kind = "lbracket" THEN [arrayIndices EXCEPT ![arrayDepth] = 0]
                           ELSE arrayIndices
    BY <2>1, <2>2, <2>7 DEF Mark
  <2>9. state' \in States /\ state' \notin ScalarStates
    BY <2>1 DEF States, ScalarStates, NumberStates
  <2> QED  BY <1>1, <1>3, <2>1, <2>6, <2>7, <2>8, <2>9, Opens
<1> QED  BY <1>2, <1>3

LEMMA EmptyArrayKeeps ==
    ASSUME ParserInv, NEW c, state = "jsVal", EmptyArray(c)
    PROVE  ParserInv'
<1>1. Inside /\ ~InText /\ state \notin ScalarStates
  BY DEF Inside, InText, ScalarStates, NumberStates
<1>2. Top(open).kind = "lbracket"  BY <1>1, InsideFacts DEF EmptyArray
<1>3. open' = Pop(open)
  BY <1>1, <1>2, InsideFacts, ReadBrackets DEF EmptyArray
<1>4. arrayDepth \in 0..MaxArrayNesting /\ MaxArrayNesting \in Nat
  BY ParserAssumption DEF ParserInv, TypeOK
<1>5. /\ RemoveLastIdChar(fieldId) \in Seq(Pieces)
      /\ Len(RemoveLastIdChar(fieldId)) <= Len(fieldId)
      /\ Pop(open) \in Seq(Frames) /\ arrayDepth # 0
      /\ Nested(RemoveLastIdChar(fieldId), Pop(open), dropped, keyed)
      /\ Indexed(Pop(open), arrayIndices, arrayDepth - 1)
  <2>1. PICK before : before = arrayDepth - 1  OBVIOUS
  <2>2. SameBut(arrayIndices, arrayIndices, before)  BY DEF SameBut
  <2>3. /\ fieldId \in Seq(Pieces) /\ open \in Seq(Frames) /\ dropped \in BOOLEAN
        /\ Nested(fieldId, open, dropped, keyed) /\ Indexed(open, arrayIndices, arrayDepth)
        /\ open[1].kind = "lbrace"
    BY <1>1, InsideFacts
  <2>4. /\ RemoveLastIdChar(fieldId) \in Seq(Pieces)
        /\ Len(RemoveLastIdChar(fieldId)) <= Len(fieldId)
        /\ Pop(open) \in Seq(Frames) /\ arrayDepth # 0
        /\ Nested(RemoveLastIdChar(fieldId), Pop(open), dropped, keyed)
        /\ Indexed(Pop(open), arrayIndices, before)
    BY <1>2, <2>1, <2>2, <2>3, ArrayCloses
  <2> QED  BY <2>1, <2>4
<1>6. /\ state' = "jsEndVal" /\ fieldId' = RemoveLastIdChar(fieldId)
      /\ arrayDepth' = arrayDepth - 1
      /\ UNCHANGED <<fieldVal, arrayIndices, keyed, called, owed, dropped>>
  BY <1>5 DEF EmptyArray, EndArray, Goto
<1>7. Len(fieldId') <= MaxId
  <2>1. Len(fieldId') \in Nat /\ Len(fieldId) \in Nat /\ MaxId \in Nat /\ Len(fieldId) <= MaxId
    BY <1>1, <1>5, <1>6, InsideFacts, ParserAssumption
  <2> QED  BY <1>5, <1>6, <2>1
<1>8. arrayDepth' \in 0..MaxArrayNesting  BY <1>4, <1>5, <1>6
<1>9. TypeOK'  BY <1>3, <1>5, <1>6, <1>7, <1>8 DEF ParserInv, TypeOK, States
<1>10. owed' = (IF state' \in ScalarStates THEN 1 ELSE 0) /\ called' = "start"
  BY <1>1, <1>6 DEF ParserInv, InsideInv, ScalarStates, NumberStates
<1> QED  BY <1>3, <1>5, <1>6, <1>9, <1>10, BackInside

LEMMA StartScalarKeeps ==
    ASSUME ParserInv, NEW c, state = "jsVal", StartScalar(c)
    PROVE  ParserInv'
<1>1. Inside /\ state \notin ScalarStates
  BY DEF Inside, ScalarStates, NumberStates
<1>2. c \notin {"newline", "lbrace", "rbrace", "lbracket", "rbracket", "comma"}
  BY DEF StartScalar, Letters, Names
<1>3. open' = open  BY <1>2, ReadPlain DEF StartScalar
<1>4. 0 \in 0..MaxVal /\ 1 \in 0..MaxVal  BY ParserAssumption
<1>5. state' \in ScalarStates /\ state' \in States /\ fieldVal' \in 0..MaxVal
      /\ state' \notin {"jsExpectId", "jsId"}
  BY <1>4 DEF StartScalar, Goto, ScalarStates, NumberStates, States
<1>6. UNCHANGED <<fieldId, arrays, keyed, called, dropped>>  BY DEF StartScalar
<1>7. owed' = 1 /\ called' = "start"
  <2>1. owed = 0 /\ called = "start"  BY <1>1 DEF ParserInv, InsideInv
  <2>2. owed' = owed + 1  BY DEF StartScalar
  <2> QED  BY <1>6, <2>1, <2>2
<1>8. TypeOK'  BY <1>3, <1>5, <1>6, <1>7 DEF ParserInv, TypeOK, arrays
<1>9. Nested(fieldId', open', dropped', keyed') /\ Indexed(open', arrayIndices', arrayDepth')
  BY <1>1, <1>3, <1>6, InsideFacts DEF arrays
<1> QED  BY <1>5, <1>7, <1>8, <1>9, BackInside

LEMMA ValKeeps ==
    ASSUME ParserInv, NEW c \in Chars, c # "newline", Sent(c), Val(c)
    PROVE  ParserInv'
<1>1. Inside /\ state = "jsVal"  BY DEF Val, Inside
<1>2. CASE c = "space" /\ Step(c, state)
  <2>1. Read(c, open) = open  BY <1>2, ReadPlain
  <2> QED  BY <1>1, <1>2, <2>1, StepStays DEF States
<1>3. CASE Fail(c)  BY <1>1, <1>3, StepFails
<1> QED
  BY <1>1, <1>2, <1>3, OpenArrayKeeps, OpenObjectKeeps, EmptyArrayKeeps, StartScalarKeeps DEF Val

LEMMA StringValKeeps ==
    ASSUME ParserInv, NEW c \in Chars, c # "newline", StringVal(c)
    PROVE  ParserInv'
<1>1. Inside /\ InText /\ state = "jsStringVal" /\ state \in ScalarStates
  BY DEF StringVal, Inside, InText, ScalarStates
<1>2. Read(c, open) = open  BY <1>1, ReadInText
<1>3. CASE /\ Goto("jsEndVal") /\ fieldId' = Path(TRUE) /\ Cleared(TRUE) /\ Reported(TRUE)
           /\ keyed' \in KeyedAfter(TRUE) /\ open' = Stack(TRUE) /\ UNCHANGED <<arrays, called>>
  <2>1. owed' = 0 /\ dropped' = DroppedAfter(TRUE) /\ called' = "start"
    BY <1>1, <1>3, OwedAfter
  <2>2. /\ fieldId' \in Seq(Pieces) /\ Len(fieldId') <= MaxId /\ open' \in Seq(Frames)
        /\ keyed' \in BOOLEAN /\ dropped' \in BOOLEAN
        /\ Nested(fieldId', open', dropped', keyed')
        /\ Indexed(open', arrayIndices, arrayDepth)
    BY <1>1, <1>3, <2>1, CallbackKeeps
  <2>3. state' = "jsEndVal" /\ fieldVal' = 0 /\ arrayIndices' = arrayIndices
        /\ arrayDepth' = arrayDepth
    BY <1>3 DEF Goto, Cleared, arrays
  <2>4. /\ 0 \in 0..MaxVal /\ 0 \in Int
        /\ arrayIndices \in [Slots -> Nat] /\ arrayDepth \in 0..MaxArrayNesting
    BY ParserAssumption DEF ParserInv, TypeOK
  <2>5. fieldVal' \in 0..MaxVal /\ owed' \in Int  BY <2>1, <2>3, <2>4
  <2>6. arrayIndices' \in [Slots -> Nat] /\ arrayDepth' \in 0..MaxArrayNesting
    BY <2>3, <2>4
  <2>7. state' \in States /\ called' \in {"none", "start", "end", "error"}
    BY <2>1, <2>3 DEF States
  <2>8. TypeOK'  BY <2>2, <2>5, <2>6, <2>7 DEF TypeOK
  <2> QED  BY <2>1, <2>2, <2>3, <2>8, BackInside DEF ScalarStates, NumberStates
<1>4. CASE Step(c, "jsStringEscape")
  BY <1>1, <1>2, <1>4, StepStays DEF States, ScalarStates
<1>5. CASE Fail(c)  BY <1>1, <1>5, StepFails
<1>6. CASE /\ fieldVal' = IF fieldVal < MaxVal THEN fieldVal + 1 ELSE fieldVal
           /\ UNCHANGED <<state, fieldId, arrays, keyed, called, open, owed, dropped>>
  <2>1. fieldVal' \in 0..MaxVal
    <3>1. fieldVal \in 0..MaxVal /\ MaxVal \in Nat  BY ParserAssumption DEF ParserInv, TypeOK
    <3> QED  BY <1>6, <3>1
  <2> QED  BY <1>1, <1>6, <2>1, Stays DEF States
<1> QED  BY <1>3, <1>4, <1>5, <1>6 DEF StringVal

LEMMA StringEscapeKeeps ==
    ASSUME ParserInv, NEW c, StringEscape(c)
    PROVE  ParserInv'
<1>1. Inside /\ state = "jsStringEscape" /\ state \in ScalarStates /\ state' = "jsStringVal"
      /\ UNCHANGED <<fieldId, arrays, keyed, called, open, owed, dropped>>
  BY DEF StringEscape, Inside, ScalarStates, Goto
<1>2. fieldVal' \in 0..MaxVal
  <2>1. fieldVal \in 0..MaxVal /\ MaxVal \in Nat  BY ParserAssumption DEF ParserInv, TypeOK
  <2>2. fieldVal' = fieldVal \/ (fieldVal < MaxVal /\ fieldVal' = fieldVal + 1)
    BY DEF StringEscape
  <2> QED  BY <2>1, <2>2
<1>3. state' \in States /\ state' \in ScalarStates  BY <1>1 DEF States, ScalarStates
<1> QED  BY <1>1, <1>2, <1>3, Stays

LEMMA CheckValueCompletedKeeps ==
    ASSUME ParserInv, Inside, ~InText, NEW c \in Chars, NEW p \in BOOLEAN,
           p <=> state \in ScalarStates, CheckValueCompleted(c, p)
    PROVE  ParserInv'
<1>1. CASE Comma(p)  BY <1>1, CommaKeeps
<1>2. CASE CloseArray(p)  BY <1>2, CloseArrayKeeps
<1>3. CASE ~InArray /\ EndObject(p)
  <2>1. Top(open).kind = "lbrace"  BY <1>3, InsideFacts
  <2> QED  BY <1>3, <2>1, EndObjectKeeps
<1>4. CASE Fail(c)  BY <1>4, StepFails
<1> QED  BY <1>1, <1>2, <1>3, <1>4 DEF CheckValueCompleted

LEMMA NumberOrWordKeeps ==
    ASSUME ParserInv, NEW c \in Chars, c # "newline", NumberOrWord(c)
    PROVE  ParserInv'
<1>1. Inside /\ ~InText /\ state \in ScalarStates
  BY DEF NumberOrWord, Inside, InText, ScalarStates, NumberStates
<1>2. CASE MayEnd /\ c \in {"comma", "rbracket", "rbrace"}
  <2>1. CheckValueCompleted(c, TRUE)  BY <1>2 DEF NumberOrWord
  <2> QED  BY <1>1, <2>1, CheckValueCompletedKeeps
<1>3. CASE ~(MayEnd /\ c \in {"comma", "rbracket", "rbrace"})
  <2>1. /\ IF Follows(c) = "jsError" THEN Goto("jsError") /\ UNCHANGED fieldVal
           ELSE CatVal(Follows(c))
        /\ UNCHANGED <<fieldId, arrays, keyed, called, owed, dropped>>
        /\ open' = Read(c, open)
    BY <1>3 DEF NumberOrWord
  <2>2. CASE Follows(c) = "jsError" \/ ~(fieldVal < MaxVal)
    <3>1. state' = "jsError" /\ fieldVal' = fieldVal  BY <2>1, <2>2 DEF CatVal, Goto
    <3> QED  BY <1>1, <2>1, <3>1, Fails
  <2>3. CASE Follows(c) # "jsError" /\ fieldVal < MaxVal
    <3>1. /\ Follows(c) \in ScalarStates /\ Follows(c) \in States
          /\ Follows(c) \notin {"jsExpectId", "jsId"}
          /\ c \notin {"newline", "lbrace", "rbrace", "lbracket", "rbracket", "comma"}
      <4>1. Follows(c) \in {"jsIntVal", "jsFracVal", "jsExpValSign", "jsExpValFirstDigit",
                            "jsExpValDigits", "jsCharsVal"}
            /\ c \in {"0", ".", "-", "+", "E"} \cup Letters
        BY <2>3 DEF Follows, Letters
      <4>2. c \notin {"newline", "lbrace", "rbrace", "lbracket", "rbracket", "comma"}
        BY <4>1 DEF Letters, Names
      <4> QED  BY <4>1, <4>2 DEF ScalarStates, NumberStates, States
    <3>2. state' = Follows(c) /\ fieldVal' = fieldVal + 1  BY <2>1, <2>3 DEF CatVal, Goto
    <3>3. fieldVal' \in 0..MaxVal
      <4>1. fieldVal \in 0..MaxVal /\ MaxVal \in Nat  BY ParserAssumption DEF ParserInv, TypeOK
      <4> QED  BY <2>3, <3>2, <4>1
    <3>4. open' = open  BY <2>1, <3>1, ReadPlain
    <3> QED  BY <1>1, <2>1, <3>1, <3>2, <3>3, <3>4, Stays
  <2> QED  BY <2>2, <2>3
<1> QED  BY <1>2, <1>3

LEMMA EndValKeeps ==
    ASSUME ParserInv, NEW c \in Chars, c # "newline", EndVal(c)
    PROVE  ParserInv'
<1>1. Inside /\ ~InText /\ state \notin ScalarStates
  BY DEF EndVal, Inside, InText, ScalarStates, NumberStates
<1>2. CASE CheckValueCompleted(c, FALSE)  BY <1>1, <1>2, CheckValueCompletedKeeps
<1>3. CASE Fail(c)  BY <1>1, <1>3, StepFails
<1> QED  BY <1>2, <1>3 DEF EndVal

LEMMA NewlineKeeps ==
    ASSUME ParserInv, Newline
    PROVE  ParserInv'
<1>1. /\ state' = "jsBegin" /\ called' = (IF state = "jsError" THEN "error" ELSE called)
      /\ open' = <<>> /\ UNCHANGED <<fieldId, fieldVal, arrays, keyed, owed, dropped>>
  BY DEF Newline, Goto, Read
<1>2. TypeOK'
  <2>1. <<>> \in Seq(Frames)  OBVIOUS
  <2> QED  BY <1>1, <2>1 DEF ParserInv, TypeOK, States, arrays
<1>3. Len(open') <= Surplus(dropped')
  <2>1. dropped' \in BOOLEAN  BY <1>2 DEF TypeOK
  <2>2. Surplus(dropped') \in Nat  BY <2>1, SurplusNat
  <2>3. Len(open') = 0  BY <1>1
  <2> QED  BY <2>2, <2>3
<1>4. ~Inside'  BY <1>1 DEF Inside
<1> QED  BY <1>1, <1>2, <1>3, <1>4 DEF ParserInv

-----------------------------------------------------------------------------
(* The invariant, and the properties from it.                               *)

LEMMA InitParserInv == Init => ParserInv
<1> SUFFICES ASSUME Init PROVE ParserInv  OBVIOUS
<1>1. <<>> \in Seq(Frames) /\ <<>> \in Seq(Pieces) /\ Len(<<>>) <= MaxId
  BY ParserAssumption
<1>2. arrayIndices \in [Slots -> Nat]  BY DEF Init
<1>3. TypeOK
  <2>1. 0 \in 0..MaxVal /\ 0 \in 0..MaxArrayNesting /\ 0 \in Int  BY ParserAssumption
  <2> QED  BY <1>1, <1>2, <2>1 DEF Init, TypeOK, States
<1>4. ~Inside /\ called # "end"  BY DEF Init, Inside
<1> QED  BY <1>3, <1>4 DEF ParserInv

LEMMA StepParserInv == ParserInv /\ [Next]_vars => ParserInv'
<1> SUFFICES ASSUME ParserInv, [Next]_vars PROVE ParserInv'  OBVIOUS
<1>1. CASE UNCHANGED vars
  <2>1. TypeOK'  BY <1>1 DEF ParserInv, TypeOK, vars, arrays
  <2>2. InsideInv' <=> InsideInv  BY <1>1 DEF InsideInv, vars, arrays
  <2>3. Inside' <=> Inside  BY <1>1 DEF Inside, vars
  <2> QED  BY <1>1, <2>1, <2>2, <2>3 DEF ParserInv, vars
<1>2. ASSUME NEW c \in Input, CheckInput(c) PROVE ParserInv'
  <2>1. c \in Chars  BY ParserAssumption
  <2>2. CASE Newline  BY <2>2, NewlineKeeps
  <2>3. CASE /\ c # "newline" /\ Sent(c)
             /\ \/ StartReceivedMessage(c) \/ Ignore(c) \/ ExpectId(c) \/ Id(c) \/ HadId(c)
                \/ Val(c) \/ StringVal(c) \/ StringEscape(c) \/ NumberOrWord(c) \/ EndVal(c)
    BY <2>1, <2>3, StartKeeps, IgnoreKeeps, ExpectIdKeeps, IdKeeps, HadIdKeeps, ValKeeps,
       StringValKeeps, StringEscapeKeeps, NumberOrWordKeeps, EndValKeeps
  <2> QED  BY <1>2, <2>2, <2>3 DEF CheckInput
<1> QED  BY <1>1, <1>2 DEF Next

LEMMA ParserInvariant == Spec => []ParserInv
BY InitParserInv, StepParserInv, PTL DEF Spec

\* The variables of the parser stay in their types: the name and the value within their
\* buffers, the arrays open within arrayIndices.
THEOREM TypesOfTheParser == Spec => []TypeOK
<1>1. ParserInv => TypeOK  BY DEF ParserInv
<1> QED  BY <1>1, ParserInvariant, PTL

\* A value is reported under the name of the bracket it is in and its own, however deep the
\* brackets are nested and whatever the callback renames.
THEOREM NamesFollowTheBrackets == Spec => []PathIsNesting
<1>1. ParserInv => PathIsNesting
  <2> SUFFICES ASSUME ParserInv, Inside
               PROVE  LET path == Top(open).path
                      IN  /\ Len(path) <= Len(fieldId) /\ SubSeq(fieldId, 1, Len(path)) = path
                          /\ \A i \in (Len(path) + 1)..Len(fieldId) : fieldId[i] \notin Marks
                          /\ Top(open).kind = "lbracket" <=> EndsWith(path, "^")
    BY DEF PathIsNesting
  <2>1. PICK path : path = Top(open).path  OBVIOUS
  <2>2. /\ fieldId \in Seq(Pieces) /\ open \in Seq(Frames) /\ dropped \in BOOLEAN
        /\ Nested(fieldId, open, dropped, keyed)
    BY InsideFacts
  <2>3. Len(open) \in 1..Len(open) /\ path \in Seq(Pieces) /\ Len(path) \in Nat
    BY <2>1, <2>2, TopIsLast, StackTypes DEF Top
  <2>4. /\ Len(path) \in 0..Len(fieldId) /\ IsPrefix(path, fieldId)
        /\ \A i \in (Len(path) + 1)..Len(fieldId) : fieldId[i] \notin Marks
    BY <2>1, <2>2, TopIsLast
  <2>5. SubSeq(fieldId, 1, Len(path)) = path
    <3>1. PICK s : s = SubSeq(fieldId, 1, Len(path))  OBVIOUS
    <3>2. /\ s \in Seq(Pieces) /\ Len(s) = Len(path)
          /\ \A k \in 1..Len(path) : s[k] = path[k]
      BY <2>2, <2>4, <3>1, FirstPart DEF IsPrefix
    <3>3. PICK n \in Nat : n = Len(path)  BY <2>3
    <3>4. s \in [1..n -> Pieces] /\ path \in [1..n -> Pieces]  BY <2>3, <3>2, <3>3
    <3>5. \A k \in 1..n : s[k] = path[k]  BY <3>2, <3>3
    <3>6. s = path  BY <3>4, <3>5
    <3> QED  BY <3>1, <3>6
  <2>6. Top(open).kind = "lbracket" <=> EndsWith(path, "^")
    <3>1. CASE Len(open) <= 1 + Surplus(dropped)
      <4>1. Len(path) = 0 /\ Top(open).kind = "lbrace"  BY <2>1, <2>2, <3>1, TopIsLast
      <4>2. path = <<>>  BY <2>3, <4>1
      <4> QED  BY <4>1, <4>2 DEF EndsWith
    <3>2. CASE Len(open) > 1 + Surplus(dropped)
      <4>1. Len(path) > 0 /\ fieldId[Len(path)] = Mark(Top(open).kind)
        BY <2>1, <2>2, <3>2, TopIsLast
      <4>2. Len(path) \in 1..Len(path) /\ path # <<>>  BY <2>3, <4>1
      <4>3. path[Len(path)] = Mark(Top(open).kind)  BY <2>4, <4>1, <4>2 DEF IsPrefix
      <4> QED  BY <4>2, <4>3 DEF EndsWith, Mark
    <3>3. Len(open) \in Nat /\ Surplus(dropped) \in Nat  BY <2>2, SurplusNat
    <3> QED  BY <3>1, <3>2, <3>3
  <2>7. Len(path) <= Len(fieldId)  BY <2>4
  <2> QED  BY <2>1, <2>4, <2>5, <2>6, <2>7
<1> QED  BY <1>1, ParserInvariant, PTL

\* The indices reported with a value are the numbers of values before it in the arrays it is
\* in, for any depth.
THEOREM IndicesFollowTheArrays == Spec => []IndicesCount
<1>1. ParserInv => IndicesCount
  <2> SUFFICES ASSUME ParserInv, Inside
               PROVE  /\ arrayDepth = Top(open).depth
                      /\ \A i \in 1..Len(open) : open[i].kind = "lbracket" =>
                           arrayIndices[open[i].depth - 1] = open[i].elements
    BY DEF IndicesCount
  <2> QED  BY InsideFacts DEF Indexed, Counts
<1> QED  BY <1>1, ParserInvariant, PTL

\* The callback is made once for every scalar value, and for nothing else.
THEOREM ValuesAreReportedOnce == Spec => []ReportedOnce
<1>1. ParserInv => ReportedOnce  BY DEF ParserInv, InsideInv, ReportedOnce
<1> QED  BY <1>1, ParserInvariant, PTL

\* A message ends at the bracket that closes it, or at that of a "result" whose name was
\* taken away.
THEOREM MessagesEndWhole == Spec => []EndsWhole
<1>1. ParserInv => EndsWhole
  <2> SUFFICES ASSUME ParserInv
               PROVE  /\ called = "end" => Len(open) <= Surplus(dropped)
                      /\ Inside => called = "start" /\ Len(open) > Surplus(dropped)
    BY DEF EndsWhole, Surplus
  <2>1. called = "end" => Len(open) <= Surplus(dropped)  BY DEF ParserInv
  <2>2. ASSUME Inside PROVE called = "start" /\ Len(open) > Surplus(dropped)
    <3>1. Len(open) >= 1 + Surplus(dropped)  BY <2>2, InsideFacts DEF Nested
    <3>2. Len(open) \in Nat /\ Surplus(dropped) \in Nat  BY <2>2, InsideFacts, SurplusNat
    <3>3. called = "start"  BY <2>2 DEF ParserInv, InsideInv
    <3> QED  BY <3>1, <3>2, <3>3
  <2> QED  BY <2>1, <2>2
<1> QED  BY <1>1, ParserInvariant, PTL
=============================================================================
