----------------------------- MODULE ObjectModel -----------------------------
(***************************************************************************)
(* The beds, chambers and tools the panel knows (src/ObjectModel: lists of  *)
(* them by index; src/PanelDue.cpp: how "heat" and "tools" fill them) and   *)
(* the columns of the screen they are shown in                              *)
(* (src/UI/UserInterface.cpp: AllToolsSeen).                                *)
(*                                                                         *)
(* The answer to a key tells what there is, by ascending index, with gaps.  *)
(* What is missing in a gap is removed at the next index told, what is      *)
(* missing at the end when the array ends.  Of a bed or a chamber only its  *)
(* being there is kept, of a tool how many heaters it has; spindles and     *)
(* extruders, for which a tool has one column, are left out.                *)
(***************************************************************************)
EXTENDS Integers, Sequences, FiniteSets, SequencesExt

CONSTANTS
    MaxSlots,     \* columns; and how long a list may be
    Beds, Chambers, Tools,  \* indices the printer uses
    ToolHeaters,  \* how many heaters a tool may have
    MaxAnswers,   \* bound: answers received
    MaxToggles,   \* bound: how often the user combines heaters or no longer does
    MaxDamaged    \* bound: answers cut off

VARIABLES
    known,        \* the lists: by kind, heaters and slot (column) by index
    last,         \* lastBed, lastChamber, lastTool
    combined,     \* a tool's heaters share one column
    initialized,  \* every key has been asked for once
    numToolColsUsed,
    answer,       \* being received: what it tells and how far it has come
    told,         \* history: by kind, what a whole answer told last; NotTold if it was
                  \* cut off, or if an element of it found the list full
    answers, toggles, damaged

counts == <<answers, toggles, damaged>>
omVars == <<known, last, combined, initialized, numToolColsUsed, answer, told, counts>>

Kinds == {"bed", "chamber", "tool"}
Indices == [bed |-> Beds, chamber |-> Chambers, tool |-> Tools]
Nothing == [i \in {} |-> 0]
NotTold == [i \in {-1} |-> 0]
NoAnswer == [kind |-> "none"]

\* How many heaters an element may have that the printer tells of; a bed has one.
Counts(kind) == IF kind = "tool" THEN ToolHeaters ELSE {1}
Configurations(kind) == UNION {[S -> Counts(kind)] : S \in SUBSET Indices[kind]}

OMInit ==
    /\ known = [k \in Kinds |-> Nothing] /\ last = [k \in Kinds |-> -1]
    /\ combined \in BOOLEAN /\ initialized = FALSE /\ numToolColsUsed = 0
    /\ answer = NoAnswer /\ told = [k \in Kinds |-> NotTold]
    /\ answers = 0 /\ toggles = 0 /\ damaged = 0

-----------------------------------------------------------------------------
(* The lists.                                                               *)

\* GetOrCreate: a new element is not shown yet; a full list takes none.
GetOrCreate(list, i) ==
    IF i \in DOMAIN list \/ Cardinality(DOMAIN list) = MaxSlots THEN list
    ELSE [j \in DOMAIN list \cup {i} |->
             IF j = i THEN [heaters |-> 0, slot |-> MaxSlots] ELSE list[j]]

Without(list, S) == [j \in DOMAIN list \ S |-> list[j]]

\* Mutant: only the index before is looked at.
RemoveGapOne(list, from, to) == Without(list, {to - 1} \cap from..(to - 1))

RemoveGap(list, from, to) == Without(list, from..(to - 1))

\* Mutant: one element.
RemoveRestOne(list, from) == Without(list, {from})

RemoveRest(list, from) == Without(list, {i \in DOMAIN list : i >= from})

-----------------------------------------------------------------------------
(* The columns.                                                             *)

\* By ascending index.
Order(S) ==
    CHOOSE order \in [1..Cardinality(S) -> S] : \A i, j \in DOMAIN order : i < j => order[i] < order[j]

\* The columns an element takes; a bed or a chamber has one heater.
Width(e, together) == IF together \/ e.heaters = 0 THEN 1 ELSE e.heaters

AtMost(n) == IF n < MaxSlots THEN n ELSE MaxSlots

\* Mutant: the tool shown last takes its columns whatever is left.
ColumnsAfterAll(slot, e, together) == slot + Width(e, together)

ColumnsAfter(slot, e, together) == AtMost(slot + Width(e, together))

\* AddBedOrChamber for the first of a kind, if there is one: shown if a column is left.
AddFirst(kind, s) ==
    IF DOMAIN s.known[kind] = {} THEN s
    ELSE [known |-> [s.known EXCEPT ![kind][Min(DOMAIN s.known[kind])].slot = s.slot],
          slot |-> AtMost(s.slot + 1)]

\* AddBedOrChamber, or the tools' loop, for the others while a column is left.
AddOthers(kind, list, together, s) ==
    FoldLeft(LAMBDA t, i :
                 IF t.slot >= MaxSlots THEN t
                 ELSE [known |-> [t.known EXCEPT ![kind][i].slot = t.slot],
                       slot |-> ColumnsAfter(t.slot, t.known[kind][i], together)],
             s, list)

NotFirst(list) == IF list = <<>> THEN <<>> ELSE Tail(list)

\* The first bed, the tools, the first chamber, and if there is room the others.
AllToolsSeen(lists, together) ==
    LET start == [known |-> lists, slot |-> 0]
        bed == AddFirst("bed", start)
        tools == AddOthers("tool", Order(DOMAIN lists.tool), together, bed)
        chamber == AddFirst("chamber", tools)
        beds == AddOthers("bed", NotFirst(Order(DOMAIN lists.bed)), together, chamber)
        all == AddOthers("chamber", NotFirst(Order(DOMAIN lists.chamber)), together, beds)
    IN  known' = all.known /\ numToolColsUsed' = all.slot

SeenIfInitialized(lists) ==
    IF initialized THEN AllToolsSeen(lists, combined)
    ELSE known' = lists /\ UNCHANGED numToolColsUsed

-----------------------------------------------------------------------------
(* The printer and its answers.                                             *)

\* The answer to "heat" or to "tools" begins.
Key(first, kinds) ==
    /\ answer = NoAnswer /\ answers < MaxAnswers /\ answers' = answers + 1
    /\ \E c \in [kinds -> UNION {Configurations(k) : k \in kinds}] :
         /\ \A k \in kinds : c[k] \in Configurations(k)
         /\ answer' = [kind |-> first, left |-> Order(DOMAIN c[first]), of |-> c,
                       part |-> "element", full |-> FALSE]
    /\ last' = [k \in Kinds |-> IF k \in kinds THEN -1 ELSE last[k]]
    /\ UNCHANGED <<known, combined, initialized, numToolColsUsed, told, toggles, damaged>>

HeatKey == Key("bed", {"bed", "chamber"})
ToolsKey == Key("tool", {"tool"})

Coming(part) == answer # NoAnswer /\ answer.part = part /\ answer.left # <<>>

Refused(list, i) == i \notin DOMAIN GetOrCreate(list, i)

\* The heater of a bed or a chamber: what is missing before it is removed.
ReceiveHeater ==
    /\ Coming("element") /\ answer.kind # "tool"
    /\ LET k == answer.kind
           i == Head(answer.left)
           list == GetOrCreate(known[k], i)
       IN  /\ known' = [known EXCEPT ![k] =
                  RemoveGap(IF i \in DOMAIN list THEN [list EXCEPT ![i].heaters = 1] ELSE list,
                            last[k] + 1, i)]
           /\ last' = [last EXCEPT ![k] = i]
           /\ answer' = [answer EXCEPT !.left = Tail(@), !.full = @ \/ Refused(known[k], i)]
    /\ UNCHANGED <<combined, initialized, numToolColsUsed, told, counts>>

\* A tool's temperatures and heaters, and the end of its heaters: those beyond are removed.
ReceiveTool ==
    /\ Coming("element") /\ answer.kind = "tool"
    /\ LET i == Head(answer.left)
           list == GetOrCreate(known.tool, i)
           n == answer.of.tool[i]
       IN  /\ IF i \in DOMAIN list
              THEN LET new == [known EXCEPT !.tool = [list EXCEPT ![i].heaters = n]]
                   IN  IF n < list[i].heaters THEN SeenIfInitialized(new)
                       ELSE known' = new /\ UNCHANGED numToolColsUsed
              ELSE UNCHANGED <<known, numToolColsUsed>>
           /\ answer' = [answer EXCEPT !.part = "number", !.full = @ \/ Refused(known.tool, i)]
    /\ UNCHANGED <<last, combined, initialized, told, counts>>

\* A tool's number, after which its offsets may still find room for it, and its standby
\* temperatures give it its heaters.
ReceiveNumber ==
    /\ Coming("number")
    /\ LET i == Head(answer.left)
           list == GetOrCreate(RemoveGap(known.tool, last.tool + 1, i), i)
           n == answer.of.tool[i]
       IN  /\ known' = [known EXCEPT !.tool =
                  IF i \in DOMAIN list THEN [list EXCEPT ![i].heaters = n] ELSE list]
           /\ last' = [last EXCEPT !.tool = i]
    /\ answer' = [answer EXCEPT !.left = Tail(@), !.part = "element"]
    /\ UNCHANGED <<combined, initialized, numToolColsUsed, told, counts>>

\* The end of the array, if the printer tells of anything.  After the beds come the chambers.
ArrayEnd ==
    /\ answer # NoAnswer /\ answer.part = "element" /\ answer.left = <<>>
    /\ LET k == answer.kind
           whole == answer.of[k]
       IN  /\ IF DOMAIN whole = {} /\ k = "tool"
              THEN UNCHANGED <<known, numToolColsUsed, told>>
              ELSE /\ SeenIfInitialized([known EXCEPT ![k] = RemoveRest(@, last[k] + 1)])
                   /\ told' = [told EXCEPT ![k] = IF answer.full THEN NotTold ELSE whole]
           /\ answer' = IF k = "bed"
                        THEN [answer EXCEPT !.kind = "chamber", !.full = FALSE,
                                            !.left = Order(DOMAIN answer.of.chamber)]
                        ELSE NoAnswer
    /\ UNCHANGED <<last, combined, initialized, counts>>

\* The rest of the answer is lost.
AnswerIsCutOff ==
    /\ answer # NoAnswer /\ answer' = NoAnswer
    /\ damaged < MaxDamaged /\ damaged' = damaged + 1
    /\ told' = [told EXCEPT ![answer.kind] = NotTold]
    /\ UNCHANGED <<known, last, combined, initialized, numToolColsUsed, answers, toggles>>

\* The main loop has nothing left to ask for.
Initialize ==
    /\ answer = NoAnswer /\ ~initialized /\ initialized' = TRUE
    /\ AllToolsSeen(known, combined)
    /\ UNCHANGED <<last, combined, answer, told, counts>>

ChangeHeaterCombineType ==
    /\ toggles < MaxToggles /\ toggles' = toggles + 1
    /\ combined' = ~combined /\ AllToolsSeen(known, ~combined)
    /\ UNCHANGED <<last, initialized, answer, told, answers, damaged>>

OMNext ==
    \/ HeatKey \/ ToolsKey \/ ReceiveHeater \/ ReceiveTool \/ ReceiveNumber \/ ArrayEnd
    \/ AnswerIsCutOff \/ Initialize \/ ChangeHeaterCombineType

OMSpec == OMInit /\ [][OMNext]_omVars

-----------------------------------------------------------------------------
(* Properties.                                                              *)

Heaters(list) == [i \in DOMAIN list |-> list[i].heaters]

\* After an answer that arrived whole the panel knows just what the printer told: what has
\* gone is removed, at the front, in a gap and at the end, however much of earlier answers
\* was lost; unless the list was full before what has gone was removed.
ListIsTold ==
    \A k \in Kinds :
        (answer = NoAnswer \/ answer.kind # k) /\ told[k] # NotTold => Heaters(known[k]) = told[k]

Elements == {<<k, i>> : k \in Kinds, i \in UNION {DOMAIN known[k2] : k2 \in Kinds}}
Shown == {e \in Elements : e[2] \in DOMAIN known[e[1]]}

Columns(e) ==
    LET shown == known[e[1]][e[2]]
    IN  shown.slot..(AtMost(shown.slot + Width(shown, combined)) - 1)

\* No answer is under way and none was damaged that was not asked for again.
Settled == initialized /\ answer = NoAnswer /\ \A k \in Kinds : told[k] # NotTold

\* The columns in use are those of what is known, without a hole and never beyond the last
\* one: every column that is updated or touched belongs to something there is.  If there
\* are enough of them for everything, no two things share one.
ColumnsAreOfElements ==
    /\ numToolColsUsed <= MaxSlots
    /\ Settled =>
          /\ UNION {Columns(e) : e \in Shown} = 0..(numToolColsUsed - 1)
          /\ MapThenSumSet(LAMBDA e : Width(known[e[1]][e[2]], combined), Shown) <= MaxSlots =>
                 \A e, f \in Shown : e # f => Columns(e) \cap Columns(f) = {}
=============================================================================
