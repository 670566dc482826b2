-------------------------------- MODULE Adjust --------------------------------
(***************************************************************************)
(* Setting a temperature (src/UI/UserInterface.cpp: evAdjust..Temp,         *)
(* evAdjustInt, evSetInt): the user touches a column's field, changes its   *)
(* value in a popup and touches Set, while the printer goes on telling of   *)
(* temperatures and tools.                                                  *)
(*                                                                         *)
(* The value under way is kept nowhere but in the field, and what it is for *)
(* nowhere but in the field's event.  Of the columns, which ObjectModel     *)
(* models, there is one bed, always the first, and the tools after it; the  *)
(* active temperatures stand for the standby ones, which have fields of     *)
(* their own.                                                               *)
(***************************************************************************)
EXTENDS Integers, Sequences, FiniteSets, FiniteSetsExt, SequencesExt

CONSTANTS
    Tools,       \* indices of tools
    MaxSlots,    \* columns
    MaxHeaters,  \* MaxHeatersPerTool
    MaxTemp,     \* 1600
    MaxChoices,  \* bound: touches of a field
    MaxChanges   \* bound: what the printer tells, boxes and changes of status

VARIABLES
    temps,    \* by tool known, the active temperatures of its heaters, by heater
    slots,    \* by tool known, its first column
    fields,   \* activeTemps: by column, what it is of and its value
    used,     \* numToolColsUsed
    oneColumn,  \* the heaters of a tool are combined
    fieldBeingAdjusted,  \* a column, MaxSlots for none
    windows,  \* popups displayed, the last one on top
    sent,     \* the command that Set has sent
    chosen,   \* history: what the popup was opened for, and the value the user gave it
    relaid,   \* history: the columns were given out anew since then
    choices, changes

adjustVars ==
    <<temps, slots, fields, used, oneColumn, fieldBeingAdjusted, windows, sent, chosen, relaid,
      choices, changes>>
columns == <<slots, fields, used>>
history == <<sent, chosen, relaid>>

Bed == -1
NoElement == -2
NoColumn == MaxSlots
Nothing == [of |-> NoElement]

\* IterateHeaters, GetHeaterTemps: up to the first that a tool does not have.
Heaters(heaters) == {h \in DOMAIN heaters : 0..h \subseteq DOMAIN heaters}

Width(t, tools) == IF oneColumn THEN 1 ELSE Max({1, Cardinality(Heaters(tools[t]))})

\* The columns before a tool's.
Before(t, tools) == 1 + MapThenSumSet(LAMBDA u : Width(u, tools), {u \in DOMAIN tools : u < t})

ColumnsOf(t, tools) == Before(t, tools)..(Before(t, tools) + Width(t, tools) - 1)

\* The tools reached, the column after theirs, and what a column before it is of.
Seen(tools) == {t \in DOMAIN tools : Before(t, tools) < MaxSlots}
After(tools) == Max({1} \cup {Before(t, tools) + Width(t, tools) : t \in Seen(tools)})
ColumnIsOf(c, tools) ==
    IF c = 0 THEN Bed ELSE CHOOSE t \in Seen(tools) : c \in ColumnsOf(t, tools)

\* AllToolsSeen: each field gets an event anew, and 0.  A tool for which no column is
\* left is not reached, and keeps its slot; a column no longer used its event.
AllToolsSeen(tools, old) ==
    /\ slots' = [t \in DOMAIN tools |-> IF t \in Seen(tools) THEN Before(t, tools) ELSE old[t]]
    /\ used' = Min({After(tools), MaxSlots})
    /\ fields' = [c \in 0..(MaxSlots - 1) |->
           IF c < After(tools) THEN [of |-> ColumnIsOf(c, tools), value |-> 0] ELSE fields[c]]

AdjustInit ==
    /\ temps \in {[t \in Tools |-> [h \in 0..(IF t = several THEN 1 ELSE 0) |-> 0]] :
                     several \in Tools \cup {NoElement}}
    /\ oneColumn \in BOOLEAN
    /\ slots = [t \in Tools |-> Before(t, temps)]
    /\ used = Min({After(temps), MaxSlots})
    /\ fields = [c \in 0..(MaxSlots - 1) |->
           [of |-> IF c < used THEN ColumnIsOf(c, temps) ELSE NoElement, value |-> 0]]
    /\ fieldBeingAdjusted = NoColumn /\ windows = <<>>
    /\ sent = Nothing /\ chosen = Nothing /\ relaid = FALSE
    /\ choices = 0 /\ changes = 0

-----------------------------------------------------------------------------
(* The user.                                                                *)

Confined(value) == Max({0, Min({MaxTemp, value})})

\* What a column's field is of, as long as the columns are not given out anew.
HeaterOf(c) ==
    IF oneColumn \/ fields[c].of \notin DOMAIN slots THEN 0 ELSE c - slots[fields[c].of]

\* evAdjustToolActiveTemp, evAdjustBedActiveTemp.
Adjusting ==
    /\ windows = <<>> /\ choices < MaxChoices /\ choices' = choices + 1
    /\ \E c \in 0..(used - 1) :
         /\ LET value == Max({0, fields[c].value})
            IN  /\ fields' = [fields EXCEPT ![c].value = value]
                /\ chosen' = [of |-> fields[c].of, heater |-> HeaterOf(c), value |-> value]
         /\ fieldBeingAdjusted' = c
    /\ windows' = <<"setTemp">> /\ relaid' = FALSE /\ sent' = Nothing
    /\ UNCHANGED <<temps, slots, used, oneColumn, changes>>

OnTop(window) == windows # <<>> /\ Last(windows) = window

Touchable == OnTop("setTemp") /\ fieldBeingAdjusted # NoColumn

AdjustInt ==
    /\ Touchable
    /\ \E change \in {-1, 1} :
         /\ fields' = [fields EXCEPT ![fieldBeingAdjusted].value = Confined(@ + change)]
         /\ chosen' = [chosen EXCEPT !.value = Confined(@ + change)]
    /\ UNCHANGED <<temps, slots, used, oneColumn, fieldBeingAdjusted, windows, sent, relaid,
                   choices, changes>>

\* UpdateTemp: a heater the tool did not have is created.
WithTemp(t, h, value) ==
    IF h >= MaxHeaters THEN temps
    ELSE [temps EXCEPT ![t] = [i \in DOMAIN @ \cup {h} |-> IF i = h THEN value ELSE @[i]]]

\* The command for a tool, with all its heaters' temperatures if they have columns of their
\* own: nothing for a tool that has gone, or whose columns lie after the field's.
SetTool(t, value) ==
    LET heater == IF oneColumn THEN 0 ELSE fieldBeingAdjusted - slots[t]
        told == IF oneColumn THEN {0} ELSE Heaters(temps'[t])
    IN  IF t \in DOMAIN temps /\ heater \in 0..(MaxSlots - 1)
        THEN /\ temps' = WithTemp(t, heater, value)
             /\ sent' = [of |-> t, heaters |-> [h \in told |-> temps'[t][h]]]
        ELSE UNCHANGED <<temps, sent>>

SetInt ==
    /\ Touchable
    /\ LET field == fields[fieldBeingAdjusted]
       IN  IF field.of = Bed
           THEN /\ sent' = [of |-> Bed, heaters |-> [h \in {0} |-> field.value]]
                /\ UNCHANGED temps
           ELSE SetTool(field.of, field.value)
    /\ windows' = Front(windows) /\ fieldBeingAdjusted' = NoColumn
    /\ UNCHANGED <<columns, oneColumn, chosen, relaid, choices, changes>>

-----------------------------------------------------------------------------
(* The printer.                                                             *)

Changes == changes < MaxChanges /\ changes' = changes + 1

\* Mutant: the field being adjusted is updated too.
UpdateFieldAlways(c, value) == fields' = [fields EXCEPT ![c].value = value]

UpdateField(c, value) ==
    fields' = IF c = fieldBeingAdjusted THEN fields ELSE [fields EXCEPT ![c].value = value]

UpdateBedTemp ==
    /\ Changes /\ \E value \in 1..MaxTemp : UpdateField(0, value)
    /\ UNCHANGED <<temps, slots, used, oneColumn, fieldBeingAdjusted, windows, history, choices>>

\* The temperatures of a tool come one heater after the other; the first makes the tool
\* known, without a column.
UpdateToolTemp ==
    /\ Changes
    /\ \E t \in Tools, value \in 1..MaxTemp :
         IF t \notin DOMAIN temps
         THEN /\ temps' = [u \in DOMAIN temps \cup {t} |-> 
                               IF u = t THEN [h \in {0} |-> value] ELSE temps[u]]
              /\ slots' = [u \in DOMAIN temps' |-> IF u = t THEN MaxSlots ELSE slots[u]]
              /\ UNCHANGED fields
         ELSE \E h \in 0..Cardinality(Heaters(temps[t])) :
              /\ temps' = WithTemp(t, h, value)
              /\ IF (h = 0 \/ ~oneColumn) /\ slots[t] + h < MaxSlots
                 THEN UpdateField(slots[t] + h, value) ELSE UNCHANGED fields
              /\ UNCHANGED slots
    /\ UNCHANGED <<used, oneColumn, fieldBeingAdjusted, windows, history, choices>>

\* A tool that was not told of.
RemoveTool ==
    /\ Changes
    /\ \E t \in DOMAIN temps :
         /\ temps' = [u \in DOMAIN temps \ {t} |-> temps[u]]
         /\ slots' = [u \in DOMAIN temps \ {t} |-> slots[u]]
    /\ UNCHANGED <<fields, used, oneColumn, fieldBeingAdjusted, windows, history, choices>>

\* The end of the answer to "heat" or "tools", or a tool that has lost heaters.
ColumnsAreGivenOut ==
    /\ Changes
    /\ \/ temps' = temps
       \/ \E t \in DOMAIN temps, from \in 0..(MaxHeaters - 1) :
            /\ from \in Heaters(temps[t])
            /\ temps' = [temps EXCEPT ![t] =
                           [h \in DOMAIN @ \ (from..MaxHeaters \cap Heaters(@)) |-> @[h]]]
    /\ AllToolsSeen(temps', slots) /\ relaid' = TRUE
    /\ UNCHANGED <<oneColumn, fieldBeingAdjusted, windows, sent, chosen, choices>>

\* Another window comes to lie on the popup, the screensaver's for example, or has gone.
OtherWindow ==
    /\ \/ Changes /\ ~OnTop("other") /\ windows' = Append(windows, "other")
       \/ OnTop("other") /\ windows' = Front(windows) /\ UNCHANGED changes
    /\ UNCHANGED <<temps, columns, oneColumn, fieldBeingAdjusted, history, choices>>

\* ChangeStatus: all popups go, and the field goes on being adjusted.
StatusClearsPopups ==
    /\ Changes /\ windows # <<>> /\ windows' = <<>>
    /\ UNCHANGED <<temps, columns, oneColumn, fieldBeingAdjusted, history, choices>>

AdjustNext ==
    \/ Adjusting \/ AdjustInt \/ SetInt \/ UpdateBedTemp \/ UpdateToolTemp \/ RemoveTool
    \/ ColumnsAreGivenOut \/ OtherWindow \/ StatusClearsPopups

AdjustSpec == AdjustInit /\ [][AdjustNext]_adjustVars

-----------------------------------------------------------------------------
(* Properties.                                                              *)

\* What Set sends is the value the user gave, for the heater whose field was touched,
\* whatever the printer has told of it meanwhile, and nothing for a tool that has gone;
\* unless the columns were given out anew under the popup.
SetIsChosen ==
    ~relaid /\ sent # Nothing =>
        /\ sent.of = chosen.of /\ chosen.heater \in DOMAIN sent.heaters
        /\ sent.heaters[chosen.heater] = chosen.value
=============================================================================
