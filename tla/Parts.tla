-------------------------------- MODULE Parts --------------------------------
(***************************************************************************)
(* The parts of the panel that share no state with each other, side by      *)
(* side: the previews of print files (Thumbnail), the lists of beds,        *)
(* chambers and tools (ObjectModel), the settings in flash with the buzzer  *)
(* (Settings), the message log (MessageLog) and the setting of temperatures *)
(* (Adjust).  What one does is open to none of the others, so a behaviour is*)
(* one of a single part, chosen at the start, and the states are those of   *)
(* the parts put together rather than their product.                        *)
(***************************************************************************)
EXTENDS Settings, Sequences, FiniteSets

CONSTANTS
    Files, Sizes, Chunks, MaxOpens, MaxOthers, MaxFaults,
    MaxSlots, Beds, Chambers, Tools, ToolHeaters, MaxAnswers, MaxToggles, MaxDamaged,
    Characters, Rows, RowChars, RowWidth, MaxTold, MaxReceived,
    FieldTools, FieldSlots, MaxHeaters, MaxTemp, MaxChoices, MaxChanges

\* A popup shows thumbnails of some size.
ASSUME PreviewAssumption == Sizes # {}

\* What the printer counts it counts from 0.
ASSUME IndexAssumption ==
    /\ Beds \subseteq Nat /\ Chambers \subseteq Nat /\ Tools \subseteq Nat
    /\ IsFiniteSet(Beds) /\ IsFiniteSet(Chambers) /\ IsFiniteSet(Tools)
    /\ ToolHeaters \subseteq Nat

\* A tool has MaxHeatersPerTool heaters, 8 (src/UI/UserInterfaceConstants.hpp).
ASSUME FieldAssumption ==
    /\ FieldTools \subseteq Nat /\ IsFiniteSet(FieldTools)
    /\ FieldSlots \in Nat \ {0} /\ MaxHeaters \in Nat /\ MaxHeaters > 1

\* Every screen has five columns or more; with one, a first tool would be looked at that
\* has no column left.
ASSUME PartsAssumption == MaxSlots \in Nat /\ MaxSlots > 1

\* The rows of the Console page, the characters of a row and its width in pixels (MessageLog.hpp,
\* src/UI/UserInterfaceConstants.hpp).
ASSUME LogAssumption ==
    /\ Rows \in Nat \ {0} /\ RowChars \in Nat /\ RowWidth \in Nat
    /\ MaxTold \in Nat

VARIABLES
    part,  \* the part that steps
    headers, thumbnailCurrent, filenameCurrent, thumbnailData, decoded, fileDetailPopup, drawn,
    wire, receiving, answered, alone, faulty, opens, others, faults,
    known, last, combined, initialized, numToolColsUsed, answer, told, answers, toggles, damaged,
    messages, messageStartRow, newMessage, messageSeq, newMessageSeq, logRx, said, logged, received,
    temps, slots, fields, used, oneColumn, fieldBeingAdjusted, windows, sent, chosen, relaid,
    choices, changes

T == INSTANCE Thumbnail
O == INSTANCE ObjectModel
L == INSTANCE MessageLog
A == INSTANCE Adjust WITH Tools <- FieldTools, MaxSlots <- FieldSlots

thumbVars ==
    <<headers, thumbnailCurrent, filenameCurrent, thumbnailData, decoded, fileDetailPopup, drawn,
      wire, receiving, answered, alone, faulty, opens, others, faults>>
omVars ==
    <<known, last, combined, initialized, numToolColsUsed, answer, told, answers, toggles,
      damaged>>
logVars ==
    <<messages, messageStartRow, newMessage, messageSeq, newMessageSeq, logRx, said, logged,
      received>>
adjustVars ==
    <<temps, slots, fields, used, oneColumn, fieldBeingAdjusted, windows, sent, chosen, relaid,
      choices, changes>>
partsVars == <<part, thumbVars, omVars, settingsVars, logVars, adjustVars>>

PartsInit ==
    /\ part \in {"thumbnail", "objects", "settings", "log", "fields"}
    /\ T!ThumbInit /\ O!OMInit /\ SettingsInit /\ L!LogInit /\ A!AdjustInit
    /\ part # "thumbnail" => headers = [f \in Files |-> <<>>]
    /\ part # "objects" => ~combined
    /\ part # "settings" => ~IsValid(flash)
    /\ part # "fields" => ~oneColumn /\ \A t \in FieldTools : Cardinality(DOMAIN temps[t]) = 1

Previews ==
    /\ part = "thumbnail" /\ T!ThumbNext
    /\ UNCHANGED <<part, omVars, settingsVars, logVars, adjustVars>>
Objects ==
    /\ part = "objects" /\ O!OMNext
    /\ UNCHANGED <<part, thumbVars, settingsVars, logVars, adjustVars>>
Setup ==
    /\ part = "settings" /\ SettingsNext
    /\ UNCHANGED <<part, thumbVars, omVars, logVars, adjustVars>>
Log ==
    /\ part = "log" /\ L!LogNext
    /\ UNCHANGED <<part, thumbVars, omVars, settingsVars, adjustVars>>
Fields ==
    /\ part = "fields" /\ A!AdjustNext
    /\ UNCHANGED <<part, thumbVars, omVars, settingsVars, logVars>>

PartsNext == Previews \/ Objects \/ Setup \/ Log \/ Fields

\* Of a part that is not the one chosen nothing is asked.
PartsFairness ==
    /\ WF_thumbVars(part = "thumbnail" /\ T!RequestChunk)
    /\ WF_thumbVars(part = "thumbnail" /\ T!ReceiveMessage)
    /\ WF_settingsVars(part = "settings" /\ MainLoop)
    /\ WF_settingsVars(part = "settings" /\ Tick)

PartsSpec == PartsInit /\ [][PartsNext]_partsVars /\ PartsFairness

-----------------------------------------------------------------------------
(* The properties of the parts but the settings', which are Settings' own;  *)
(* each module says what they mean.                                         *)

\* The picture in a file's popup is that file's (src/PanelDue.cpp, the thumbnail's states).
PictureIsOfFile == T!PictureIsOfFile

\* A download ends unless an answer is lost (src/PanelDue.cpp, EndReceivedMessage).
DownloadEnds == T!DownloadEnds

\* What the panel knows is what the printer told (src/PanelDue.cpp, ProcessArrayElementEnd).
ListIsTold == O!ListIsTold

\* The columns are those of what there is (src/UI/UserInterface.cpp, AllToolsSeen).
ColumnsAreOfElements == O!ColumnsAreOfElements

\* The log is what was told, whole and each text once (src/UI/MessageLog.cpp).
LogIsTold == L!LogIsTold

\* Set sends what the user chose (src/UI/UserInterface.cpp, evSetInt).
SetIsChosen == A!SetIsChosen
=============================================================================
