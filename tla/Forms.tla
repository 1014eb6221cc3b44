------------------------------- MODULE Forms -------------------------------
(***************************************************************************)
(* EntityForms with the tables of Thread and with those of Message.  The two *)
(* share nothing, so one of the rows is filled at a time.                    *)
(***************************************************************************)
EXTENDS JsonFields

CONSTANTS
  Uuids, Texts, Times,         \* the values of the columns that are not enumerations
  ThreadBodies, MessageBodies  \* the request bodies that are sent

VARIABLES thread, message

vars == <<thread, message>>

T == INSTANCE ThreadForms
M == INSTANCE MessageForms

ColumnValues == UNION ({T!ThreadTypes[c]  : c \in T!ThreadColumns} \cup
                       {M!MessageTypes[c] : c \in M!MessageColumns})

\* No null and no refusal is the value of a column; and the clock tells a time.
ASSUME MarksAssumption ==
  /\ {None, Keep, Err, Bad} \cap ColumnValues = {}
  /\ None # Keep /\ None # Err /\ Keep # Err
ASSUME NowAssumption == "now" \in Times

Thread == INSTANCE EntityForms WITH
  row <- thread, Bodies <- ThreadBodies,
  Columns <- T!ThreadColumns, Nullable <- T!ThreadNullable, Types <- T!ThreadTypes,
  Wire <- T!ThreadWire, NewArgs <- T!ThreadNewArgs, Setters <- T!ThreadSetters,
  Unset <- T!ThreadBuilder, PatchArms <- T!ThreadArms, CreateForm <- T!CreateThreadDto,
  UpdateForm <- T!UpdateThreadDto, PatchForm <- T!PatchThreadDto

Message == INSTANCE EntityForms WITH
  row <- message, Bodies <- MessageBodies,
  Columns <- M!MessageColumns, Nullable <- M!MessageNullable, Types <- M!MessageTypes,
  Wire <- M!MessageWire, NewArgs <- M!MessageNewArgs, Setters <- M!MessageSetters,
  Unset <- M!MessageBuilder, PatchArms <- M!MessageArms, CreateForm <- M!CreateMessageDto,
  UpdateForm <- M!UpdateMessageDto, PatchForm <- M!PatchMessageDto

Init == Thread!Init /\ Message!Init

Next == \/ message = None /\ Thread!Next /\ UNCHANGED message
        \/ thread = None /\ Message!Next /\ UNCHANGED thread

Spec == Init /\ [][Next]_vars

-----------------------------------------------------------------------------
\* The properties of EntityForms, of both entities.
TypeOK                == Thread!TypeOK /\ Message!TypeOK
PutBackChangesNothing == Thread!PutBackChangesNothing /\ Message!PutBackChangesNothing
EveryWayBuildsTheRow  == Thread!EveryWayBuildsTheRow /\ Message!EveryWayBuildsTheRow
DefaultsAgree         == Thread!DefaultsAgree /\ Message!DefaultsAgree
PatchReadersAgree     == Thread!PatchReadersAgree /\ Message!PatchReadersAgree
=============================================================================
