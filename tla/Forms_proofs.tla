---------------------------- MODULE Forms_proofs ----------------------------
(***************************************************************************)
(* The seven paths of a thread and of a message, for any values of the       *)
(* columns and any bodies.  First what a form reads from a body, for any      *)
(* form; then what the tables of the two entities say; then the properties,   *)
(* in which nothing but that is used.                                         *)
(***************************************************************************)
EXTENDS Forms, TLAPS

(***************************************************************************)
(* What a form reads                                                        *)
(***************************************************************************)

\* What a field reads is one of values, or it refuses the body.
Reads(field, values) ==
  field.type \subseteq values /\ {field.missing, field.null} \subseteq values \cup {Err}

\* No name belongs to two columns.
Apart(cols, form) == \A c, d \in cols : c # d => form[c].names \cap form[d].names = {}

LEMMA ReadsAny ==
  ASSUME NEW field, NEW values, Reads(field, values), NEW body
  PROVE  ReadField(field, body) \in values \cup {Err}
<1> DEFINE given == field.names \cap DOMAIN body
<1>1. CASE given = {}
  BY <1>1 DEF ReadField, Reads
<1>2. CASE given # {}
  <2>1. \/ ReadField(field, body) = Err
        \/ \E v : ReadField(field, body) = ReadValue(field, v)
    BY <1>2 DEF ReadField
  <2> QED BY <2>1 DEF ReadValue, Reads
<1> QED BY <1>1, <1>2

LEMMA ReadsOne ==
  ASSUME NEW field, NEW body, NEW n, field.names \cap DOMAIN body = {n}
  PROVE  ReadField(field, body) = ReadValue(field, body[n])
<1>1. (CHOOSE m \in {n} : TRUE) = n
  OBVIOUS
<1> QED BY <1>1 DEF ReadField

\* A body whose members are called as columns are.
LEMMA ReadsColumn ==
  ASSUME NEW cols, NEW form, Apart(cols, form), \A d \in cols : d \in form[d].names,
         NEW body, DOMAIN body \subseteq cols, NEW c \in cols
  PROVE  ReadField(form[c], body) =
           IF c \in DOMAIN body THEN ReadValue(form[c], body[c]) ELSE form[c].missing
<1>1. CASE c \in DOMAIN body
  <2>1. form[c].names \cap DOMAIN body = {c}
    BY <1>1 DEF Apart
  <2> QED BY <1>1, <2>1, ReadsOne
<1>2. CASE c \notin DOMAIN body
  <2>1. form[c].names \cap DOMAIN body = {}
    BY <1>2 DEF Apart
  <2> QED BY <1>2, <2>1 DEF ReadField
<1> QED BY <1>1, <1>2

\* A body with every column, each under one of its names.
Names(cols, form, nameOf) == \A d \in cols : nameOf[d] \in form[d].names

LEMMA ReadsAnswer ==
  ASSUME NEW cols, NEW form, Apart(cols, form), NEW nameOf, Names(cols, form, nameOf),
         NEW body, DOMAIN body = {nameOf[d] : d \in cols}, NEW c \in cols
  PROVE  ReadField(form[c], body) = ReadValue(form[c], body[nameOf[c]])
<1>1. form[c].names \cap DOMAIN body = {nameOf[c]}
  BY DEF Apart, Names
<1> QED BY <1>1, ReadsOne

Answer(cols, nameOf, r) ==
  [n \in {nameOf[d] : d \in cols} |-> r[CHOOSE d \in cols : nameOf[d] = n]]

LEMMA AnswerHolds ==
  ASSUME NEW cols, NEW form, Apart(cols, form), NEW nameOf, Names(cols, form, nameOf),
         NEW r, NEW c \in cols
  PROVE  Answer(cols, nameOf, r)[nameOf[c]] = r[c]
<1> DEFINE columnOf(n) == CHOOSE d \in cols : nameOf[d] = n
<1>1. \A d \in cols : nameOf[d] = nameOf[c] => d = c
  BY DEF Apart, Names
<1>2. columnOf(nameOf[c]) = c
  BY <1>1
<1>3. Answer(cols, nameOf, r) = [n \in {nameOf[d] : d \in cols} |-> r[columnOf(n)]]
  BY DEF Answer
<1> HIDE DEF columnOf
<1> QED BY <1>2, <1>3

\* Every instance of JsonFields reads alike.
LEMMA OneReader ==
  \A field, body :
    /\ Thread!ReadField(field, body) = ReadField(field, body)
    /\ Message!ReadField(field, body) = ReadField(field, body)
BY DEF ReadField, ReadValue, Thread!ReadField, Thread!ReadValue, Message!ReadField, Message!ReadValue

(***************************************************************************)
(* What the tables say                                                      *)
(***************************************************************************)

LEMMA ThreadColumnsAre ==
  T!ThreadColumns = {"channel", "party_id", "subject_type", "subject_id", "external_ref", "status",
                     "last_message_at"}
BY DEF T!ThreadColumns, T!ThreadTypes

LEMMA MessageColumnsAre ==
  M!MessageColumns = {"thread_id", "direction", "channel", "external_id", "address_from", "address_to",
                      "body", "status", "failure_reason", "occurred_at"}
BY DEF M!MessageColumns, M!MessageTypes

LEMMA ThreadNamesApart ==
  \A c, d \in T!ThreadColumns : c # d => T!ThreadNames(c) \cap T!ThreadNames(d) = {}
BY ThreadColumnsAre DEF T!ThreadNames, T!ThreadWire

LEMMA MessageNamesApart ==
  \A c, d \in M!MessageColumns : c # d => M!MessageNames(c) \cap M!MessageNames(d) = {}
BY MessageColumnsAre DEF M!MessageNames, M!MessageWire

\* One row per column: its field has the column's names and type in every DTO, what Create
\* makes of no member is what the builder makes of an unset column, and so on.
LEMMA ThreadTable ==
  ASSUME NEW c \in T!ThreadColumns
  PROVE  /\ T!CreateThreadDto[c].names = T!ThreadNames(c)
         /\ T!UpdateThreadDto[c].names = T!ThreadNames(c)
         /\ T!PatchThreadDto[c].names  = T!ThreadNames(c)
         /\ T!CreateThreadDto[c].type = T!ThreadTypes[c]
         /\ T!UpdateThreadDto[c].type = T!ThreadTypes[c]
         /\ T!PatchThreadDto[c].type  = T!ThreadTypes[c]
         /\ T!CreateThreadDto[c].missing = T!ThreadBuilder[c]
         /\ T!PatchThreadDto[c].missing = Keep
         /\ c \in T!ThreadNullable =>
              /\ T!CreateThreadDto[c].null = None /\ T!UpdateThreadDto[c].null = None
              /\ T!PatchThreadDto[c].null = None /\ T!UpdateThreadDto[c].missing = None
              /\ T!ThreadBuilder[c] = None
         /\ c \notin T!ThreadNullable =>
              /\ T!CreateThreadDto[c].null = Err /\ T!UpdateThreadDto[c].null = Err
              /\ T!PatchThreadDto[c].null = Keep /\ T!UpdateThreadDto[c].missing = Err
              /\ T!ThreadBuilder[c] \in T!ThreadTypes[c]
<1> USE ThreadColumnsAre DEF T!ThreadNullable, T!Field, T!Required, T!Defaulted, T!Optional, T!PatchOption,
        T!DoubleOption
<1>1. CASE c \in T!ThreadNullable
  BY <1>1 DEF T!CreateThreadDto, T!UpdateThreadDto, T!PatchThreadDto, T!NullableFields, T!ThreadBuilder
<1>2. CASE c \notin T!ThreadNullable
  <2>1. T!ThreadNames(c) = {c}
    BY <1>2 DEF T!ThreadNames, T!ThreadWire
  <2>2. c \in {"channel", "status"}
    BY <1>2
  <2>3. T!ThreadBuilder[c] \in T!ThreadTypes[c]
    BY <2>2 DEF T!ThreadBuilder, T!ThreadTypes
  <2> QED BY <1>2, <2>1, <2>2, <2>3 DEF T!CreateThreadDto, T!UpdateThreadDto, T!PatchThreadDto, T!ThreadBuilder
<1> QED BY <1>1, <1>2

LEMMA MessageTable ==
  ASSUME NEW c \in M!MessageColumns
  PROVE  /\ M!CreateMessageDto[c].names = M!MessageNames(c)
         /\ M!UpdateMessageDto[c].names = M!MessageNames(c)
         /\ M!PatchMessageDto[c].names  = M!MessageNames(c)
         /\ M!CreateMessageDto[c].type = M!MessageTypes[c]
         /\ M!UpdateMessageDto[c].type = M!MessageTypes[c]
         /\ M!PatchMessageDto[c].type  = M!MessageTypes[c]
         /\ M!CreateMessageDto[c].missing = M!MessageBuilder[c]
         /\ M!PatchMessageDto[c].missing = Keep
         /\ c \in M!MessageNullable =>
              /\ M!CreateMessageDto[c].null = None /\ M!UpdateMessageDto[c].null = None
              /\ M!PatchMessageDto[c].null = None /\ M!UpdateMessageDto[c].missing = None
              /\ M!MessageBuilder[c] = None
         /\ c \notin M!MessageNullable =>
              /\ M!CreateMessageDto[c].null = Err /\ M!UpdateMessageDto[c].null = Err
              /\ M!PatchMessageDto[c].null = Keep /\ M!UpdateMessageDto[c].missing = Err
              /\ M!MessageBuilder[c] \in M!MessageTypes[c] \cup {Err}
<1> USE MessageColumnsAre DEF M!MessageNullable, M!Field, M!Required, M!Defaulted, M!Optional, M!PatchOption,
        M!DoubleOption
<1>1. DOMAIN M!Fallback = {"status", "occurred_at"}
  BY DEF M!Fallback
<1>2. CASE c \in M!MessageNullable
  BY <1>1, <1>2 DEF M!CreateMessageDto, M!UpdateMessageDto, M!PatchMessageDto, M!NullableFields,
     M!MessageBuilder
<1>3. CASE c \notin M!MessageNullable
  <2>1. M!MessageBuilder[c] \in M!MessageTypes[c] \cup {Err}
    <3>1. M!Fallback["status"] \in M!MessageTypes["status"]
      BY DEF M!Fallback, M!MessageTypes
    <3>2. M!Fallback["occurred_at"] \in M!MessageTypes["occurred_at"]
      BY NowAssumption DEF M!Fallback, M!MessageTypes
    <3> QED BY <1>1, <1>3, <3>1, <3>2 DEF M!MessageBuilder
  <2> QED BY <1>1, <1>3, <2>1 DEF M!CreateMessageDto, M!UpdateMessageDto, M!PatchMessageDto,
          M!MessageBuilder
<1> QED BY <1>2, <1>3

\* Null and the refusals are the value of no column.
LEMMA MarksApart ==
  /\ None # Keep /\ None # Err /\ Keep # Err
  /\ \A c \in T!ThreadColumns : {None, Keep, Err} \cap T!ThreadTypes[c] = {}
  /\ \A c \in M!MessageColumns : {None, Keep, Err} \cap M!MessageTypes[c] = {}
<1>1. \A c \in T!ThreadColumns : T!ThreadTypes[c] \subseteq ColumnValues
  BY DEF ColumnValues
<1>2. \A c \in M!MessageColumns : M!MessageTypes[c] \subseteq ColumnValues
  BY DEF ColumnValues
<1> QED BY <1>1, <1>2, MarksAssumption

LEMMA ThreadPaths ==
  /\ T!ThreadSetters \subseteq T!ThreadColumns
  /\ T!ThreadNewArgs \cup T!ThreadSetters = T!ThreadColumns
  /\ T!ThreadArms = T!ThreadColumns
  /\ \A c \in T!ThreadColumns : {c, T!ThreadWire[c]} = T!ThreadNames(c)
BY ThreadColumnsAre DEF T!ThreadSetters, T!ThreadNewArgs, T!ThreadArms, T!ThreadNames

LEMMA MessagePaths ==
  /\ M!MessageSetters \subseteq M!MessageColumns
  /\ M!MessageNewArgs \cup M!MessageSetters = M!MessageColumns
  /\ M!MessageArms = M!MessageColumns
  /\ \A c \in M!MessageColumns : {c, M!MessageWire[c]} = M!MessageNames(c)
BY MessageColumnsAre DEF M!MessageSetters, M!MessageNewArgs, M!MessageArms, M!MessageNames

LEMMA ThreadDtos ==
  ASSUME NEW form \in {T!CreateThreadDto, T!UpdateThreadDto, T!PatchThreadDto}
  PROVE  /\ Apart(T!ThreadColumns, form)
         /\ \A c \in T!ThreadColumns : form[c].names = {c, T!ThreadWire[c]} /\ form[c].type = T!ThreadTypes[c]
         /\ \A body : Thread!ReadForm(form, body) = [c \in T!ThreadColumns |-> ReadField(form[c], body)]
<1>1. \A c \in T!ThreadColumns : form[c].names = T!ThreadNames(c) /\ form[c].type = T!ThreadTypes[c]
  BY ThreadTable
<1>2. Apart(T!ThreadColumns, form)
  BY <1>1, ThreadNamesApart DEF Apart
<1>3. DOMAIN form = T!ThreadColumns
  BY DEF T!CreateThreadDto, T!UpdateThreadDto, T!PatchThreadDto
<1>4. \A body : Thread!ReadForm(form, body) = [c \in T!ThreadColumns |-> ReadField(form[c], body)]
  BY <1>3, OneReader DEF Thread!ReadForm
<1> QED BY <1>1, <1>2, <1>4, ThreadPaths

LEMMA MessageDtos ==
  ASSUME NEW form \in {M!CreateMessageDto, M!UpdateMessageDto, M!PatchMessageDto}
  PROVE  /\ Apart(M!MessageColumns, form)
         /\ \A c \in M!MessageColumns : form[c].names = {c, M!MessageWire[c]} /\ form[c].type = M!MessageTypes[c]
         /\ \A body : Message!ReadForm(form, body) = [c \in M!MessageColumns |-> ReadField(form[c], body)]
<1>1. \A c \in M!MessageColumns : form[c].names = M!MessageNames(c) /\ form[c].type = M!MessageTypes[c]
  BY MessageTable
<1>2. Apart(M!MessageColumns, form)
  BY <1>1, MessageNamesApart DEF Apart
<1>3. DOMAIN form = M!MessageColumns
  BY DEF M!CreateMessageDto, M!UpdateMessageDto, M!PatchMessageDto
<1>4. \A body : Message!ReadForm(form, body) = [c \in M!MessageColumns |-> ReadField(form[c], body)]
  BY <1>3, OneReader DEF Message!ReadForm
<1> QED BY <1>1, <1>2, <1>4, MessagePaths

(***************************************************************************)
(* The rows keep their types                                                *)
(***************************************************************************)

\* A field reads what its column may hold, or refuses; a PATCH field may also leave it.
LEMMA ThreadFieldsRead ==
  ASSUME NEW c \in T!ThreadColumns, NEW body
  PROVE  /\ ReadField(T!CreateThreadDto[c], body) \in Thread!Legal(c) \cup {Err}
         /\ ReadField(T!UpdateThreadDto[c], body) \in Thread!Legal(c) \cup {Err}
         /\ ReadField(T!PatchThreadDto[c], body) \in Thread!Legal(c) \cup {Keep, Err}
<1>1. /\ Reads(T!CreateThreadDto[c], Thread!Legal(c)) /\ Reads(T!UpdateThreadDto[c], Thread!Legal(c))
      /\ Reads(T!PatchThreadDto[c], Thread!Legal(c) \cup {Keep})
  BY ThreadTable DEF Reads, Thread!Legal
<1> QED BY <1>1, ReadsAny

LEMMA MessageFieldsRead ==
  ASSUME NEW c \in M!MessageColumns, NEW body
  PROVE  /\ ReadField(M!CreateMessageDto[c], body) \in Message!Legal(c) \cup {Err}
         /\ ReadField(M!UpdateMessageDto[c], body) \in Message!Legal(c) \cup {Err}
         /\ ReadField(M!PatchMessageDto[c], body) \in Message!Legal(c) \cup {Keep, Err}
<1>1. /\ Reads(M!CreateMessageDto[c], Message!Legal(c)) /\ Reads(M!UpdateMessageDto[c], Message!Legal(c))
      /\ Reads(M!PatchMessageDto[c], Message!Legal(c) \cup {Keep})
  BY MessageTable DEF Reads, Message!Legal
<1> QED BY <1>1, ReadsAny

LEMMA ThreadStepTyped ==
  ASSUME Thread!TypeOK, Thread!Next
  PROVE  Thread!TypeOK'
<1> DEFINE Fits(row) == /\ row \in [T!ThreadColumns -> UNION {Thread!Legal(c) : c \in T!ThreadColumns}]
                        /\ \A c \in T!ThreadColumns : row[c] \in Thread!Legal(c)
<1>1. ASSUME NEW row, row = [c \in T!ThreadColumns |-> row[c]],
             \A c \in T!ThreadColumns : row[c] \in Thread!Legal(c)
      PROVE  Fits(row)
  BY <1>1
<1>2. thread # None => Fits(thread)
  BY DEF Thread!TypeOK
<1>3. Thread!TypeOK' <=> (thread' # None => Fits(thread'))
  BY DEF Thread!TypeOK, Thread!Legal
<1>4. ASSUME NEW body, Thread!Post(body) PROVE Fits(thread')
  <2> DEFINE dto == Thread!ReadForm(T!CreateThreadDto, body)
  <2>1. dto = [c \in T!ThreadColumns |-> ReadField(T!CreateThreadDto[c], body)]
    BY ThreadDtos
  <2>2. thread' = [c \in T!ThreadColumns |-> dto[c]] /\ \A c \in T!ThreadColumns : dto[c] # Err
    BY <1>4, <2>1 DEF Thread!Post, Thread!FromCreate, Thread!Accepted
  <2> HIDE DEF dto, Fits
  <2> QED BY <1>1, <2>1, <2>2, ThreadFieldsRead
<1>5. ASSUME NEW body, Thread!Put(body) PROVE Fits(thread')
  <2> DEFINE dto == Thread!ReadForm(T!UpdateThreadDto, body)
  <2>1. dto = [c \in T!ThreadColumns |-> ReadField(T!UpdateThreadDto[c], body)]
    BY ThreadDtos
  <2>2. thread' = [c \in T!ThreadColumns |-> dto[c]] /\ \A c \in T!ThreadColumns : dto[c] # Err
    BY <1>5, <2>1 DEF Thread!Put, Thread!ApplyUpdate, Thread!Accepted
  <2> HIDE DEF dto, Fits
  <2> QED BY <1>1, <2>1, <2>2, ThreadFieldsRead
<1>6. ASSUME NEW body, Thread!Patch(body) PROVE Fits(thread')
  <2> DEFINE dto == Thread!ReadForm(T!PatchThreadDto, body)
  <2>1. dto = [c \in T!ThreadColumns |-> ReadField(T!PatchThreadDto[c], body)]
    BY ThreadDtos
  <2>2. /\ thread' = [c \in T!ThreadColumns |-> IF dto[c] = Keep THEN thread[c] ELSE dto[c]]
        /\ thread # None /\ \A c \in T!ThreadColumns : dto[c] # Err
    BY <1>6, <2>1 DEF Thread!Patch, Thread!ApplyPatchDto, Thread!Accepted
  <2>3. \A c \in T!ThreadColumns : thread[c] \in Thread!Legal(c)
    BY <1>2, <2>2
  <2> HIDE DEF dto, Fits
  <2> QED BY <1>1, <2>1, <2>2, <2>3, ThreadFieldsRead
<1>7. ASSUME NEW body, Thread!PatchFields(body) PROVE Fits(thread')
  <2>1. /\ thread' = Thread!ApplyPatch(thread, body)
        /\ \A c \in T!ThreadColumns : thread[c] \in Thread!Legal(c)
    BY <1>2, <1>7 DEF Thread!PatchFields
  <2>2. ASSUME NEW c \in T!ThreadColumns, NEW v
        PROVE  Thread!ArmReads(c, v) \in Thread!Legal(c) \cup {Err}
    BY DEF Thread!ArmReads, Thread!ReadValue, Thread!Field, Thread!Legal
  <2> HIDE DEF Fits
  <2> QED BY <1>1, <2>1, <2>2 DEF Thread!ApplyPatch
<1>8. ASSUME NEW c \in T!ThreadSetters, NEW v \in T!ThreadTypes[c], Thread!Set(c, v)
      PROVE  Fits(thread')
  <2>1. c \in T!ThreadColumns /\ v \in Thread!Legal(c)
    BY ThreadPaths DEF Thread!Legal
  <2>2. /\ thread = [d \in T!ThreadColumns |-> thread[d]] /\ thread' = [thread EXCEPT ![c] = v]
        /\ \A d \in T!ThreadColumns : thread[d] \in Thread!Legal(d)
    BY <1>2, <1>8 DEF Thread!Set
  <2> HIDE DEF Fits
  <2> QED BY <1>1, <2>1, <2>2
<1> HIDE DEF Fits
<1> QED BY <1>3, <1>4, <1>5, <1>6, <1>7, <1>8 DEF Thread!Next

LEMMA MessageStepTyped ==
  ASSUME Message!TypeOK, Message!Next
  PROVE  Message!TypeOK'
<1> DEFINE Fits(row) == /\ row \in [M!MessageColumns -> UNION {Message!Legal(c) : c \in M!MessageColumns}]
                        /\ \A c \in M!MessageColumns : row[c] \in Message!Legal(c)
<1>1. ASSUME NEW row, row = [c \in M!MessageColumns |-> row[c]],
             \A c \in M!MessageColumns : row[c] \in Message!Legal(c)
      PROVE  Fits(row)
  BY <1>1
<1>2. message # None => Fits(message)
  BY DEF Message!TypeOK
<1>3. Message!TypeOK' <=> (message' # None => Fits(message'))
  BY DEF Message!TypeOK, Message!Legal
<1>4. ASSUME NEW body, Message!Post(body) PROVE Fits(message')
  <2> DEFINE dto == Message!ReadForm(M!CreateMessageDto, body)
  <2>1. dto = [c \in M!MessageColumns |-> ReadField(M!CreateMessageDto[c], body)]
    BY MessageDtos
  <2>2. message' = [c \in M!MessageColumns |-> dto[c]] /\ \A c \in M!MessageColumns : dto[c] # Err
    BY <1>4, <2>1 DEF Message!Post, Message!FromCreate, Message!Accepted
  <2> HIDE DEF dto, Fits
  <2> QED BY <1>1, <2>1, <2>2, MessageFieldsRead
<1>5. ASSUME NEW body, Message!Put(body) PROVE Fits(message')
  <2> DEFINE dto == Message!ReadForm(M!UpdateMessageDto, body)
  <2>1. dto = [c \in M!MessageColumns |-> ReadField(M!UpdateMessageDto[c], body)]
    BY MessageDtos
  <2>2. message' = [c \in M!MessageColumns |-> dto[c]] /\ \A c \in M!MessageColumns : dto[c] # Err
    BY <1>5, <2>1 DEF Message!Put, Message!ApplyUpdate, Message!Accepted
  <2> HIDE DEF dto, Fits
  <2> QED BY <1>1, <2>1, <2>2, MessageFieldsRead
<1>6. ASSUME NEW body, Message!Patch(body) PROVE Fits(message')
  <2> DEFINE dto == Message!ReadForm(M!PatchMessageDto, body)
  <2>1. dto = [c \in M!MessageColumns |-> ReadField(M!PatchMessageDto[c], body)]
    BY MessageDtos
  <2>2. /\ message' = [c \in M!MessageColumns |-> IF dto[c] = Keep THEN message[c] ELSE dto[c]]
        /\ message # None /\ \A c \in M!MessageColumns : dto[c] # Err
    BY <1>6, <2>1 DEF Message!Patch, Message!ApplyPatchDto, Message!Accepted
  <2>3. \A c \in M!MessageColumns : message[c] \in Message!Legal(c)
    BY <1>2, <2>2
  <2> HIDE DEF dto, Fits
  <2> QED BY <1>1, <2>1, <2>2, <2>3, MessageFieldsRead
<1>7. ASSUME NEW body, Message!PatchFields(body) PROVE Fits(message')
  <2>1. /\ message' = Message!ApplyPatch(message, body)
        /\ \A c \in M!MessageColumns : message[c] \in Message!Legal(c)
    BY <1>2, <1>7 DEF Message!PatchFields
  <2>2. ASSUME NEW c \in M!MessageColumns, NEW v
        PROVE  Message!ArmReads(c, v) \in Message!Legal(c) \cup {Err}
    BY DEF Message!ArmReads, Message!ReadValue, Message!Field, Message!Legal
  <2> HIDE DEF Fits
  <2> QED BY <1>1, <2>1, <2>2 DEF Message!ApplyPatch
<1>8. ASSUME NEW c \in M!MessageSetters, NEW v \in M!MessageTypes[c], Message!Set(c, v)
      PROVE  Fits(message')
  <2>1. c \in M!MessageColumns /\ v \in Message!Legal(c)
    BY MessagePaths DEF Message!Legal
  <2>2. /\ message = [d \in M!MessageColumns |-> message[d]] /\ message' = [message EXCEPT ![c] = v]
        /\ \A d \in M!MessageColumns : message[d] \in Message!Legal(d)
    BY <1>2, <1>8 DEF Message!Set
  <2> HIDE DEF Fits
  <2> QED BY <1>1, <2>1, <2>2
<1> HIDE DEF Fits
<1> QED BY <1>3, <1>4, <1>5, <1>6, <1>7, <1>8 DEF Message!Next

(***************************************************************************)
(* The paths agree                                                         *)
(***************************************************************************)

LEMMA ThreadPutBack ==
  ASSUME Thread!TypeOK
  PROVE  Thread!PutBackChangesNothing
<1> SUFFICES ASSUME thread # None, NEW snake \in SUBSET T!ThreadColumns
             PROVE  LET dto == Thread!ReadForm(T!UpdateThreadDto, Thread!Answered(thread, snake))
                    IN  Thread!Accepted(dto) /\ Thread!ApplyUpdate(thread, dto) = thread
  BY DEF Thread!PutBackChangesNothing
<1> DEFINE nameOf == [c \in T!ThreadColumns |-> IF c \in snake THEN c ELSE T!ThreadWire[c]]
           body == Thread!Answered(thread, snake)
           dto == Thread!ReadForm(T!UpdateThreadDto, body)
<1>1. /\ Apart(T!ThreadColumns, T!UpdateThreadDto)
      /\ \A c \in T!ThreadColumns : T!UpdateThreadDto[c].names = {c, T!ThreadWire[c]}
      /\ dto = [c \in T!ThreadColumns |-> ReadField(T!UpdateThreadDto[c], body)]
  BY ThreadDtos
<1>2. Names(T!ThreadColumns, T!UpdateThreadDto, nameOf)
  BY <1>1 DEF Names
<1>3. body = Answer(T!ThreadColumns, nameOf, thread)
  BY DEF Thread!Answered, Answer
<1> HIDE DEF nameOf, body
<1>4. ASSUME NEW c \in T!ThreadColumns
      PROVE  ReadField(T!UpdateThreadDto[c], body) = ReadValue(T!UpdateThreadDto[c], thread[c])
  <2>1. body[nameOf[c]] = thread[c]
    BY <1>1, <1>2, <1>3, AnswerHolds
  <2>2. DOMAIN body = {nameOf[d] : d \in T!ThreadColumns}
    BY <1>3 DEF Answer
  <2>3. ReadField(T!UpdateThreadDto[c], body) = ReadValue(T!UpdateThreadDto[c], body[nameOf[c]])
    BY <1>1, <1>2, <2>2, ReadsAnswer
  <2> QED BY <2>1, <2>3
<1>5. ASSUME NEW c \in T!ThreadColumns
      PROVE  dto[c] = thread[c] /\ dto[c] # Err
  <2>1. thread[c] \in Thread!Legal(c)
    BY DEF Thread!TypeOK
  <2> QED BY <1>1, <1>4, <2>1, ThreadTable, MarksApart DEF Thread!Legal, ReadValue
<1>6. Thread!ApplyUpdate(thread, dto) = thread
  <2>1. thread = [c \in T!ThreadColumns |-> thread[c]]
    BY DEF Thread!TypeOK
  <2> HIDE DEF dto
  <2> QED BY <1>5, <2>1 DEF Thread!ApplyUpdate
<1>7. Thread!Accepted(dto)
  BY <1>1, <1>5 DEF Thread!Accepted
<1> QED BY <1>6, <1>7 DEF body

LEMMA ThreadWaysAgree ==
  ASSUME Thread!TypeOK
  PROVE  Thread!EveryWayBuildsTheRow
<1> SUFFICES ASSUME thread # None
             PROVE  LET given == Thread!GivenOf(thread)
                        dto == Thread!ReadForm(T!CreateThreadDto, given)
                    IN  Thread!Constructed(given) = thread /\ Thread!Built(given) = thread
                        /\ Thread!Accepted(dto) /\ Thread!FromCreate(dto) = thread
  BY DEF Thread!EveryWayBuildsTheRow
<1> DEFINE given == Thread!GivenOf(thread)
           dto == Thread!ReadForm(T!CreateThreadDto, given)
<1>1. /\ DOMAIN given = {c \in T!ThreadColumns : thread[c] # None}
      /\ \A c \in DOMAIN given : given[c] = thread[c]
  BY DEF Thread!GivenOf
<1>2. thread = [c \in T!ThreadColumns |-> thread[c]]
      /\ \A c \in T!ThreadColumns : thread[c] \in Thread!Legal(c)
  BY DEF Thread!TypeOK
<1> HIDE DEF given
<1>3. \A c \in T!ThreadColumns : c \notin DOMAIN given => thread[c] = None /\ c \in T!ThreadNullable
  BY <1>1, <1>2, MarksApart DEF Thread!Legal
<1>4. Thread!Constructed(given) = thread
  BY <1>1, <1>2, <1>3, ThreadPaths DEF Thread!Constructed
<1>5. Thread!Built(given) = thread
  BY <1>1, <1>2, <1>3, ThreadTable DEF Thread!Built
<1>6. dto = [c \in T!ThreadColumns |-> ReadField(T!CreateThreadDto[c], given)]
  BY ThreadDtos
<1>7. ASSUME NEW c \in T!ThreadColumns
      PROVE  dto[c] = thread[c] /\ dto[c] # Err
  <2>1. ReadField(T!CreateThreadDto[c], given) =
          IF c \in DOMAIN given THEN ReadValue(T!CreateThreadDto[c], given[c])
          ELSE T!CreateThreadDto[c].missing
    <3>1. Apart(T!ThreadColumns, T!CreateThreadDto)
          /\ \A d \in T!ThreadColumns : d \in T!CreateThreadDto[d].names
      BY ThreadDtos
    <3>2. DOMAIN given \subseteq T!ThreadColumns
      BY <1>1
    <3> QED BY <3>1, <3>2, ReadsColumn
  <2>2. CASE c \in DOMAIN given
    BY <1>1, <1>2, <1>6, <2>1, <2>2, ThreadTable, MarksApart DEF ReadValue, Thread!Legal
  <2>3. CASE c \notin DOMAIN given
    BY <1>3, <1>6, <2>1, <2>3, ThreadTable, MarksApart
  <2> QED BY <2>2, <2>3
<1>8. Thread!Accepted(dto)
  BY <1>6, <1>7 DEF Thread!Accepted
<1> HIDE DEF dto
<1>9. Thread!FromCreate(dto) = thread
  BY <1>2, <1>7 DEF Thread!FromCreate
<1> QED BY <1>4, <1>5, <1>8, <1>9 DEF given, dto

LEMMA ThreadDefaults == Thread!DefaultsAgree
<1> SUFFICES ASSUME NEW body
             PROVE  LET dto == Thread!ReadForm(T!CreateThreadDto, body)
                        given == [c \in {c \in T!ThreadColumns :
                                    T!CreateThreadDto[c].names \cap DOMAIN body # {}} |-> dto[c]]
                    IN  Thread!Built(given) = Thread!FromCreate(dto)
  BY DEF Thread!DefaultsAgree
<1> DEFINE dto == Thread!ReadForm(T!CreateThreadDto, body)
           given == [c \in {c \in T!ThreadColumns : T!CreateThreadDto[c].names \cap DOMAIN body # {}} |->
                       dto[c]]
<1>1. dto = [c \in T!ThreadColumns |-> ReadField(T!CreateThreadDto[c], body)]
  BY ThreadDtos
<1>2. \A c \in T!ThreadColumns : c \notin DOMAIN given => dto[c] = T!ThreadBuilder[c]
  BY <1>1, ThreadTable DEF ReadField
<1> HIDE DEF dto
<1>3. \A c \in DOMAIN given : given[c] = dto[c]
  OBVIOUS
<1> HIDE DEF given
<1>4. Thread!Built(given) = Thread!FromCreate(dto)
  BY <1>2, <1>3 DEF Thread!Built, Thread!FromCreate
<1> QED BY <1>4 DEF given, dto

LEMMA ThreadPatches ==
  ASSUME Thread!TypeOK
  PROVE  Thread!PatchReadersAgree
<1> SUFFICES ASSUME NEW body, DOMAIN body \subseteq T!ThreadColumns,
                    \A c \in DOMAIN body : body[c] \in T!ThreadTypes[c] \cup {None}
             PROVE  Thread!ApplyPatch(thread, body) =
                      Thread!ApplyPatchDto(thread, Thread!ReadForm(T!PatchThreadDto, body))
  BY DEF Thread!PatchReadersAgree
<1> DEFINE dto == Thread!ReadForm(T!PatchThreadDto, body)
<1>1. dto = [c \in T!ThreadColumns |-> ReadField(T!PatchThreadDto[c], body)]
  BY ThreadDtos
<1>2. ASSUME NEW c \in T!ThreadColumns
      PROVE  dto[c] = IF c \in DOMAIN body THEN ReadValue(T!PatchThreadDto[c], body[c]) ELSE Keep
  <2>1. Apart(T!ThreadColumns, T!PatchThreadDto)
        /\ \A d \in T!ThreadColumns : d \in T!PatchThreadDto[d].names
    BY ThreadDtos
  <2>2. ReadField(T!PatchThreadDto[c], body) =
          IF c \in DOMAIN body THEN ReadValue(T!PatchThreadDto[c], body[c]) ELSE T!PatchThreadDto[c].missing
    BY <2>1, ReadsColumn
  <2> QED BY <1>1, <2>2, ThreadTable
<1>3. ASSUME NEW c \in T!ThreadColumns
      PROVE  (IF c \in T!ThreadArms \cap DOMAIN body /\ Thread!ArmReads(c, body[c]) # Err
              THEN Thread!ArmReads(c, body[c]) ELSE thread[c])
             = IF dto[c] = Keep THEN thread[c] ELSE dto[c]
  BY <1>2, ThreadTable, ThreadPaths, MarksApart DEF Thread!ArmReads, Thread!ReadValue, Thread!Field, ReadValue
<1> HIDE DEF dto
<1>4. Thread!ApplyPatch(thread, body) = Thread!ApplyPatchDto(thread, dto)
  BY <1>3 DEF Thread!ApplyPatch, Thread!ApplyPatchDto
<1> QED BY <1>4 DEF dto

LEMMA MessagePutBack ==
  ASSUME Message!TypeOK
  PROVE  Message!PutBackChangesNothing
<1> SUFFICES ASSUME message # None, NEW snake \in SUBSET M!MessageColumns
             PROVE  LET dto == Message!ReadForm(M!UpdateMessageDto, Message!Answered(message, snake))
                    IN  Message!Accepted(dto) /\ Message!ApplyUpdate(message, dto) = message
  BY DEF Message!PutBackChangesNothing
<1> DEFINE nameOf == [c \in M!MessageColumns |-> IF c \in snake THEN c ELSE M!MessageWire[c]]
           body == Message!Answered(message, snake)
           dto == Message!ReadForm(M!UpdateMessageDto, body)
<1>1. /\ Apart(M!MessageColumns, M!UpdateMessageDto)
      /\ \A c \in M!MessageColumns : M!UpdateMessageDto[c].names = {c, M!MessageWire[c]}
      /\ dto = [c \in M!MessageColumns |-> ReadField(M!UpdateMessageDto[c], body)]
  BY MessageDtos
<1>2. Names(M!MessageColumns, M!UpdateMessageDto, nameOf)
  BY <1>1 DEF Names
<1>3. body = Answer(M!MessageColumns, nameOf, message)
  BY DEF Message!Answered, Answer
<1> HIDE DEF nameOf, body
<1>4. ASSUME NEW c \in M!MessageColumns
      PROVE  ReadField(M!UpdateMessageDto[c], body) = ReadValue(M!UpdateMessageDto[c], message[c])
  <2>1. body[nameOf[c]] = message[c]
    BY <1>1, <1>2, <1>3, AnswerHolds
  <2>2. DOMAIN body = {nameOf[d] : d \in M!MessageColumns}
    BY <1>3 DEF Answer
  <2>3. ReadField(M!UpdateMessageDto[c], body) = ReadValue(M!UpdateMessageDto[c], body[nameOf[c]])
    BY <1>1, <1>2, <2>2, ReadsAnswer
  <2> QED BY <2>1, <2>3
<1>5. ASSUME NEW c \in M!MessageColumns
      PROVE  dto[c] = message[c] /\ dto[c] # Err
  <2>1. message[c] \in Message!Legal(c)
    BY DEF Message!TypeOK
  <2> QED BY <1>1, <1>4, <2>1, MessageTable, MarksApart DEF Message!Legal, ReadValue
<1>6. Message!ApplyUpdate(message, dto) = message
  <2>1. message = [c \in M!MessageColumns |-> message[c]]
    BY DEF Message!TypeOK
  <2> HIDE DEF dto
  <2> QED BY <1>5, <2>1 DEF Message!ApplyUpdate
<1>7. Message!Accepted(dto)
  BY <1>1, <1>5 DEF Message!Accepted
<1> QED BY <1>6, <1>7 DEF body

LEMMA MessageWaysAgree ==
  ASSUME Message!TypeOK
  PROVE  Message!EveryWayBuildsTheRow
<1> SUFFICES ASSUME message # None
             PROVE  LET given == Message!GivenOf(message)
                        dto == Message!ReadForm(M!CreateMessageDto, given)
                    IN  Message!Constructed(given) = message /\ Message!Built(given) = message
                        /\ Message!Accepted(dto) /\ Message!FromCreate(dto) = message
  BY DEF Message!EveryWayBuildsTheRow
<1> DEFINE given == Message!GivenOf(message)
           dto == Message!ReadForm(M!CreateMessageDto, given)
<1>1. /\ DOMAIN given = {c \in M!MessageColumns : message[c] # None}
      /\ \A c \in DOMAIN given : given[c] = message[c]
  BY DEF Message!GivenOf
<1>2. message = [c \in M!MessageColumns |-> message[c]]
      /\ \A c \in M!MessageColumns : message[c] \in Message!Legal(c)
  BY DEF Message!TypeOK
<1> HIDE DEF given
<1>3. \A c \in M!MessageColumns : c \notin DOMAIN given => message[c] = None /\ c \in M!MessageNullable
  BY <1>1, <1>2, MarksApart DEF Message!Legal
<1>4. Message!Constructed(given) = message
  BY <1>1, <1>2, <1>3, MessagePaths DEF Message!Constructed
<1>5. Message!Built(given) = message
  BY <1>1, <1>2, <1>3, MessageTable DEF Message!Built
<1>6. dto = [c \in M!MessageColumns |-> ReadField(M!CreateMessageDto[c], given)]
  BY MessageDtos
<1>7. ASSUME NEW c \in M!MessageColumns
      PROVE  dto[c] = message[c] /\ dto[c] # Err
  <2>1. ReadField(M!CreateMessageDto[c], given) =
          IF c \in DOMAIN given THEN ReadValue(M!CreateMessageDto[c], given[c])
          ELSE M!CreateMessageDto[c].missing
    <3>1. Apart(M!MessageColumns, M!CreateMessageDto)
          /\ \A d \in M!MessageColumns : d \in M!CreateMessageDto[d].names
      BY MessageDtos
    <3>2. DOMAIN given \subseteq M!MessageColumns
      BY <1>1
    <3> QED BY <3>1, <3>2, ReadsColumn
  <2>2. CASE c \in DOMAIN given
    BY <1>1, <1>2, <1>6, <2>1, <2>2, MessageTable, MarksApart DEF ReadValue, Message!Legal
  <2>3. CASE c \notin DOMAIN given
    BY <1>3, <1>6, <2>1, <2>3, MessageTable, MarksApart
  <2> QED BY <2>2, <2>3
<1>8. Message!Accepted(dto)
  BY <1>6, <1>7 DEF Message!Accepted
<1> HIDE DEF dto
<1>9. Message!FromCreate(dto) = message
  BY <1>2, <1>7 DEF Message!FromCreate
<1> QED BY <1>4, <1>5, <1>8, <1>9 DEF given, dto

LEMMA MessageDefaults == Message!DefaultsAgree
<1> SUFFICES ASSUME NEW body
             PROVE  LET dto == Message!ReadForm(M!CreateMessageDto, body)
                        given == [c \in {c \in M!MessageColumns :
                                    M!CreateMessageDto[c].names \cap DOMAIN body # {}} |-> dto[c]]
                    IN  Message!Built(given) = Message!FromCreate(dto)
  BY DEF Message!DefaultsAgree
<1> DEFINE dto == Message!ReadForm(M!CreateMessageDto, body)
           given == [c \in {c \in M!MessageColumns : M!CreateMessageDto[c].names \cap DOMAIN body # {}} |->
                       dto[c]]
<1>1. dto = [c \in M!MessageColumns |-> ReadField(M!CreateMessageDto[c], body)]
  BY MessageDtos
<1>2. \A c \in M!MessageColumns : c \notin DOMAIN given => dto[c] = M!MessageBuilder[c]
  BY <1>1, MessageTable DEF ReadField
<1> HIDE DEF dto
<1>3. \A c \in DOMAIN given : given[c] = dto[c]
  OBVIOUS
<1> HIDE DEF given
<1>4. Message!Built(given) = Message!FromCreate(dto)
  BY <1>2, <1>3 DEF Message!Built, Message!FromCreate
<1> QED BY <1>4 DEF given, dto

LEMMA MessagePatches ==
  ASSUME Message!TypeOK
  PROVE  Message!PatchReadersAgree
<1> SUFFICES ASSUME NEW body, DOMAIN body \subseteq M!MessageColumns,
                    \A c \in DOMAIN body : body[c] \in M!MessageTypes[c] \cup {None}
             PROVE  Message!ApplyPatch(message, body) =
                      Message!ApplyPatchDto(message, Message!ReadForm(M!PatchMessageDto, body))
  BY DEF Message!PatchReadersAgree
<1> DEFINE dto == Message!ReadForm(M!PatchMessageDto, body)
<1>1. dto = [c \in M!MessageColumns |-> ReadField(M!PatchMessageDto[c], body)]
  BY MessageDtos
<1>2. ASSUME NEW c \in M!MessageColumns
      PROVE  dto[c] = IF c \in DOMAIN body THEN ReadValue(M!PatchMessageDto[c], body[c]) ELSE Keep
  <2>1. Apart(M!MessageColumns, M!PatchMessageDto)
        /\ \A d \in M!MessageColumns : d \in M!PatchMessageDto[d].names
    BY MessageDtos
  <2>2. ReadField(M!PatchMessageDto[c], body) =
          IF c \in DOMAIN body THEN ReadValue(M!PatchMessageDto[c], body[c]) ELSE M!PatchMessageDto[c].missing
    BY <2>1, ReadsColumn
  <2> QED BY <1>1, <2>2, MessageTable
<1>3. ASSUME NEW c \in M!MessageColumns
      PROVE  (IF c \in M!MessageArms \cap DOMAIN body /\ Message!ArmReads(c, body[c]) # Err
              THEN Message!ArmReads(c, body[c]) ELSE message[c])
             = IF dto[c] = Keep THEN message[c] ELSE dto[c]
  BY <1>2, MessageTable, MessagePaths, MarksApart DEF Message!ArmReads, Message!ReadValue, Message!Field, ReadValue
<1> HIDE DEF dto
<1>4. Message!ApplyPatch(message, body) = Message!ApplyPatchDto(message, dto)
  BY <1>3 DEF Message!ApplyPatch, Message!ApplyPatchDto
<1> QED BY <1>4 DEF dto

(***************************************************************************)
(* The properties of the two entities                                      *)
(***************************************************************************)

\* No column whose Rust type is no Option is ever without a value of its type, for any
\* bodies, values, calls of setters and order of requests.
THEOREM FormsTypeCorrect == Spec => []TypeOK
<1>1. Init => TypeOK
  BY DEF Init, Thread!Init, Message!Init, TypeOK, Thread!TypeOK, Message!TypeOK
<1>2. TypeOK /\ [Next]_vars => TypeOK'
  <2>1. UNCHANGED thread => (Thread!TypeOK => Thread!TypeOK')
    BY DEF Thread!TypeOK, Thread!Legal
  <2>2. UNCHANGED message => (Message!TypeOK => Message!TypeOK')
    BY DEF Message!TypeOK, Message!Legal
  <2> QED BY <2>1, <2>2, ThreadStepTyped, MessageStepTyped DEF TypeOK, Next, vars
<1> QED BY <1>1, <1>2, PTL DEF Spec

\* A client that PUTs back what it was answered, in any mixture of the two spellings, is
\* accepted and changes nothing.
THEOREM PutBackIsIdle == Spec => []PutBackChangesNothing
<1>1. TypeOK => PutBackChangesNothing
  BY ThreadPutBack, MessagePutBack DEF TypeOK, PutBackChangesNothing
<1> QED BY <1>1, FormsTypeCorrect, PTL

\* Constructor with setters, builder and POST make the same row of the same fields.
THEOREM WaysAgree == Spec => []EveryWayBuildsTheRow
<1>1. TypeOK => EveryWayBuildsTheRow
  BY ThreadWaysAgree, MessageWaysAgree DEF TypeOK, EveryWayBuildsTheRow
<1> QED BY <1>1, FormsTypeCorrect, PTL

\* A POST and the builder fall back on the same value for each column that is not given,
\* whatever else the body holds.
THEOREM SameDefaults == Spec => []DefaultsAgree
<1>1. DefaultsAgree
  BY ThreadDefaults, MessageDefaults DEF DefaultsAgree
<1> QED BY <1>1, PTL

\* The Patch DTO and apply_patch make the same row of every body in the schema's names
\* whose values are null or of their column's type.
THEOREM PatchesAgree == Spec => []PatchReadersAgree
<1>1. TypeOK => PatchReadersAgree
  BY ThreadPatches, MessagePatches DEF TypeOK, PatchReadersAgree
<1> QED BY <1>1, FormsTypeCorrect, PTL
=============================================================================
