---------------------------- MODULE MessageForms ----------------------------
(***************************************************************************)
(* The tables of Message: what its entity, builder, DTOs and apply_patch say *)
(* of each column.  Forms gives them to EntityForms.  Utc::now() is          *)
(* the instant "now".                                                        *)
(***************************************************************************)
EXTENDS JsonFields

CONSTANTS Uuids, Texts, Times   \* thread ids; ids, addresses and bodies; instants

MessageTypes ==
  [thread_id      |-> Uuids,
   direction      |-> {"inbound", "outbound"},
   channel        |-> {"whatsapp", "email", "sms"},
   external_id    |-> Texts,
   address_from   |-> Texts,
   address_to     |-> Texts,
   body           |-> Texts,
   status         |-> {"received", "queued", "sent", "delivered", "failed"},
   failure_reason |-> Texts,
   occurred_at    |-> Times]

MessageColumns  == DOMAIN MessageTypes
MessageNullable == {"external_id", "address_from", "address_to", "failure_reason"}

\* #[serde(rename_all = "camelCase")] of the Response DTO.
MessageWire ==
  [thread_id      |-> "threadId",
   direction      |-> "direction",
   channel        |-> "channel",
   external_id    |-> "externalId",
   address_from   |-> "addressFrom",
   address_to     |-> "addressTo",
   body           |-> "body",
   status         |-> "status",
   failure_reason |-> "failureReason",
   occurred_at    |-> "occurredAt"]

\* The names of a field: the camelCase one and the alias.
MessageNames(c) == {c, MessageWire[c]}

MessageNewArgs == {"thread_id", "direction", "channel", "body", "status", "occurred_at"}
MessageSetters == {"external_id", "address_from", "address_to", "failure_reason"}

\* What a column that is not given falls back on; Err is "<column> is required".
\* Mutant: the builder takes an outbound message for granted.
Fallback == [status |-> "received", occurred_at |-> "now"]
BuilderOfQueued ==
  [c \in MessageColumns |-> IF c = "status" THEN "queued" ELSE
                            IF c \in DOMAIN Fallback THEN Fallback[c] ELSE
                            IF c \in MessageNullable THEN None ELSE Err]
MessageBuilder ==
  [c \in MessageColumns |-> IF c \in DOMAIN Fallback THEN Fallback[c] ELSE
                            IF c \in MessageNullable THEN None        ELSE Err]

NullableFields == [c \in MessageNullable |-> Optional(MessageNames(c), MessageTypes[c])]

CreateMessageDto ==
  [c \in MessageColumns |->
     IF c \in DOMAIN Fallback    THEN Defaulted(MessageNames(c), MessageTypes[c], Fallback[c]) ELSE
     IF c \in MessageNullable    THEN NullableFields[c] ELSE Required(MessageNames(c), MessageTypes[c])]

UpdateMessageDto ==
  [c \in MessageColumns |->
     IF c \in MessageNullable THEN NullableFields[c] ELSE Required(MessageNames(c), MessageTypes[c])]

\* Mutants: every field of the Patch DTO is read by double_option, and none is.
PatchAllDoubled  == [c \in MessageColumns |-> DoubleOption(MessageNames(c), MessageTypes[c])]
PatchNoneDoubled == [c \in MessageColumns |-> PatchOption(MessageNames(c), MessageTypes[c])]
PatchMessageDto ==
  [c \in MessageColumns |->
     IF c \in MessageNullable THEN DoubleOption(MessageNames(c), MessageTypes[c])
     ELSE PatchOption(MessageNames(c), MessageTypes[c])]

MessageArms == {"thread_id", "direction", "channel", "external_id", "address_from",
                "address_to", "body", "status", "failure_reason", "occurred_at"}
=============================================================================
