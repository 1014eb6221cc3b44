---------------------------- MODULE ThreadForms ----------------------------
(***************************************************************************)
(* The tables of Thread: what its entity, builder, DTOs and apply_patch say *)
(* of each column.  Forms gives them to EntityForms.                         *)
(***************************************************************************)
EXTENDS JsonFields

CONSTANTS Uuids, Texts, Times   \* party and subject ids; types and handles; instants

ThreadTypes ==
  [channel         |-> {"whatsapp", "email", "sms"},
   party_id        |-> Uuids,
   subject_type    |-> Texts,
   subject_id      |-> Uuids,
   external_ref    |-> Texts,
   status          |-> {"open", "closed"},
   last_message_at |-> Times]

ThreadColumns  == DOMAIN ThreadTypes
ThreadNullable == {"party_id", "subject_type", "subject_id", "external_ref", "last_message_at"}

\* #[serde(rename_all = "camelCase")] of the Response DTO.
ThreadWire ==
  [channel         |-> "channel",
   party_id        |-> "partyId",
   subject_type    |-> "subjectType",
   subject_id      |-> "subjectId",
   external_ref    |-> "externalRef",
   status          |-> "status",
   last_message_at |-> "lastMessageAt"]

\* The names of a field: the camelCase one and the alias.
ThreadNames(c) == {c, ThreadWire[c]}

\* Mutant: new() and its setters, without with_subject_id.
SettersButSubjectId == {"party_id", "subject_type", "external_ref", "last_message_at"}
ThreadNewArgs == {"channel", "status"}
ThreadSetters == {"party_id", "subject_type", "subject_id", "external_ref", "last_message_at"}

ThreadBuilder ==
  [c \in ThreadColumns |-> IF c = "channel" THEN "whatsapp" ELSE
                           IF c = "status"  THEN "open"     ELSE None]

\* The fields of the three DTOs that are Option<T> in all of them.
NullableFields == [c \in ThreadNullable |-> Optional(ThreadNames(c), ThreadTypes[c])]

CreateThreadDto ==
  [c \in ThreadColumns |->
     IF c = "channel" THEN Defaulted({c}, ThreadTypes[c], "whatsapp") ELSE
     IF c = "status"  THEN Defaulted({c}, ThreadTypes[c], "open")     ELSE NullableFields[c]]

\* Mutant: a field of the Update DTO has lost its alias.
UpdateWithoutAlias ==
  [c \in ThreadColumns |->
     IF c \notin ThreadNullable THEN Required({c}, ThreadTypes[c]) ELSE
     IF c = "external_ref" THEN Optional({ThreadWire[c]}, ThreadTypes[c]) ELSE NullableFields[c]]
UpdateThreadDto ==
  [c \in ThreadColumns |->
     IF c \in ThreadNullable THEN NullableFields[c] ELSE Required({c}, ThreadTypes[c])]

PatchThreadDto ==
  [c \in ThreadColumns |->
     IF c \in ThreadNullable THEN DoubleOption(ThreadNames(c), ThreadTypes[c])
     ELSE PatchOption({c}, ThreadTypes[c])]

\* The arms of apply_patch.
ThreadArms == {"channel", "party_id", "subject_type", "subject_id", "external_ref",
               "status", "last_message_at"}
=============================================================================
