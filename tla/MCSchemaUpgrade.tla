-------------------------- MODULE MCSchemaUpgrade --------------------------
(***************************************************************************)
(* Small instances of SchemaUpgrade: a rule on each table.                   *)
(***************************************************************************)
EXTENDS SchemaUpgrade

CONSTANTS messages, threads, external_id, subject_type, a, b, w1

OneRuleEach == [c \in {external_id, subject_type} |-> IF c = external_id THEN messages ELSE threads]
=============================================================================
