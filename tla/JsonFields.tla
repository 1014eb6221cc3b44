---------------------------- MODULE JsonFields ----------------------------
(***************************************************************************)
(* What serde makes of the members of a JSON body.  A body is a function    *)
(* from member names to values; names no field of the form knows are        *)
(* ignored.  A form has one field per column: the names it answers to, the  *)
(* values it takes, and what it makes of a null and of no member at all.    *)
(***************************************************************************)
EXTENDS FiniteSets

CONSTANTS
  None,   \* JSON null, SQL NULL, Option::None
  Keep,   \* a PATCH field that was not given
  Err,    \* deserialization refuses the body (a 400 or 422 of the extractor)
  Bad     \* a JSON value of no type any column has

Field(names, type, missing, null) ==
  [names |-> names, type |-> type, missing |-> missing, null |-> null]

\* `T`, `T` with a serde default, `Option<T>`, and the two PATCH forms: `Option<T>` for
\* a column that cannot be NULL and `Option<Option<T>>` read by double_option.
Required(names, type)      == Field(names, type, Err, Err)
Defaulted(names, type, d)  == Field(names, type, d, Err)
Optional(names, type)      == Field(names, type, None, None)
PatchOption(names, type)   == Field(names, type, Keep, Keep)
DoubleOption(names, type)  == Field(names, type, Keep, None)

\* serde_json::from_value of one value.
ReadValue(field, v) ==
  IF v \in field.type THEN v ELSE IF v = None THEN field.null ELSE Err

\* A member given under two names of its field is a duplicate field.
ReadField(field, body) ==
  LET given == field.names \cap DOMAIN body
  IN  IF given = {} THEN field.missing
      ELSE IF \E n \in given : given = {n}
           THEN ReadValue(field, body[CHOOSE n \in given : TRUE])
           ELSE Err

ReadForm(form, body) == [c \in DOMAIN form |-> ReadField(form[c], body)]

Accepted(dto) == \A c \in DOMAIN dto : dto[c] # Err
=============================================================================
