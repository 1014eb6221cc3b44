---------------------------- MODULE EntityForms ----------------------------
(***************************************************************************)
(* One stored row of a generated entity and every way this crate offers to  *)
(* fill it and to change it: the constructor with its fluent setters, the   *)
(* builder, the Create, Update and Patch DTOs and apply_patch.  The tables   *)
(* that say which column is what are constants: ThreadForms and MessageForms *)
(* hold those of the two entities.  id and metadata are in no form; which    *)
(* request finds which row is CrudSurface's.                                 *)
(***************************************************************************)
EXTENDS JsonFields

CONSTANTS
  Columns,     \* the columns of the entity the forms carry
  Nullable,    \* those whose Rust type is Option<T>
  Types,       \* the values of each column
  Wire,        \* the name each column has in an answer (camelCase)
  NewArgs,     \* the columns `new` takes
  Setters,     \* the columns that have a with_<column>
  Unset,       \* what build() takes for a column that was not set, or Err
  PatchArms,   \* the columns apply_patch has an arm for
  CreateForm, UpdateForm, PatchForm,  \* the DTOs, a field per column
  Bodies       \* the request bodies that are sent

VARIABLE row   \* the stored row, None before it exists

Legal(c) == Types[c] \cup (IF c \in Nullable THEN {None} ELSE {})

\* The columns of a row that have a value, as arguments of the constructors.
GivenOf(r) == [c \in {c \in Columns : r[c] # None} |-> r[c]]

\* new(..) and then a with_<column>(v) for each of the other columns that are given.
Constructed(given) ==
  [c \in Columns |-> IF c \in DOMAIN given /\ c \in NewArgs \cup Setters
                     THEN given[c] ELSE None]

\* <Entity>Builder: each setter stores Some(v); build() falls back or refuses.
Built(given) == [c \in Columns |-> IF c \in DOMAIN given THEN given[c] ELSE Unset[c]]

\* From<Create..Dto>: every column from the field of its name.
FromCreate(dto) == [c \in Columns |-> dto[c]]

\* ApplyUpdateDto: every column is assigned, an omitted one becomes None.
ApplyUpdate(r, dto) == [c \in Columns |-> dto[c]]

\* A PATCH read through the Patch DTO: what was not given stays.
ApplyPatchDto(r, dto) == [c \in Columns |-> IF dto[c] = Keep THEN r[c] ELSE dto[c]]

\* apply_patch: an arm per column, by its snake_case name; a value that does not
\* deserialize into the column leaves it as it is.
ArmReads(c, v) == ReadValue(Field({c}, Types[c], Err, IF c \in Nullable THEN None ELSE Err), v)
ApplyPatch(r, body) ==
  [c \in Columns |-> IF c \in PatchArms \cap DOMAIN body /\ ArmReads(c, body[c]) # Err
                     THEN ArmReads(c, body[c]) ELSE r[c]]

\* has_changes: some field of the Patch DTO is Some(..).
HasChanges(dto) == \E c \in Columns : dto[c] # Keep

\* The answer of a GET as a client sends it back, the columns of snake under the name the
\* schema gives them and the others under that of the answer.
Answered(r, snake) ==
  LET nameOf == [c \in Columns |-> IF c \in snake THEN c ELSE Wire[c]]
  IN  [n \in {nameOf[c] : c \in Columns} |-> r[CHOOSE c \in Columns : nameOf[c] = n]]

-----------------------------------------------------------------------------
Init == row = None

Post(body) ==
  /\ row = None
  /\ Accepted(ReadForm(CreateForm, body))
  /\ row' = FromCreate(ReadForm(CreateForm, body))

Put(body) ==
  /\ row # None
  /\ Accepted(ReadForm(UpdateForm, body))
  /\ row' = ApplyUpdate(row, ReadForm(UpdateForm, body))

Patch(body) ==
  /\ row # None
  /\ Accepted(ReadForm(PatchForm, body))
  /\ HasChanges(ReadForm(PatchForm, body))
  /\ row' = ApplyPatchDto(row, ReadForm(PatchForm, body))

PatchFields(body) ==
  /\ row # None
  /\ row' = ApplyPatch(row, body)

Set(c, v) ==
  /\ row # None
  /\ row' = [row EXCEPT ![c] = v]

Next ==
  \/ \E body \in Bodies : Post(body) \/ Put(body) \/ Patch(body) \/ PatchFields(body)
  \/ \E c \in Setters : \E v \in Types[c] : Set(c, v)

Spec == Init /\ [][Next]_row

-----------------------------------------------------------------------------
\* Whatever is sent, and in whatever order, a column whose Rust type is no Option never
\* ends up without a value of its type (the row would be refused by its NOT NULL column,
\* or worse, stored).
TypeOK == row # None => row \in [Columns -> UNION {Legal(c) : c \in Columns}]
                        /\ \A c \in Columns : row[c] \in Legal(c)

\* A client that PUTs back what it was answered, spelled as the API answers it or as the
\* schema names it or mixed, is accepted and changes nothing: the Response DTO, the Update
\* DTO with its aliases and apply_update agree on every column.
PutBackChangesNothing ==
  row # None => \A snake \in SUBSET Columns :
    LET dto == ReadForm(UpdateForm, Answered(row, snake))
    IN  Accepted(dto) /\ ApplyUpdate(row, dto) = row

\* The constructor with its setters, the builder and a POST give the same entity for the
\* same fields: no path drops a column or falls back on another default.
EveryWayBuildsTheRow ==
  row # None => LET given == GivenOf(row)
                    dto == ReadForm(CreateForm, given)
                IN  Constructed(given) = row /\ Built(given) = row
                    /\ Accepted(dto) /\ FromCreate(dto) = row

\* What one path falls back on for a column that is not given, so do the others: a POST
\* that is accepted without the column and a builder that builds without it agree.
DefaultsAgree ==
  \A body \in Bodies :
    LET dto == ReadForm(CreateForm, body)
        given == [c \in {c \in Columns : CreateForm[c].names \cap DOMAIN body # {}} |-> dto[c]]
    IN  (row # None /\ Accepted(dto)) => Built(given) = FromCreate(dto)

\* The two readings of a partial update, the Patch DTO and apply_patch, do the same for
\* every body in the schema's names whose values are null or of their column's type; in
\* particular null clears a nullable column in both and is ignored for the others in both.
PatchReadersAgree ==
  row # None => \A body \in Bodies :
    (/\ DOMAIN body \subseteq Columns
     /\ \A c \in DOMAIN body : body[c] \in Types[c] \cup {None})
       => ApplyPatch(row, body) = ApplyPatchDto(row, ReadForm(PatchForm, body))
=============================================================================
