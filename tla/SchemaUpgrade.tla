---------------------------- MODULE SchemaUpgrade ----------------------------
(***************************************************************************)
(* The migration chain of September 2026 over a database with data, and the *)
(* generated create / update that relies on what the chain has left behind.  *)
(* Two of its files change what can be stored: strip_tenancy drops           *)
(* company_id once the composing service's decorator has moved it to         *)
(* org_unit_id, and add_declared_checks turns each declared rule into a      *)
(* CHECK unless a stored row breaks it.  A file is one transaction; the       *)
(* service is stopped while one runs.  Before the strip the old release       *)
(* serves, after it the one that checks MessageRowRules and ThreadRowRules.   *)
(***************************************************************************)
EXTENDS Naturals, FiniteSets

CONSTANTS
  Rows,          \* ids of the rows that get written
  Tables,        \* communication.messages, communication.threads
  Rules,         \* the declared rules of their columns
  RuleTable,     \* the table of each rule
  Writes,        \* create and update requests on the generated routes
  None           \* no table: the row is not stored

ASSUME SchemaAssumption ==
  /\ RuleTable \in [Rules -> Tables]
  /\ None \notin Tables

VARIABLES
  bypassesRls, \* the role the chain runs as is exempt from row security; it never changes
  rows,        \* the stored rows of both tables
  orgColumn,   \* the tables that carry org_unit_id: the decorator has run on them
  applied,     \* the last file of the chain that is applied
  checks,      \* the rules that are CHECK constraints
  pc,          \* "serving", or the file that is running
  counted,     \* strip_tenancy: the tables its guard has counted
  offenders,   \* strip_tenancy: those that are not covered
  tested,      \* add_declared_checks: the rules it has dealt with
  added,       \* add_declared_checks: the constraints it has added
  write        \* where each create / update request stands

chainVars == <<bypassesRls, orgColumn, applied, checks, pc, counted, offenders, tested, added>>
vars      == <<rows, chainVars, write>>

RulesOf(t) == {c \in Rules : RuleTable[c] = t}

\* A row: its table, which tenancy keys are not NULL, the rules its columns break.
Row == [table : Tables \cup {None}, company : BOOLEAN, org : BOOLEAN, breaks : SUBSET Rules]

NoRow == [table |-> None, company |-> FALSE, org |-> FALSE, breaks |-> {}]

\* A request: what it is, the row it writes, the rules whose columns it changes, and
\* the rules that the row it is about to store breaks.
Write ==
  [kind    : {"none", "create", "update"},
   pc      : {"idle", "accepted", "stored", "refused", "check_violation", "dropped"},
   row     : Rows \cup {None},
   table   : Tables \cup {None},
   changed : SUBSET Rules,
   after   : SUBSET Rules]

Idle == [kind |-> "none", pc |-> "idle", row |-> None, table |-> None,
         changed |-> {}, after |-> {}]

\* The rules a request or a row can break are those of its table, and a row never
\* changes its table.
TypeOK ==
  /\ bypassesRls \in BOOLEAN
  /\ rows      \in [Rows -> Row]
  /\ \A r \in Rows : rows[r].breaks \subseteq RulesOf(rows[r].table)
  /\ orgColumn \subseteq Tables
  /\ applied   \in {"company_fence", "strip_tenancy", "declared_checks"}
  /\ checks    \subseteq Rules
  /\ pc        \in {"serving", "strip_tenancy", "declared_checks"}
  /\ counted   \subseteq Tables
  /\ offenders \subseteq counted
  /\ tested    \subseteq Rules
  /\ added     \subseteq tested
  /\ write     \in [Writes -> Write]
  /\ \A w \in Writes : write[w].pc # "idle" =>
       /\ write[w].table \in Tables
       /\ write[w].after \subseteq RulesOf(write[w].table)
       /\ write[w].kind = "update" => /\ write[w].row \in Rows
                                      /\ rows[write[w].row].table = write[w].table

Init ==
  /\ bypassesRls \in BOOLEAN
  /\ rows      = [r \in Rows |-> NoRow]
  /\ orgColumn = {} /\ applied = "company_fence" /\ checks = {}
  /\ pc        = "serving"
  /\ counted   = {} /\ offenders = {} /\ tested = {} /\ added = {}
  /\ write     = [w \in Writes |-> Idle]

----------------------------------------------------------------------------
(* The service and its operator, while no file runs. *)

Serving == pc = "serving"

RowsOf(t)  == {r \in Rows : rows[r].table = t}
HasCompany == applied = "company_fence"

\* The tenancy keys a new row of t gets: company_id from the old release, org_unit_id
\* from the decorator when a scope is bound, as its fence demands once it is alone.
NewKeys(t) ==
  {k \in [company : BOOLEAN, org : BOOLEAN] :
     /\ k.company = HasCompany
     /\ k.org => t \in orgColumn
     /\ ~k.company => (k.org <=> t \in orgColumn)}

Fresh(t, k, breaks) == [table |-> t, company |-> k.company, org |-> k.org, breaks |-> breaks]

\* receive_inbound, send_outbound or open_thread inserts a row.  No row rule is
\* consulted; what breaks a CHECK is not stored.
ServiceInsert(r, t, k, breaks) ==
  /\ Serving /\ rows[r] = NoRow
  /\ breaks \cap checks = {}
  /\ rows' = [rows EXCEPT ![r] = Fresh(t, k, breaks)]
  /\ UNCHANGED <<chainVars, write>>

\* mark_sent, mark_failed or set_subject updates a ruled column of a row.
ServiceUpdate(r, c, breaks) ==
  LET after == IF breaks THEN rows[r].breaks \cup {c} ELSE rows[r].breaks \ {c} IN
  /\ Serving /\ rows[r].table = RuleTable[c]
  /\ after \cap checks = {}
  /\ rows' = [rows EXCEPT ![r].breaks = after]
  /\ UNCHANGED <<chainVars, write>>

\* The tenancy decorator on table t: adds org_unit_id, fills it from company_id.
Decorate(t) ==
  /\ Serving
  /\ t \notin orgColumn \/ \E r \in RowsOf(t) : rows[r].company /\ ~rows[r].org
  /\ orgColumn' = orgColumn \cup {t}
  /\ rows' = [r \in Rows |->
       IF rows[r].table = t THEN [rows[r] EXCEPT !.org = @ \/ rows[r].company] ELSE rows[r]]
  /\ UNCHANGED <<bypassesRls, applied, checks, pc, counted, offenders, tested, added, write>>

----------------------------------------------------------------------------
(* The generated create and update, of the release without company_id. *)

Submit(w, kind, r, t, changed, after, accepted) ==
  /\ Serving /\ ~HasCompany
  /\ write[w].pc = "idle"
  /\ write' = [write EXCEPT ![w] =
       [kind |-> kind, pc |-> IF accepted THEN "accepted" ELSE "refused",
        row |-> r, table |-> t, changed |-> changed, after |-> after]]
  /\ UNCHANGED <<rows, chainVars>>

\* Mutant: a create is checked on the columns that changed, which is none.
RuledOnUpdateOnly(kind, t, changed) == IF kind = "create" THEN {} ELSE changed

\* The rules that are checked: all on create, on update those of changed columns.
Ruled(kind, t, changed) == IF kind = "create" THEN RulesOf(t) ELSE changed

RulesHold(kind, t, changed, after) == Ruled(kind, t, changed) \cap after = {}

\* POST: the row is made of the DTO alone.
SubmitCreate(w, t, after) ==
  Submit(w, "create", None, t, {}, after, RulesHold("create", t, {}, after))

Stored(r) == rows[r].table # None

\* PUT: the row that is read, with the DTO's columns put over it; each rule whose column
\* that changes holds or breaks after it.
SubmitUpdate(w, r, changed, broken) ==
  LET t     == rows[r].table
      after == (rows[r].breaks \ changed) \cup broken
  IN
  /\ Stored(r)
  /\ changed \subseteq RulesOf(t) /\ broken \subseteq changed
  /\ Submit(w, "update", r, t, changed, after, RulesHold("update", t, changed, after))

\* The INSERT or the whole-row UPDATE. A row that passed the rules and breaks a CHECK
\* is an internal error and not a 422.
Store(w, r, row) ==
  LET fits == write[w].after \cap checks = {} IN
  /\ Serving /\ write[w].pc = "accepted"
  /\ rows' = IF fits THEN [rows EXCEPT ![r] = row] ELSE rows
  /\ write' = [write EXCEPT ![w].pc = IF fits THEN "stored" ELSE "check_violation"]
  /\ UNCHANGED chainVars

StoreCreate(w, r, k) ==
  /\ write[w].kind = "create" /\ rows[r] = NoRow
  /\ k \in NewKeys(write[w].table)
  /\ Store(w, r, Fresh(write[w].table, k, write[w].after))

\* The columns no DTO has, the tenancy keys among them, stay.
StoreUpdate(w) ==
  LET r == write[w].row IN
  /\ write[w].kind = "update"
  /\ Store(w, r, [rows[r] EXCEPT !.breaks = write[w].after])

----------------------------------------------------------------------------
(* The chain. *)

\* The service stops, with the requests it was working on; the files that are not
\* applied yet run from the first.
BeginUpgrade ==
  /\ Serving /\ applied # "declared_checks"
  /\ pc' = IF HasCompany THEN "strip_tenancy" ELSE "declared_checks"
  /\ counted' = {} /\ offenders' = {} /\ tested' = {} /\ added' = {}
  /\ write' = [w \in Writes |->
       IF write[w].pc = "accepted" THEN [write[w] EXCEPT !.pc = "dropped"] ELSE write[w]]
  /\ UNCHANGED <<bypassesRls, rows, orgColumn, applied, checks>>

\* What a SELECT of the chain sees: both tables FORCE row security, so their owner sees
\* no row without a scope, and the chain sets none.
Seen(t) == IF bypassesRls THEN RowsOf(t) ELSE {}

\* Mutant: the guard looks for the column and not for its NULLs.
ColumnThere(t) == t \in orgColumn

\* org_unit_id is there with no NULLs.
Covered(t) == t \in orgColumn /\ \A r \in Seen(t) : rows[r].org

SafeToStrip(t) == Covered(t) \/ Seen(t) = {}

CountRows(t) ==
  /\ pc = "strip_tenancy" /\ t \notin counted
  /\ counted' = counted \cup {t}
  /\ offenders' = IF SafeToStrip(t) THEN offenders ELSE offenders \cup {t}
  /\ UNCHANGED <<bypassesRls, rows, orgColumn, applied, checks, pc, tested, added, write>>

\* RAISE EXCEPTION: the file is rolled back and the run of the chain ends.
RefuseStrip ==
  /\ pc = "strip_tenancy" /\ counted = Tables /\ offenders # {}
  /\ pc' = "serving"
  /\ UNCHANGED <<bypassesRls, rows, orgColumn, applied, checks, counted, offenders, tested, added,
                 write>>

\* The policies, the indexes and the columns of both tables go, in one transaction.
StripTenancy ==
  /\ pc = "strip_tenancy" /\ counted = Tables /\ offenders = {}
  /\ rows' = [r \in Rows |-> [rows[r] EXCEPT !.company = FALSE]]
  /\ applied' = "strip_tenancy" /\ pc' = "declared_checks"
  /\ UNCHANGED <<bypassesRls, orgColumn, checks, counted, offenders, tested, added, write>>

\* The chain may also stop between two files and be run again later.
StopBetweenFiles ==
  /\ pc = "declared_checks" /\ tested = {}
  /\ pc' = "serving"
  /\ UNCHANGED <<bypassesRls, rows, orgColumn, applied, checks, counted, offenders, tested, added,
                 write>>

\* Mutant: the constraint is added without looking at the stored rows.
NothingBroken(c) == FALSE

\* IF EXISTS (SELECT 1 FROM the table WHERE NOT the rule).
SeenBroken(c) == \E r \in Seen(RuleTable[c]) : c \in rows[r].breaks

\* RAISE NOTICE: a rule that stored rows break does not become a constraint.
SkipCheck(c) ==
  /\ pc = "declared_checks" /\ c \notin tested
  /\ SeenBroken(c)
  /\ tested' = tested \cup {c}
  /\ UNCHANGED <<bypassesRls, rows, orgColumn, applied, checks, pc, counted, offenders, added, write>>

\* ALTER TABLE ADD CONSTRAINT reads every row, whoever runs it: one that breaks the rule
\* fails the file.
AddCheck(c) ==
  /\ pc = "declared_checks" /\ c \notin tested
  /\ ~SeenBroken(c)
  /\ IF \E r \in Rows : c \in rows[r].breaks
     THEN /\ pc' = "serving"
          /\ UNCHANGED <<tested, added>>
     ELSE /\ tested' = tested \cup {c} /\ added' = added \cup {c}
          /\ UNCHANGED pc
  /\ UNCHANGED <<bypassesRls, rows, orgColumn, applied, checks, counted, offenders, write>>

CommitChecks ==
  /\ pc = "declared_checks" /\ tested = Rules
  /\ checks' = added
  /\ applied' = "declared_checks" /\ pc' = "serving"
  /\ UNCHANGED <<bypassesRls, rows, orgColumn, counted, offenders, tested, added, write>>

----------------------------------------------------------------------------
ServiceWrite ==
  \/ \E r \in Rows, t \in Tables : \E k \in NewKeys(t), breaks \in SUBSET RulesOf(t) :
       ServiceInsert(r, t, k, breaks)
  \/ \E r \in Rows, c \in Rules, breaks \in BOOLEAN : ServiceUpdate(r, c, breaks)

CrudStep(w) ==
  \/ \E t \in Tables : \E after \in SUBSET RulesOf(t) : SubmitCreate(w, t, after)
  \/ \E r \in Rows : \E changed, broken \in SUBSET Rules : SubmitUpdate(w, r, changed, broken)
  \/ \E r \in Rows, k \in [company : BOOLEAN, org : BOOLEAN] : StoreCreate(w, r, k)
  \/ StoreUpdate(w)

TestRule == \E c \in Rules : SkipCheck(c) \/ AddCheck(c)

UpgradeStep ==
  \/ BeginUpgrade
  \/ \E t \in Tables : CountRows(t)
  \/ RefuseStrip \/ StripTenancy
  \/ TestRule \/ CommitChecks

\* The chain is applied and every request answered: the system is idle, not stuck.
Quiescent ==
  /\ Serving /\ applied = "declared_checks"
  /\ \A w \in Writes : write[w].pc # "accepted"
  /\ UNCHANGED vars

Next ==
  \/ ServiceWrite
  \/ \E t \in Tables : Decorate(t)
  \/ \E w \in Writes : CrudStep(w)
  \/ UpgradeStep
  \/ StopBetweenFiles
  \/ Quiescent

\* The operator runs the chain again after it stopped, and the decorator on every table
\* it is refused for, as the RAISE asks.
Fairness ==
  /\ WF_vars(UpgradeStep)
  /\ SF_vars(TestRule)
  /\ \A t \in Tables : SF_vars(Decorate(t))

Spec     == Init /\ [][Next]_vars
LiveSpec == Spec /\ Fairness

----------------------------------------------------------------------------
Keyed(r) == rows[r].company \/ rows[r].org

\* strip_tenancy: a stored row that can be told to belong to a tenant still can after
\* any step, if the chain sees the rows; the column is not dropped while it holds the
\* only tenancy key of a row.
TenancyKept ==
  [][bypassesRls =>
       \A r \in Rows : Stored(r) /\ Keyed(r) => Stored(r)' /\ Keyed(r)']_vars

\* What MessageRowRules and ThreadRowRules let pass is stored: the columns an update
\* leaves alone are not checked, yet no CHECK refuses them, also when they broke their
\* rule before the rules were declared.
AcceptedWritesFit == \A w \in Writes : write[w].pc # "check_violation"

\* add_declared_checks, strip_tenancy: whatever is stored, once the decorator has
\* covered both tables a chain that sees the rows is applied to its end; old rows never
\* block it.
UpgradeCompletes == <>(bypassesRls => applied = "declared_checks")
=============================================================================
