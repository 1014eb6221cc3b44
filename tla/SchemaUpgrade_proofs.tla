------------------------ MODULE SchemaUpgrade_proofs ------------------------
(***************************************************************************)
(* What SchemaUpgrade keeps for any number of rows, tables, rules and       *)
(* requests.  No row changes while a file runs, so what a file has found out *)
(* about the rows still holds when it acts on it: GuardKnows and TestsKnow.   *)
(***************************************************************************)
EXTENDS SchemaUpgrade, TLAPS

\* strip_tenancy: a table that was counted and is no offender is safe to strip, and no
\* rule has been tested yet.
GuardKnows ==
  pc = "strip_tenancy" =>
    /\ applied = "company_fence" /\ added = {}
    /\ \A t \in counted \ offenders : SafeToStrip(t)

\* add_declared_checks: no stored row breaks a rule whose constraint was added.
TestsKnow ==
  pc = "declared_checks" => \A c \in added, r \in Rows : c \notin rows[r].breaks

\* A CHECK holds of every stored row.
ChecksHold == \A r \in Rows : rows[r].breaks \cap checks = {}

\* A request the rules accepted fits the CHECKs, and none is at work while a file runs.
AcceptedFit ==
  \A w \in Writes : write[w].pc = "accepted" => Serving /\ write[w].after \cap checks = {}

UpgradeInv ==
  TypeOK /\ GuardKnows /\ TestsKnow /\ ChecksHold /\ AcceptedFit /\ AcceptedWritesFit

-----------------------------------------------------------------------------
\* What the row rules of table t leave of a new row, for the type of rows.
FitsTable(r, row) ==
  /\ row \in Row
  /\ row.breaks \subseteq RulesOf(row.table)
  /\ rows[r].table \in {None, row.table}

\* Writing one row that fits keeps the types of all of them, and every row's table.
LEMMA OneRowWritten ==
  ASSUME TypeOK, NEW r \in Rows, NEW row, FitsTable(r, row),
         rows' = [rows EXCEPT ![r] = row]
  PROVE  /\ rows' \in [Rows -> Row]
         /\ \A q \in Rows : rows'[q].breaks \subseteq RulesOf(rows'[q].table)
         /\ \A q \in Rows : rows[q].table \in {None, rows'[q].table}
<1>1. \A q \in Rows : rows'[q] = IF q = r THEN row ELSE rows[q]
  BY DEF TypeOK
<1>2. rows' \in [Rows -> Row]
  BY DEF TypeOK, FitsTable
<1> QED BY <1>1, <1>2 DEF TypeOK, FitsTable

\* Storing a request's row keeps the types, whether a CHECK refuses it or not.
LEMMA StoreKeepsTypes ==
  ASSUME TypeOK, NEW w \in Writes, NEW r \in Rows, NEW row, FitsTable(r, row),
         Store(w, r, row)
  PROVE  TypeOK'
<1>1. /\ rows' \in [Rows -> Row]
      /\ \A q \in Rows : rows'[q].breaks \subseteq RulesOf(rows'[q].table)
      /\ \A q \in Rows : rows[q].table \in {None, rows'[q].table}
  <2>1. CASE rows' = [rows EXCEPT ![r] = row]
    BY <2>1, OneRowWritten
  <2>2. CASE rows' = rows
    BY <2>2 DEF TypeOK
  <2> QED BY <2>1, <2>2 DEF Store
<1>2. /\ write' \in [Writes -> Write]
      /\ \A v \in Writes : /\ write'[v].kind = write[v].kind
                           /\ write'[v].row = write[v].row
                           /\ write'[v].table = write[v].table
                           /\ write'[v].after = write[v].after
                           /\ write'[v].pc # "idle" => write[v].pc # "idle"
  BY DEF TypeOK, Store, Write
<1>3. \A v \in Writes : write'[v].pc # "idle" =>
        /\ write'[v].table \in Tables
        /\ write'[v].after \subseteq RulesOf(write'[v].table)
        /\ write'[v].kind = "update" => /\ write'[v].row \in Rows
                                        /\ rows'[write'[v].row].table = write'[v].table
  <2> TAKE v \in Writes
  <2>2. HAVE write'[v].pc # "idle"
  <2>3. /\ write[v].table \in Tables
        /\ write[v].after \subseteq RulesOf(write[v].table)
        /\ write[v].kind = "update" => /\ write[v].row \in Rows
                                       /\ rows[write[v].row].table = write[v].table
    BY <1>2, <2>2 DEF TypeOK
  <2>4. /\ write'[v].kind = write[v].kind
        /\ write'[v].row = write[v].row
        /\ write'[v].table = write[v].table
        /\ write'[v].after = write[v].after
    BY <1>2
  <2>5. write[v].table # None
    BY <2>3, SchemaAssumption
  <2> QED BY <1>1, <2>3, <2>4, <2>5
<1>4. UNCHANGED chainVars
  BY DEF Store
<1> QED BY <1>1, <1>2, <1>3, <1>4 DEF TypeOK, chainVars, RulesOf

\* Every action keeps the types.
LEMMA TypesKept ==
  ASSUME TypeOK, [Next]_vars
  PROVE  TypeOK'
<1> USE SchemaAssumption
<1>1. CASE ServiceWrite
  <2>1. PICK r \in Rows, row \in Row : FitsTable(r, row) /\ rows' = [rows EXCEPT ![r] = row]
    <3>1. ASSUME NEW r \in Rows, NEW t \in Tables, NEW k \in NewKeys(t),
                 NEW breaks \in SUBSET RulesOf(t), ServiceInsert(r, t, k, breaks)
          PROVE  FitsTable(r, Fresh(t, k, breaks))
      BY <3>1 DEF ServiceInsert, FitsTable, Fresh, NewKeys, NoRow, Row, RulesOf
    <3>2. ASSUME NEW r \in Rows, NEW c \in Rules, NEW after \in {rows[r].breaks \cup {c},
                 rows[r].breaks \ {c}}, rows[r].table = RuleTable[c]
          PROVE  FitsTable(r, [rows[r] EXCEPT !.breaks = after])
      BY <3>2 DEF TypeOK, FitsTable, Row, RulesOf
    <3>3. ASSUME NEW r \in Rows, NEW c \in Rules, NEW breaks \in BOOLEAN,
                 ServiceUpdate(r, c, breaks)
          PROVE  \E after \in {rows[r].breaks \cup {c}, rows[r].breaks \ {c}} :
                   /\ rows[r].table = RuleTable[c]
                   /\ rows' = [rows EXCEPT ![r] = [rows[r] EXCEPT !.breaks = after]]
      BY <3>3 DEF ServiceUpdate, TypeOK, Row
    <3>4. CASE \E r \in Rows, t \in Tables : \E k \in NewKeys(t), breaks \in SUBSET RulesOf(t) :
                 ServiceInsert(r, t, k, breaks)
      <4>1. PICK r \in Rows, t \in Tables : \E k \in NewKeys(t), breaks \in SUBSET RulesOf(t) :
              ServiceInsert(r, t, k, breaks)
        BY <3>4
      <4>2. PICK k \in NewKeys(t), breaks \in SUBSET RulesOf(t) : ServiceInsert(r, t, k, breaks)
        BY <4>1
      <4>3. FitsTable(r, Fresh(t, k, breaks))
        BY <3>1, <4>2
      <4>4. Fresh(t, k, breaks) \in Row
        BY <4>3 DEF FitsTable
      <4>5. rows' = [rows EXCEPT ![r] = Fresh(t, k, breaks)]
        BY <4>2 DEF ServiceInsert
      <4> QED BY <4>3, <4>4, <4>5
    <3>5. CASE \E r \in Rows, c \in Rules, breaks \in BOOLEAN : ServiceUpdate(r, c, breaks)
      <4>1. PICK r \in Rows, c \in Rules, breaks \in BOOLEAN : ServiceUpdate(r, c, breaks)
        BY <3>5
      <4>2. PICK after \in {rows[r].breaks \cup {c}, rows[r].breaks \ {c}} :
              /\ rows[r].table = RuleTable[c]
              /\ rows' = [rows EXCEPT ![r] = [rows[r] EXCEPT !.breaks = after]]
        BY <3>3, <4>1
      <4> DEFINE row == [rows[r] EXCEPT !.breaks = after]
      <4>3. FitsTable(r, row) /\ rows' = [rows EXCEPT ![r] = row]
        BY <3>2, <4>2
      <4>4. row \in Row
        BY <4>3 DEF FitsTable
      <4> HIDE DEF row
      <4> QED BY <4>3, <4>4
    <3> QED BY <1>1, <3>4, <3>5 DEF ServiceWrite
  <2>2. UNCHANGED <<chainVars, write>>
    BY <1>1 DEF ServiceWrite, ServiceInsert, ServiceUpdate
  <2>3. /\ rows' \in [Rows -> Row]
        /\ \A q \in Rows : rows'[q].breaks \subseteq RulesOf(rows'[q].table)
        /\ \A q \in Rows : rows[q].table \in {None, rows'[q].table}
    BY <2>1, OneRowWritten
  <2> QED BY <2>2, <2>3 DEF TypeOK, chainVars, RulesOf
<1>2. CASE \E t \in Tables : Decorate(t)
  BY <1>2 DEF TypeOK, Decorate, RowsOf, RulesOf, Row
<1>3. ASSUME NEW w \in Writes, CrudStep(w) PROVE TypeOK'
  <2>1. ASSUME NEW t \in Tables, NEW after \in SUBSET RulesOf(t), SubmitCreate(w, t, after)
        PROVE  TypeOK'
    BY <2>1 DEF TypeOK, SubmitCreate, Submit, RulesOf, Write, chainVars
  <2>2. ASSUME NEW r \in Rows, NEW changed \in SUBSET Rules, NEW broken \in SUBSET Rules,
               SubmitUpdate(w, r, changed, broken)
        PROVE  TypeOK'
    <3> DEFINE t == rows[r].table
               after == (rows[r].breaks \ changed) \cup broken
    <3>1. /\ Submit(w, "update", r, t, changed, after, RulesHold("update", t, changed, after))
          /\ t \in Tables /\ after \subseteq RulesOf(t)
      BY <2>2 DEF SubmitUpdate, Stored, TypeOK, Row, RulesOf
    <3> HIDE DEF after
    <3> QED BY <3>1 DEF TypeOK, Submit, RulesOf, Write, Row, chainVars
  <2>3. ASSUME NEW r \in Rows, NEW k \in [company : BOOLEAN, org : BOOLEAN],
               StoreCreate(w, r, k)
        PROVE  TypeOK'
    <3> DEFINE row == Fresh(write[w].table, k, write[w].after)
    <3>1. FitsTable(r, row)
      BY <2>3 DEF TypeOK, StoreCreate, Store, FitsTable, Fresh, NoRow, Row, Write
    <3>2. Store(w, r, row)
      BY <2>3 DEF StoreCreate
    <3> HIDE DEF row
    <3> QED BY <3>1, <3>2, StoreKeepsTypes
  <2>4. CASE StoreUpdate(w)
    <3> DEFINE r   == write[w].row
               row == [rows[r] EXCEPT !.breaks = write[w].after]
    <3>1. r \in Rows /\ FitsTable(r, row)
      BY <2>4 DEF TypeOK, StoreUpdate, Store, FitsTable, Row, Write
    <3>2. Store(w, r, row)
      BY <2>4 DEF StoreUpdate
    <3> HIDE DEF r, row
    <3> QED BY <3>1, <3>2, StoreKeepsTypes
  <2> QED BY <1>3, <2>1, <2>2, <2>3, <2>4 DEF CrudStep
<1>4. CASE UpgradeStep
  <2>1. CASE BeginUpgrade
    BY <2>1 DEF TypeOK, BeginUpgrade, HasCompany, Write
  <2>2. CASE \E t \in Tables : CountRows(t)
    BY <2>2 DEF TypeOK, CountRows
  <2>3. CASE RefuseStrip
    BY <2>3 DEF TypeOK, RefuseStrip
  <2>4. CASE StripTenancy
    <3>1. \A r \in Rows : /\ rows'[r] \in Row
                          /\ rows'[r].table = rows[r].table
                          /\ rows'[r].breaks = rows[r].breaks
      <4> TAKE r \in Rows
      <4>1. rows[r] \in Row /\ rows'[r] = [rows[r] EXCEPT !.company = FALSE]
        BY <2>4 DEF TypeOK, StripTenancy
      <4> QED BY <4>1 DEF Row
    <3>2. rows' \in [Rows -> Row]
      BY <2>4, <3>1 DEF StripTenancy
    <3>3. \A r \in Rows : rows'[r].breaks \subseteq RulesOf(rows'[r].table)
      BY <3>1 DEF TypeOK
    <3>4. \A w \in Writes : write'[w].pc # "idle" =>
            /\ write'[w].table \in Tables
            /\ write'[w].after \subseteq RulesOf(write'[w].table)
            /\ write'[w].kind = "update" => /\ write'[w].row \in Rows
                                            /\ rows'[write'[w].row].table = write'[w].table
      BY <2>4, <3>1 DEF TypeOK, StripTenancy
    <3>5. UNCHANGED <<bypassesRls, orgColumn, checks, counted, offenders, tested, added, write>>
      BY <2>4 DEF StripTenancy
    <3>6. applied' = "strip_tenancy" /\ pc' = "declared_checks"
      BY <2>4 DEF StripTenancy
    <3> QED BY <3>2, <3>3, <3>4, <3>5, <3>6 DEF TypeOK
  <2>5. CASE TestRule
    BY <2>5 DEF TypeOK, TestRule, SkipCheck, AddCheck
  <2>6. CASE CommitChecks
    BY <2>6 DEF TypeOK, CommitChecks
  <2> QED BY <1>4, <2>1, <2>2, <2>3, <2>4, <2>5, <2>6 DEF UpgradeStep
<1>5. CASE StopBetweenFiles
  BY <1>5 DEF TypeOK, StopBetweenFiles
<1>6. CASE UNCHANGED vars
  BY <1>6 DEF TypeOK, vars, chainVars
<1> QED BY <1>1, <1>2, <1>3, <1>4, <1>5, <1>6 DEF Next, Quiescent

-----------------------------------------------------------------------------
LEMMA UpgradeInvInitially == ASSUME Init PROVE UpgradeInv
BY SchemaAssumption DEF Init, UpgradeInv, TypeOK, GuardKnows, TestsKnow, ChecksHold,
   AcceptedFit, AcceptedWritesFit, Row, NoRow, Write, Idle, RulesOf

\* What the service and the decorator write meets the CHECKs.
LEMMA ServiceKeepsInv ==
  ASSUME UpgradeInv, TypeOK', ServiceWrite \/ \E t \in Tables : Decorate(t)
  PROVE  UpgradeInv'
<1>1. Serving /\ UNCHANGED <<pc, checks, write>>
  BY DEF ServiceWrite, ServiceInsert, ServiceUpdate, Decorate, chainVars
<1>2. ChecksHold'
  <2>1. ASSUME NEW r \in Rows, NEW t \in Tables, NEW k \in NewKeys(t),
               NEW breaks \in SUBSET RulesOf(t), ServiceInsert(r, t, k, breaks)
        PROVE  ChecksHold'
    BY <2>1, <1>1 DEF ServiceInsert, Fresh, UpgradeInv, ChecksHold, TypeOK
  <2>2. ASSUME NEW r \in Rows, NEW c \in Rules, NEW breaks \in BOOLEAN,
               ServiceUpdate(r, c, breaks)
        PROVE  ChecksHold'
    BY <2>2, <1>1 DEF ServiceUpdate, UpgradeInv, ChecksHold, TypeOK, Row
  <2>3. ASSUME NEW t \in Tables, Decorate(t) PROVE ChecksHold'
    <3> SUFFICES ASSUME NEW r \in Rows PROVE rows'[r].breaks = rows[r].breaks
      BY <1>1 DEF UpgradeInv, ChecksHold
    <3>1. rows[r] \in Row
      BY DEF UpgradeInv, TypeOK
    <3> QED BY <2>3, <3>1 DEF Decorate, Row
  <2> QED BY <2>1, <2>2, <2>3 DEF ServiceWrite
<1> QED BY <1>1, <1>2 DEF UpgradeInv, GuardKnows, TestsKnow, AcceptedFit, AcceptedWritesFit,
                        Serving

\* What the rules accept fits the CHECKs: the columns a create or an update is checked on
\* break no rule, the others are those of a stored row, which ChecksHold covers.
LEMMA SubmitKeepsInv ==
  ASSUME UpgradeInv, TypeOK', NEW w \in Writes, NEW kind \in {"create", "update"},
         NEW r, NEW t \in Tables, NEW changed \in SUBSET RulesOf(t),
         NEW after \in SUBSET RulesOf(t),
         Submit(w, kind, r, t, changed, after, RulesHold(kind, t, changed, after)),
         kind = "update" => (after \ changed) \cap checks = {}
  PROVE  UpgradeInv'
<1>1. Serving /\ UNCHANGED <<pc, checks, rows>>
  BY DEF Submit, chainVars
<1>2. /\ write' \in [Writes -> Write]
      /\ \A v \in Writes \ {w} : write'[v] = write[v]
      /\ write'[w].pc = IF RulesHold(kind, t, changed, after) THEN "accepted" ELSE "refused"
      /\ write'[w].after = after
  BY DEF Submit, UpgradeInv, TypeOK
<1>3. RulesHold(kind, t, changed, after) => after \cap checks = {}
  BY DEF RulesHold, Ruled
<1>4. AcceptedFit' /\ AcceptedWritesFit'
  BY <1>1, <1>2, <1>3 DEF UpgradeInv, AcceptedFit, AcceptedWritesFit, Serving
<1> QED BY <1>1, <1>4 DEF UpgradeInv, GuardKnows, TestsKnow, ChecksHold, Serving

\* An accepted row is stored as it is.
LEMMA StoreKeepsInv ==
  ASSUME UpgradeInv, TypeOK', NEW w \in Writes, NEW r \in Rows, NEW row,
         row.breaks = write[w].after, Store(w, r, row)
  PROVE  UpgradeInv'
<1>1. Serving /\ UNCHANGED <<pc, checks>> /\ write[w].after \cap checks = {}
  BY DEF Store, chainVars, UpgradeInv, AcceptedFit
<1>2. rows' = [rows EXCEPT ![r] = row] /\ write' = [write EXCEPT ![w].pc = "stored"]
  BY <1>1 DEF Store
<1>3. ChecksHold'
  BY <1>1, <1>2 DEF UpgradeInv, ChecksHold, TypeOK
<1>4. AcceptedFit' /\ AcceptedWritesFit'
  BY <1>1, <1>2 DEF UpgradeInv, AcceptedFit, AcceptedWritesFit, TypeOK, Serving, Write
<1> QED BY <1>1, <1>3, <1>4 DEF UpgradeInv, GuardKnows, TestsKnow, Serving

\* The chain: each file acts on what it has found out, the rows having stayed as they were.
LEMMA ChainKeepsInv ==
  ASSUME UpgradeInv, TypeOK', UpgradeStep \/ StopBetweenFiles
  PROVE  UpgradeInv'
<1> USE DEF UpgradeInv
<1>1. CASE BeginUpgrade
  <2>1. \A w \in Writes : write'[w].pc \notin {"accepted", "check_violation"}
    BY <1>1 DEF BeginUpgrade, AcceptedWritesFit, TypeOK, Write
  <2>2. ChecksHold' /\ GuardKnows' /\ TestsKnow'
    BY <1>1 DEF BeginUpgrade, ChecksHold, GuardKnows, TestsKnow, HasCompany
  <2> QED BY <2>1, <2>2 DEF AcceptedFit, AcceptedWritesFit
<1>2. ASSUME NEW t \in Tables, CountRows(t) PROVE UpgradeInv'
  <2>1. UNCHANGED <<rows, orgColumn, applied, checks, pc, added, write>>
    BY <1>2 DEF CountRows
  <2>2. \A u \in (counted \ offenders)' : SafeToStrip(u)
    BY <1>2 DEF CountRows, GuardKnows
  <2>3. GuardKnows'
    BY <1>2, <2>1, <2>2 DEF GuardKnows, CountRows, SafeToStrip, Covered, Seen, RowsOf
  <2> QED BY <2>1, <2>3 DEF TestsKnow, ChecksHold, AcceptedFit, AcceptedWritesFit, Serving
<1>3. CASE RefuseStrip \/ StopBetweenFiles
  BY <1>3 DEF RefuseStrip, StopBetweenFiles, GuardKnows, TestsKnow, ChecksHold, AcceptedFit,
              AcceptedWritesFit, Serving
<1>4. CASE StripTenancy
  <2>1. \A r \in Rows : rows'[r].breaks = rows[r].breaks
    <3> TAKE r \in Rows
    <3>1. rows[r] \in Row /\ rows'[r] = [rows[r] EXCEPT !.company = FALSE]
      BY <1>4 DEF TypeOK, StripTenancy
    <3> QED BY <3>1 DEF Row
  <2>2. TestsKnow'
    BY <1>4 DEF StripTenancy, GuardKnows, TestsKnow
  <2> QED BY <1>4, <2>1, <2>2 DEF StripTenancy, GuardKnows, ChecksHold, AcceptedFit,
                                 AcceptedWritesFit, Serving
<1>5. ASSUME NEW c \in Rules, SkipCheck(c) \/ AddCheck(c) PROVE UpgradeInv'
  <2>1. TestsKnow'
    BY <1>5 DEF SkipCheck, AddCheck, TestsKnow
  <2> QED BY <1>5, <2>1 DEF SkipCheck, AddCheck, GuardKnows, ChecksHold, AcceptedFit,
                            AcceptedWritesFit, Serving
<1>6. CASE CommitChecks
  BY <1>6 DEF CommitChecks, GuardKnows, TestsKnow, ChecksHold, AcceptedFit,
              AcceptedWritesFit, Serving
<1> QED BY <1>1, <1>2, <1>3, <1>4, <1>5, <1>6 DEF UpgradeStep, TestRule

\* UpgradeInv is inductive.
LEMMA UpgradeInvKept == ASSUME UpgradeInv, [Next]_vars PROVE UpgradeInv'
<1>1. TypeOK'
  BY TypesKept DEF UpgradeInv
<1>2. CASE ServiceWrite \/ \E t \in Tables : Decorate(t)
  BY <1>1, <1>2, ServiceKeepsInv
<1>3. ASSUME NEW w \in Writes, CrudStep(w) PROVE UpgradeInv'
  <2>1. ASSUME NEW t \in Tables, NEW after \in SUBSET RulesOf(t), SubmitCreate(w, t, after)
        PROVE  UpgradeInv'
    BY <1>1, <2>1, SubmitKeepsInv DEF SubmitCreate
  <2>2. ASSUME NEW r \in Rows, NEW changed \in SUBSET Rules, NEW broken \in SUBSET Rules,
               SubmitUpdate(w, r, changed, broken)
        PROVE  UpgradeInv'
    <3> DEFINE t == rows[r].table
               after == (rows[r].breaks \ changed) \cup broken
    <3>1. /\ Submit(w, "update", r, t, changed, after, RulesHold("update", t, changed, after))
          /\ t \in Tables
          /\ changed \in SUBSET RulesOf(t) /\ after \in SUBSET RulesOf(t)
      BY <2>2 DEF SubmitUpdate, Stored, UpgradeInv, TypeOK, Row
    <3>2. (after \ changed) \cap checks = {}
      BY <2>2 DEF SubmitUpdate, UpgradeInv, ChecksHold
    <3> HIDE DEF t, after
    <3> QED BY <1>1, <3>1, <3>2, SubmitKeepsInv
  <2>3. ASSUME NEW r \in Rows, NEW k \in [company : BOOLEAN, org : BOOLEAN],
               StoreCreate(w, r, k)
        PROVE  UpgradeInv'
    <3> DEFINE row == Fresh(write[w].table, k, write[w].after)
    <3>1. row.breaks = write[w].after /\ Store(w, r, row)
      BY <2>3 DEF StoreCreate, Fresh
    <3> HIDE DEF row
    <3> QED BY <1>1, <3>1, StoreKeepsInv
  <2>4. CASE StoreUpdate(w)
    <3> DEFINE r   == write[w].row
               row == [rows[r] EXCEPT !.breaks = write[w].after]
    <3>1. r \in Rows /\ Store(w, r, row)
      BY <2>4 DEF StoreUpdate, Store, UpgradeInv, TypeOK
    <3>2. row.breaks = write[w].after
      BY <3>1 DEF UpgradeInv, TypeOK, Row
    <3> HIDE DEF r, row
    <3> QED BY <1>1, <3>1, <3>2, StoreKeepsInv
  <2> QED BY <1>3, <2>1, <2>2, <2>3, <2>4 DEF CrudStep
<1>4. CASE UpgradeStep \/ StopBetweenFiles
  BY <1>1, <1>4, ChainKeepsInv
<1>5. CASE UNCHANGED vars
  BY <1>1, <1>5 DEF vars, chainVars, UpgradeInv, GuardKnows, TestsKnow, ChecksHold,
     AcceptedFit, AcceptedWritesFit, Serving, SafeToStrip, Covered, Seen, RowsOf
<1> QED BY <1>2, <1>3, <1>4, <1>5 DEF Next, Quiescent

-----------------------------------------------------------------------------
\* Whatever the rows and the rules, the chain and the service keep UpgradeInv.
THEOREM UpgradeInvHolds == Spec => []UpgradeInv
<1>1. Init => UpgradeInv
  BY UpgradeInvInitially
<1>2. UpgradeInv /\ [Next]_vars => UpgradeInv'
  BY UpgradeInvKept
<1> QED BY <1>1, <1>2, PTL DEF Spec

\* A row keeps its table, and rows and requests fit the rules of theirs.
THEOREM UpgradeTypeCorrect == Spec => []TypeOK
<1>1. UpgradeInv => TypeOK
  BY DEF UpgradeInv
<1> QED BY <1>1, UpgradeInvHolds, PTL

\* What MessageRowRules and ThreadRowRules let pass never breaks a CHECK, whichever
\* constraints add_declared_checks could add, and whoever ran it.
THEOREM AcceptedWritesAlwaysFit == Spec => []AcceptedWritesFit
<1>1. UpgradeInv => AcceptedWritesFit
  BY DEF UpgradeInv
<1> QED BY <1>1, UpgradeInvHolds, PTL

\* strip_tenancy takes no row's only tenancy key where the role it runs as is exempt
\* from row security: its guard has seen every row, and none has changed since.
THEOREM StripKeepsTenancy == Spec => TenancyKept
<1>1. ASSUME UpgradeInv, [Next]_vars, bypassesRls, NEW r \in Rows, Stored(r), Keyed(r)
      PROVE  Stored(r)' /\ Keyed(r)'
  <2> USE <1>1
  <2>1. rows[r] \in Row /\ rows[r].table \in Tables
    BY DEF UpgradeInv, TypeOK, Row, Stored
  <2>2. CASE UNCHANGED rows
    BY <2>2 DEF Stored, Keyed
  <2>3. CASE ServiceWrite
    BY <2>1, <2>3 DEF ServiceWrite, ServiceInsert, ServiceUpdate, Stored, Keyed, NoRow, Row,
                      UpgradeInv, TypeOK
  <2>4. ASSUME NEW t \in Tables, Decorate(t) PROVE Stored(r)' /\ Keyed(r)'
    BY <2>1, <2>4 DEF Decorate, Stored, Keyed, Row
  <2>5. ASSUME NEW w \in Writes, CrudStep(w) PROVE Stored(r)' /\ Keyed(r)'
    <3>1. CASE \E q \in Rows, k \in [company : BOOLEAN, org : BOOLEAN] : StoreCreate(w, q, k)
      BY <2>1, <3>1, SchemaAssumption
         DEF StoreCreate, Store, Stored, Keyed, NoRow, UpgradeInv, TypeOK
    <3>2. CASE StoreUpdate(w)
      <4>1. rows' = rows \/ rows' = [rows EXCEPT ![write[w].row].breaks = write[w].after]
        BY <3>2 DEF StoreUpdate, Store
      <4> QED BY <2>1, <4>1 DEF Stored, Keyed, Row, UpgradeInv, TypeOK
    <3> QED BY <2>2, <2>5, <3>1, <3>2 DEF CrudStep, SubmitCreate, SubmitUpdate, Submit
  <2>6. CASE StripTenancy
    <3>1. SafeToStrip(rows[r].table)
      BY <2>1, <2>6 DEF StripTenancy, UpgradeInv, GuardKnows
    <3>2. r \in Seen(rows[r].table)
      BY DEF Seen, RowsOf
    <3>3. rows[r].org
      BY <3>1, <3>2 DEF SafeToStrip, Covered
    <3> QED BY <2>1, <2>6, <3>3 DEF StripTenancy, Stored, Keyed, Row
  <2> QED BY <2>2, <2>3, <2>4, <2>5, <2>6 DEF Next, UpgradeStep, BeginUpgrade, CountRows,
             RefuseStrip, TestRule, SkipCheck, AddCheck, CommitChecks, StopBetweenFiles,
             Quiescent, vars
<1>2. UpgradeInv /\ [Next]_vars =>
        [bypassesRls =>
           \A r \in Rows : Stored(r) /\ Keyed(r) => Stored(r)' /\ Keyed(r)']_vars
  BY <1>1
<1> QED BY <1>2, UpgradeInvHolds, PTL DEF Spec, TenancyKept

-----------------------------------------------------------------------------
\* strip_tenancy: each offender its guard has counted is one, still.
OffendersKnown == pc = "strip_tenancy" => \A t \in offenders : ~SafeToStrip(t)

LEMMA OffendersKept ==
  ASSUME UpgradeInv, OffendersKnown, [Next]_vars
  PROVE  OffendersKnown'
<1>1. CASE Serving /\ pc' = pc
  BY <1>1 DEF OffendersKnown, Serving
<1>2. CASE BeginUpgrade \/ RefuseStrip \/ StripTenancy \/ StopBetweenFiles \/ CommitChecks
  BY <1>2 DEF BeginUpgrade, RefuseStrip, StripTenancy, StopBetweenFiles, CommitChecks,
              OffendersKnown
<1>3. ASSUME NEW t \in Tables, CountRows(t) PROVE OffendersKnown'
  BY <1>3 DEF CountRows, OffendersKnown, SafeToStrip, Covered, Seen, RowsOf
<1>4. CASE TestRule
  BY <1>4 DEF TestRule, SkipCheck, AddCheck, OffendersKnown
<1>5. CASE UNCHANGED vars
  BY <1>5 DEF vars, chainVars, OffendersKnown, SafeToStrip, Covered, Seen, RowsOf
<1>6. CASE ServiceWrite \/ \E t \in Tables : Decorate(t)
  BY <1>1, <1>6 DEF ServiceWrite, ServiceInsert, ServiceUpdate, Decorate, chainVars, Serving
<1>7. ASSUME NEW w \in Writes, CrudStep(w) PROVE OffendersKnown'
  BY <1>1, <1>7 DEF CrudStep, SubmitCreate, SubmitUpdate, Submit, StoreCreate, StoreUpdate,
                    Store, chainVars, Serving
<1> QED BY <1>2, <1>3, <1>4, <1>5, <1>6, <1>7 DEF Next, UpgradeStep, Quiescent

\* Table t has rows, and not all of them a tenancy key that stays.
Uncovered(t) == RowsOf(t) # {} /\ (t \in orgColumn => \E r \in RowsOf(t) : ~rows[r].org)

\* What may stop the chain: the guard refuses for a table the decorator has not covered
\* and for nothing else; and where the chain sees the rows, no constraint it adds fails.
StoppedForAReason ==
  [][/\ RefuseStrip => \E t \in Tables : Uncovered(t)
     /\ bypassesRls => \A c \in Rules : AddCheck(c) => pc' = pc /\ c \in added']_vars

\* Old rows never block the chain: once both tables are covered nothing stops one that
\* sees the rows but its operator, whatever the rows have come to break before the rules
\* were declared.
THEOREM RowsNeverBlockTheChain == Spec => StoppedForAReason
<1>1. ASSUME UpgradeInv, OffendersKnown, RefuseStrip
      PROVE  \E t \in Tables : Uncovered(t)
  <2>1. PICK t \in offenders : t \in Tables /\ ~SafeToStrip(t)
    BY <1>1 DEF RefuseStrip, OffendersKnown, UpgradeInv, TypeOK
  <2>2. Seen(t) = RowsOf(t)
    BY <2>1 DEF SafeToStrip, Seen
  <2> QED BY <2>1, <2>2 DEF SafeToStrip, Covered, Uncovered
<1>2. ASSUME UpgradeInv, bypassesRls, NEW c \in Rules, AddCheck(c)
      PROVE  pc' = pc /\ c \in added'
  <2>1. \A r \in Rows : c \in rows[r].breaks => r \in Seen(RuleTable[c])
    BY <1>2 DEF UpgradeInv, TypeOK, RulesOf, Seen, RowsOf
  <2>2. ~ \E r \in Rows : c \in rows[r].breaks
    BY <1>2, <2>1 DEF AddCheck, SeenBroken
  <2> QED BY <1>2, <2>2 DEF AddCheck
<1>3. UpgradeInv /\ OffendersKnown /\ [Next]_vars
      => [/\ RefuseStrip => \E t \in Tables : Uncovered(t)
          /\ bypassesRls => \A c \in Rules : AddCheck(c) => pc' = pc /\ c \in added']_vars
  BY <1>1, <1>2
<1>4. Init => OffendersKnown
  BY DEF Init, OffendersKnown
<1>5. UpgradeInv /\ OffendersKnown /\ [Next]_vars => OffendersKnown'
  BY OffendersKept
<1> QED BY <1>3, <1>4, <1>5, UpgradeInvHolds, PTL DEF Spec, StoppedForAReason
=============================================================================
