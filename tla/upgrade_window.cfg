\* Two rows of any history, upgraded by a role that row security binds or does not.
SPECIFICATION LiveSpec
CONSTANTS
  messages = messages
  threads = threads
  external_id = external_id
  subject_type = subject_type
  a = a
  b = b
  w1 = w1
  None = None
  Rows = {a, b}
  Tables = {messages, threads}
  Rules = {external_id, subject_type}
  RuleTable <- OneRuleEach
  Writes = {w1}
INVARIANTS
  AcceptedWritesFit
PROPERTIES
  TenancyKept
  UpgradeCompletes
