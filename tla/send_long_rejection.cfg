\* A provider rejects with a message longer than failure_reason holds.
SPECIFICATION OutSpec
CONSTANTS
  s1 = s1
  s2 = s2
  r1 = r1
  r2 = r2
  o1 = o1
  o2 = o2
  ch1 = ch1
  x1 = x1
  x2 = x2
  p1 = p1
  st1 = st1
  sid1 = sid1
  None = None
  Inbound = {}
  Sends = {s1, s2}
  Receipts = {r1, r2}
  Opens = {o1}
  Channels = {ch1}
  ExternalIds = {x1, x2}
  Parties = {}
  Handles = {}
  SubjectTypes = {}
  SubjectIds = {}
  Units = {}
  Companies = {}
  Fenced = FALSE
  AckIds = {x1, x2}
  SendArgs <- OneThread
INVARIANTS
  RejectionIsRecorded
