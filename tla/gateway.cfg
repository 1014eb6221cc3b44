\* Two inbound calls, a send the provider may give the id of one of them, and a
\* receipt, over one unique index and one set of locks.
SPECIFICATION GatewayLiveSpec
CONSTANTS
  c1 = c1
  c2 = c2
  s1 = s1
  r1 = r1
  ch1 = ch1
  x1 = x1
  x2 = x2
  p1 = p1
  u1 = u1
  None = None
  Inbound = {c1, c2}
  Sends = {s1}
  Receipts = {r1}
  Opens = {}
  Channels = {ch1}
  ExternalIds = {x1, x2}
  Parties = {p1}
  Handles = {}
  SubjectTypes = {}
  SubjectIds = {}
  Units = {u1}
  Companies = {u1}
  Fenced = FALSE
  AckIds = {x2}
  SendArgs <- ToTheirThread
  Webhooks <- TwoMessages
INVARIANTS
  OneRowPerKey
  InboundStaysReceived
PROPERTIES
  EveryDirectionReturns
  ImplementsLedger
