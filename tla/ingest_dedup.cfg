\* Three deliveries of two provider messages, with a thread that may be closed,
\* linked or deleted between any two steps.
SPECIFICATION Spec
CONSTANTS
  c1 = c1
  c2 = c2
  c3 = c3
  o1 = o1
  ch1 = ch1
  x1 = x1
  x2 = x2
  p1 = p1
  h1 = h1
  st1 = st1
  sid1 = sid1
  sid2 = sid2
  u1 = u1
  u2 = u2
  u3 = u3
  None = None
  Inbound = {c1, c2, c3}
  Sends = {}
  Opens = {}
  Channels = {ch1}
  ExternalIds = {x1, x2}
  Parties = {p1}
  Handles = {h1}
  SubjectTypes = {st1}
  SubjectIds = {sid1}
  Units = {u1}
  Companies = {u1}
  Fenced = FALSE
  Webhooks <- TwoMessages
SYMMETRY CallSymmetry
INVARIANTS
  TypeOK
  OneMessagePerKey
  EventIffRecorded
  NoOrphanThread
  AnswersNameTheRecord
  PublishedIsDurable
PROPERTIES
  LifecycleSurvivesTouch
  ImplementsInbox
