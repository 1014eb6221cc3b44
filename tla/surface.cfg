SPECIFICATION Spec
CONSTANTS
  t1 = t1
  t2 = t2
  m1 = m1
  m2 = m2
  k1 = k1
  Threads = {t1, t2}
  Messages = {m1, m2}
  Keys = {k1}
  Mounts <- MCMounts
  Bodies <- MCBodies
  None = None
INVARIANTS
  NoDanglingMessage
  OneRowPerKey
  InboundIffAnnounced
  EventsStayReadable
PROPERTIES
  LifecyclesAdvance
SYMMETRY IdSymmetry
CHECK_DEADLOCK FALSE
