\* Three inbound calls and a send on a pool that is short, under each setting.
SPECIFICATION Spec
CONSTANTS
  c1 = c1
  c2 = c2
  c3 = c3
  s1 = s1
  k1 = k1
  k2 = k2
  Receives = {c1, c2, c3}
  Sends = {s1}
  Keys = {k1, k2}
  Settings <- MCSettings
INVARIANTS
  TypeOK
  NoWaitWithTheKey
PROPERTIES
  EveryCallEnds
