\* Two messages of one or two conversations, over the relay or in process.
SPECIFICATION RelaySpec
CONSTANTS
  m1 = m1
  m2 = m2
  wa_conv = wa_conv
  mail_conv = mail_conv
  support = support
  Messages = {m1, m2}
  Conversations = {wa_conv, mail_conv}
  Consumers = {support}
  Wirings <- MCWirings
  MaxEffects = 2
  None = None
INVARIANTS
  HandledAtMostOnce
  HandledOnlyIfRecorded
  FollowUpsAppend
PROPERTIES
  RecordedIsHandled
CHECK_DEADLOCK FALSE
