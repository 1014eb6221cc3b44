--------------------------- MODULE MCEventRouting ---------------------------
(***************************************************************************)
(* EventRouting on two messages of one or of two conversations.              *)
(***************************************************************************)
EXTENDS EventRouting

CONSTANTS m1, m2, wa_conv, mail_conv, support

\* Consumers behind the relay, behind the sink, or behind both.
MCWirings == {{"relay"}, {"sink"}, {"relay", "sink"}}
=============================================================================
