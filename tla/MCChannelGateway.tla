-------------------------- MODULE MCChannelGateway --------------------------
(***************************************************************************)
(* A small instance of ChannelGateway: one party writing on the thread that  *)
(* is also written to.                                                       *)
(***************************************************************************)
EXTENDS ChannelGateway

CONSTANTS c1, c2, s1, r1, ch1, x1, x2, p1, u1

Plain(x) ==
  [channel |-> ch1, external_id |-> x, body |-> "text", party_id |-> p1,
   external_ref |-> None, subject_type |-> None, subject_id |-> None, scope |-> u1]

TwoMessages == {Plain(x1), Plain(x2)}

\* Back on the thread that the first delivery opens.
ToTheirThread == {[thread_id |-> c1, body |-> "text", scope |-> u1]}
=============================================================================
