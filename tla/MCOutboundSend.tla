--------------------------- MODULE MCOutboundSend ---------------------------
(***************************************************************************)
(* Small instances of OutboundSend: the sends each run makes.                *)
(***************************************************************************)
EXTENDS OutboundSend

CONSTANTS s1, s2, r1, r2, o1, o2, ch1, x1, x2, p1, st1, sid1

Text(t) == [thread_id |-> t, body |-> "text", scope |-> None]

\* Messages to one thread.
OneThread == {Text(o1)}

\* Messages to it, and what the service or the database must refuse.
ThreadSends ==
  {Text(o1), [Text(o1) EXCEPT !.body = "empty"], [Text(o1) EXCEPT !.body = "unstorable"]}
=============================================================================
