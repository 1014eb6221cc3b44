-------------------------- MODULE MCInboundIngest --------------------------
(***************************************************************************)
(* Small instances of InboundIngest: the webhooks each run delivers.         *)
(***************************************************************************)
EXTENDS InboundIngest, TLC

CONSTANTS c1, c2, c3, o1, ch1, x1, x2, p1, h1, st1, sid1, sid2, u1, u2, u3

\* A plain reply: a party, no conversation handle, no subject hint.
Plain(x, u) ==
  [channel |-> ch1, external_id |-> x, body |-> "text", party_id |-> p1,
   external_ref |-> None, subject_type |-> None, subject_id |-> None, scope |-> u]

\* The same, threaded by the provider and hinting at half a subject.
Threaded(x, u) ==
  [Plain(x, u) EXCEPT !.external_ref = h1, !.subject_type = st1]

\* Two provider messages, the first one also redelivered.
TwoMessages == {Plain(x1, u1), Threaded(x2, u1)}

\* Two units behind one fence whose providers use the same message id, a scope
\* without a company, no scope, and what the service or the database must refuse.
TwoUnits ==
  {Plain(x1, u1), Plain(x1, u2), Plain(x2, u2), Plain(x2, u3), Plain(x1, None),
   [Plain(x1, u1) EXCEPT !.external_id = None],
   [Plain(x1, u1) EXCEPT !.body = "empty"],
   [Plain(x1, u1) EXCEPT !.body = "unstorable"]}

\* A hint on the subject id of a thread whose opener hinted the type only.
Hinting == {Threaded(x1, u1), [Plain(x2, u1) EXCEPT !.subject_id = sid2]}

CallSymmetry == Permutations(Inbound)
=============================================================================
