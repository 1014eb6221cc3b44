--------------------------- MODULE MCRequestPool ---------------------------
(***************************************************************************)
(* RequestPool on three inbound calls, two of one key at least, and a send.  *)
(***************************************************************************)
EXTENDS RequestPool

CONSTANTS c1, c2, c3, s1, k1, k2

\* No request scope, and one connection in all; a request scope with a connection
\* to spare over the calls; a request scope with two connections, where a call that
\* waits too long fails.
MCSettings ==
  { [size |-> 1, scoped |-> FALSE, patient |-> TRUE],
    [size |-> 5, scoped |-> TRUE,  patient |-> TRUE],
    [size |-> 2, scoped |-> TRUE,  patient |-> FALSE] }
=============================================================================
