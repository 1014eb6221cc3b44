--------------------------- MODULE MCCrudSurface ---------------------------
(***************************************************************************)
(* Small instances of CrudSurface.                                           *)
(***************************************************************************)
EXTENDS CrudSurface, TLC

CONSTANTS t1, t2, m1, m2, k1

Readonly == [surface |-> "readonly", grants |-> Actions]
Clerk    == [surface |-> "all", grants |-> {"read", "create", "delete", "restore"}]
Admin    == [surface |-> "all", grants |-> Actions]

\* Received and queued rows that have the key already, on either thread: a body that
\* creates one, takes a key, moves a message or sets its status back.
MCBodies ==
  {r \in Asked : /\ <<r.status, r.direction>> \in {<<"received", "inbound">>, <<"queued", "outbound">>}
                 /\ r.key = k1}

MCMounts == {Readonly, Clerk, Admin}

IdSymmetry == Permutations(Threads) \cup Permutations(Messages)
=============================================================================
