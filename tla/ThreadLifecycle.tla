-------------------------- MODULE ThreadLifecycle --------------------------
(***************************************************************************)
(* The calls of CommunicationWriteService that are one autocommit statement *)
(* on a thread row: open_thread, link_thread, close_thread; and the soft    *)
(* delete of the generated CRUD surface, which the same rows are exposed to. *)
(* An UPDATE of a row another transaction has updated waits for that        *)
(* transaction to end, then re-evaluates its WHERE clause: it is enabled     *)
(* only while rowHolder is free.  A call whose WHERE matches no row returns  *)
(* NotFound / InvalidState and changes nothing, so it is no step at all; the *)
(* callers' scopes are left open, so a fence only narrows who may take one.   *)
(***************************************************************************)
EXTENDS CommStore

UpdateThread(t, row) ==
  /\ rowHolder[t] = None
  /\ threads' = [threads EXCEPT ![t] = row]
  /\ UNCHANGED <<messages, outbox, keyHolder, rowHolder, clock>>

\* What the fence's WITH CHECK lets a caller stamp; no fence, no unit column.
Stampable == IF Fenced THEN Units ELSE {None}

OpenThread(t, ch, p, ref, u) ==
  /\ threads[t].status = "absent"
  /\ UpdateThread(t, OpenedThread(ch, p, ref, None, None, u))

\* The WHERE clauses of set_subject and mark_closed: a soft-deleted thread is
\* not linked any more, but it is still closed.
Linkable(t) == threads[t].status # "absent" /\ ~threads[t].deleted
Closable(t) == threads[t].status = "open"

LinkThread(t, st, sid) ==
  /\ Linkable(t)
  /\ UpdateThread(t, [threads[t] EXCEPT !.subject_type = st, !.subject_id = sid])

CloseThread(t) ==
  /\ Closable(t)
  /\ UpdateThread(t, [threads[t] EXCEPT !.status = "closed"])

\* DELETE of the generated CRUD handler: stamps metadata.deleted_at.
SoftDeleteThread(t) ==
  /\ threads[t].status # "absent" /\ ~threads[t].deleted
  /\ UpdateThread(t, [threads[t] EXCEPT !.deleted = TRUE])

LifecycleStep ==
  \/ \E t \in Opens, ch \in Channels, p \in Optional(Parties), ref \in Optional(Handles),
        u \in Stampable : OpenThread(t, ch, p, ref, u)
  \/ \E t \in ThreadIds, st \in SubjectTypes, sid \in SubjectIds : LinkThread(t, st, sid)
  \/ \E t \in ThreadIds : CloseThread(t)
  \/ \E t \in ThreadIds : SoftDeleteThread(t)
=============================================================================
