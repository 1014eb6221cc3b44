---------------------------- MODULE CrudSurface ----------------------------
(***************************************************************************)
(* The module as a composing service builds and mounts it: the write service *)
(* beside the generated routes of the two entities, and the query service    *)
(* that sibling modules read by.  A step is a committed statement or          *)
(* transaction; what happens inside those of the write service is told by     *)
(* InboundIngest, OutboundSend and ThreadLifecycle.  A generated update        *)
(* loads the row and writes it back whole in a later step, which is where it   *)
(* meets the write service.                                                  *)
(***************************************************************************)
CONSTANTS
  Threads, Messages,   \* row ids
  Keys,                \* (channel, external_id)
  Mounts,              \* the surfaces a composing service may mount, and for whom
  Bodies,              \* the message rows that request bodies ask for
  None

Actions == {"read", "create", "update", "delete", "restore", "purge"}
Statuses == {"received", "queued", "sent", "delivered", "failed"}
MessageRow == [status : Statuses \cup {"absent"}, direction : {"inbound", "outbound"},
               thread : Threads \cup {None}, key : Keys \cup {None}, deleted : BOOLEAN]

\* What a body can ask for: a thread is required, and nothing is created in the trash.
Asked == {r \in MessageRow : r.status # "absent" /\ r.thread # None /\ ~r.deleted}

ASSUME SurfaceAssumption ==
  /\ Mounts \subseteq [surface : {"readonly", "all"}, grants : SUBSET Actions]
  /\ Bodies \subseteq Asked
  /\ None \notin Threads \cup Messages \cup Keys
  /\ Threads \cap Messages = {}

VARIABLES
  mount,     \* which routes are mounted, and what their callers may do; it never changes
  module,    \* the builder before with_database, with it, and the module built
  threads, messages,
  outbox,    \* the staged MessageReceived events
  sending,   \* the messages whose send_outbound call waits for the provider
  edit       \* the row a generated update has loaded and not yet written back

rows  == <<threads, messages, outbox>>
setup == <<mount, module>>
vars  == <<setup, rows, sending, edit>>

Entities  == {"message", "thread"}
ThreadRow == [status : {"absent", "open", "closed"}, deleted : BOOLEAN]

NoThread  == [status |-> "absent", deleted |-> FALSE]
NoMessage == [status |-> "absent", direction |-> "inbound", thread |-> None,
              key |-> None, deleted |-> FALSE]
NoEdit    == [of |-> None, copy |-> NoThread]

TypeOK ==
  /\ mount    \in Mounts
  /\ module   \in {"builder", "with_database", "built"}
  /\ threads  \in [Threads -> ThreadRow]
  /\ messages \in [Messages -> MessageRow]
  /\ \A m \in Messages : messages[m].status # "absent" => messages[m].thread \in Threads
  /\ outbox   \subseteq [message : Messages, thread : Threads]
  /\ sending  \subseteq Messages
  /\ \/ edit = NoEdit
     \/ edit.of \in Threads /\ edit \in [of : Threads, copy : ThreadRow] /\ edit.copy.status # "absent"
     \/ edit.of \in Messages /\ edit \in [of : Messages, copy : MessageRow]

-----------------------------------------------------------------------------
(* Which routes are there, and whom they let through. *)

MessageReadRoutes == {"message"} \X {"read"}
ThreadReadRoutes  == {"thread"} \X {"read"}
MessageRoutes     == {"message"} \X Actions
ThreadRoutes      == {"thread"} \X Actions

\* Mutant: the read-only base carries the write routes of one entity.
ReadonlyRoutesAndThreads == MessageReadRoutes \cup ThreadRoutes
ReadonlyRoutesAndMessages == MessageRoutes \cup ThreadReadRoutes
ReadonlyRoutes == MessageReadRoutes \cup ThreadReadRoutes
AllCrudRoutes  == MessageRoutes \cup ThreadRoutes

Routed == IF mount.surface = "all" THEN AllCrudRoutes ELSE ReadonlyRoutes

\* Mutant: a route that asks for no permission.
Unguarded(entity, action) == module = "built" /\ <<entity, action>> \in Routed
Permitted(entity, action) ==
  /\ module = "built"
  /\ <<entity, action>> \in Routed
  /\ action \in mount.grants

\* with_database, and build, which refuses without a pool.
WithDatabase ==
  /\ module = "builder"
  /\ module' = "with_database"
  /\ UNCHANGED <<mount, rows, sending, edit>>

Build ==
  /\ module = "with_database"
  /\ module' = "built"
  /\ UNCHANGED <<mount, rows, sending, edit>>

-----------------------------------------------------------------------------
(* The rows, and what the schema holds of them whoever writes. *)

Stored(m)      == messages[m].status # "absent"
ThreadStored(t) == threads[t].status # "absent"
\* A v4 uuid: no row and no call has it.
Fresh(m)       == ~Stored(m) /\ m \notin sending
KeyRows(k)     == {m \in Messages : Stored(m) /\ messages[m].key = k}

\* The unique index on (channel, external_id): it has no WHERE, a row in the trash counts.
\* Mutant: an index over the live rows.
KeyFreeAmongLive(k, m) == k = None \/ \A n \in KeyRows(k) : n = m \/ messages[n].deleted
KeyFree(k, m)    == k = None \/ KeyRows(k) \subseteq {m}
\* The foreign key on thread_id, from either side (mutant: no foreign key to threads).
AnyThread(t)     == TRUE
Refers(t)        == \E m \in Messages : Stored(m) /\ messages[m].thread = t
Referable(t)     == t \in Threads /\ ThreadStored(t)
Fits(m, r)       == Referable(r.thread) /\ KeyFree(r.key, m)

\* The query service: what get_message and get_thread find, and message_exists and
\* thread_exists answer.  find_by_id does not see the trash.
MessageExists(m) == Stored(m) /\ ~messages[m].deleted
ThreadExists(t)  == ThreadStored(t) /\ ~threads[t].deleted

-----------------------------------------------------------------------------
(* The write service, one committed effect per step. *)

Routable(t) == threads[t].status = "open" /\ ~threads[t].deleted

Announce(m, t) == outbox' = outbox \cup {[message |-> m, thread |-> t]}

\* receive_inbound: onto an open thread of the party or onto a new one, with its event.
\* A row in the trash is a duplicate too: nothing happens.
Insert(m, t, k) ==
  /\ Fresh(m)
  /\ KeyRows(k) = {}
  /\ messages' = [messages EXCEPT ![m] = [status |-> "received", direction |-> "inbound",
                                          thread |-> t, key |-> k, deleted |-> FALSE]]
  /\ Announce(m, t)

ReceiveOnto(m, t, k) ==
  /\ Routable(t)
  /\ Insert(m, t, k)
  /\ UNCHANGED <<setup, threads, sending, edit>>

ReceiveOpening(m, t, k) ==
  /\ ~ThreadStored(t)
  /\ Insert(m, t, k)
  /\ threads' = [threads EXCEPT ![t] = [status |-> "open", deleted |-> FALSE]]
  /\ UNCHANGED <<setup, sending, edit>>

OpenThread(t) ==
  /\ ~ThreadStored(t)
  /\ threads' = [threads EXCEPT ![t] = [status |-> "open", deleted |-> FALSE]]
  /\ UNCHANGED <<setup, messages, outbox, sending, edit>>

\* mark_closed: a compare-and-set on open, whether the row is in the trash or not.
CloseThread(t) ==
  /\ threads[t].status = "open"
  /\ threads' = [threads EXCEPT ![t].status = "closed"]
  /\ UNCHANGED <<setup, messages, outbox, sending, edit>>

Queue(m, t) ==
  /\ Routable(t)
  /\ Fresh(m)
  /\ messages' = [messages EXCEPT ![m] = [status |-> "queued", direction |-> "outbound",
                                          thread |-> t, key |-> None, deleted |-> FALSE]]
  /\ sending' = sending \cup {m}
  /\ UNCHANGED <<setup, threads, outbox, edit>>

\* UPDATE .. SET status, external_id of one stored row, in the trash or not.
Stamp(m, status, k) ==
  /\ Stored(m)
  /\ messages' = [messages EXCEPT ![m].status = status, ![m].key = k]
  /\ UNCHANGED <<setup, threads, outbox, edit>>

\* The provider has answered: mark_sent and mark_failed go by the id alone, whatever has
\* become of the row; mark_delivered by the key and the status `sent`.
MarkSent(m, k) ==
  /\ m \in sending
  /\ KeyFree(k, m)
  /\ Stamp(m, "sent", k)
  /\ sending' = sending \ {m}

MarkFailed(m) ==
  /\ m \in sending
  /\ Stamp(m, "failed", messages[m].key)
  /\ sending' = sending \ {m}

MarkDelivered(m) ==
  /\ messages[m].status = "sent"
  /\ messages[m].key # None
  /\ Stamp(m, "delivered", messages[m].key)
  /\ UNCHANGED sending

-----------------------------------------------------------------------------
(* The generated routes. *)

CreateMessage(m, r) ==
  /\ Permitted("message", "create")
  /\ Fresh(m)
  /\ Fits(m, r)
  /\ messages' = [messages EXCEPT ![m] = r]
  /\ UNCHANGED <<setup, threads, outbox, sending, edit>>

CreateThread(t, status) ==
  /\ Permitted("thread", "create")
  /\ ~ThreadStored(t)
  /\ threads' = [threads EXCEPT ![t] = [status |-> status, deleted |-> FALSE]]
  /\ UNCHANGED <<setup, messages, outbox, sending, edit>>

\* PUT, PATCH and upsert: the row is loaded, changed and written back whole.  A request
\* changes one column here; one that changes more is one that meets more of the others.
OneChange(old, new) ==
  \E c \in {"status", "direction", "thread", "key"} : new = [old EXCEPT ![c] = new[c]]

LoadMessage(m, r) ==
  /\ Permitted("message", "update")
  /\ MessageExists(m)
  /\ edit = NoEdit
  /\ OneChange(messages[m], r)
  /\ edit' = [of |-> m, copy |-> r]
  /\ UNCHANGED <<setup, rows, sending>>

LoadThread(t, status) ==
  /\ Permitted("thread", "update")
  /\ ThreadExists(t)
  /\ edit = NoEdit
  /\ edit' = [of |-> t, copy |-> [status |-> status, deleted |-> FALSE]]
  /\ UNCHANGED <<setup, rows, sending>>

SaveMessage(m) ==
  /\ edit.of = m
  /\ messages' = IF Stored(m) /\ Fits(m, edit.copy)
                 THEN [messages EXCEPT ![m] = edit.copy] ELSE messages
  /\ edit' = NoEdit
  /\ UNCHANGED <<setup, threads, outbox, sending>>

SaveThread(t) ==
  /\ edit.of = t
  /\ threads' = IF ThreadStored(t) THEN [threads EXCEPT ![t] = edit.copy] ELSE threads
  /\ edit' = NoEdit
  /\ UNCHANGED <<setup, messages, outbox, sending>>

\* Into the trash and back: metadata.deleted_at is set, and cleared.
TrashMessage(m, into) ==
  /\ Permitted("message", IF into THEN "delete" ELSE "restore")
  /\ Stored(m)
  /\ messages[m].deleted = ~into
  /\ messages' = [messages EXCEPT ![m].deleted = into]
  /\ UNCHANGED <<setup, threads, outbox, sending, edit>>

TrashThread(t, into) ==
  /\ Permitted("thread", IF into THEN "delete" ELSE "restore")
  /\ ThreadStored(t)
  /\ threads[t].deleted = ~into
  /\ threads' = [threads EXCEPT ![t].deleted = into]
  /\ UNCHANGED <<setup, messages, outbox, sending, edit>>

\* DELETE of rows in the trash: of one of them, or of all by one statement, which the
\* foreign key refuses as a whole when a message refers to any of the threads.
PurgeMessages(ms) ==
  /\ Permitted("message", "purge")
  /\ \A m \in ms : Stored(m) /\ messages[m].deleted
  /\ messages' = [m \in Messages |-> IF m \in ms THEN NoMessage ELSE messages[m]]
  /\ UNCHANGED <<setup, threads, outbox, sending, edit>>

PurgeThreads(ts) ==
  /\ Permitted("thread", "purge")
  /\ \A t \in ts : ThreadStored(t) /\ threads[t].deleted /\ ~Refers(t)
  /\ threads' = [t \in Threads |-> IF t \in ts THEN NoThread ELSE threads[t]]
  /\ UNCHANGED <<setup, messages, outbox, sending, edit>>

MessageTrash == {m \in Messages : Stored(m) /\ messages[m].deleted}
ThreadTrash  == {t \in Threads : ThreadStored(t) /\ threads[t].deleted}

-----------------------------------------------------------------------------
Init ==
  /\ mount    \in Mounts
  /\ module   = "builder"
  /\ threads  = [t \in Threads |-> NoThread]
  /\ messages = [m \in Messages |-> NoMessage]
  /\ outbox   = {}
  /\ sending  = {}
  /\ edit     = NoEdit

\* The write service is part of the module: it serves once the module is built.
Service ==
  /\ module = "built"
  /\ \/ \E m \in Messages, t \in Threads, k \in Keys : ReceiveOnto(m, t, k) \/ ReceiveOpening(m, t, k)
     \/ \E t \in Threads : OpenThread(t) \/ CloseThread(t)
     \/ \E m \in Messages, t \in Threads : Queue(m, t)
     \/ \E m \in Messages : MarkFailed(m) \/ MarkDelivered(m)
     \/ \E m \in Messages, k \in Keys : MarkSent(m, k)

Routes ==
  \/ \E m \in Messages, r \in Bodies : CreateMessage(m, r) \/ LoadMessage(m, r)
  \/ \E t \in Threads, s \in {"open", "closed"} : CreateThread(t, s) \/ LoadThread(t, s)
  \/ \E m \in Messages : SaveMessage(m) \/ PurgeMessages({m})
  \/ \E t \in Threads : SaveThread(t) \/ PurgeThreads({t})
  \/ \E into \in BOOLEAN : \/ \E m \in Messages : TrashMessage(m, into)
                           \/ \E t \in Threads : TrashThread(t, into)
  \/ PurgeMessages(MessageTrash)
  \/ PurgeThreads(ThreadTrash)

Next == WithDatabase \/ Build \/ Service \/ Routes

Spec == Init /\ [][Next]_vars

-----------------------------------------------------------------------------
\* Whoever writes, and whatever is trashed, restored and purged in between: a stored
\* message's thread is stored, if only in the trash.
NoDanglingMessage == \A m \in Messages : Stored(m) => ThreadStored(messages[m].thread)

\* One row per (channel, external_id), the trash included, whichever of receive_inbound,
\* mark_sent and the routes wrote it: a restore can never clash.
OneRowPerKey == \A k \in Keys : \A m, n \in KeyRows(k) : m = n

\* On the read-only surface receive_inbound is the only inbound writer: an inbound row is
\* stored exactly when one staged event names it, with its thread.
InboundIffAnnounced ==
  mount.surface = "readonly" =>
    /\ \A m \in Messages : Stored(m) /\ messages[m].direction = "inbound" =>
         [message |-> m, thread |-> messages[m].thread] \in outbox
    /\ \A e \in outbox : /\ messages[e.message].direction = "inbound"
                         /\ messages[e.message].status = "received"
                         /\ messages[e.message].thread = e.thread

\* A sibling that takes an event from the outbox, however late, finds the message and
\* the thread it names through the query service: with the read-only surface nothing is
\* trashed or purged behind it.
EventsStayReadable ==
  mount.surface = "readonly" =>
    \A e \in outbox : MessageExists(e.message) /\ ThreadExists(e.thread)

\* A message only moves queued -> sent -> delivered or queued -> failed and a closed
\* thread stays closed, for as long as nobody may update rows through the routes, whatever
\* else they may do.
LifecyclesAdvance ==
  [][mount.surface = "readonly" \/ "update" \notin mount.grants =>
     /\ \A m \in Messages : Stored(m) /\ Stored(m)' =>
          \/ messages[m]'.status = messages[m].status
          \/ <<messages[m].status, messages[m]'.status>> \in
               {<<"queued", "sent">>, <<"sent", "delivered">>, <<"queued", "failed">>}
     /\ \A t \in Threads : threads[t].status = "closed" => threads[t]'.status # "open"]_vars
=============================================================================
