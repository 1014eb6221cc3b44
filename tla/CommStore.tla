----------------------------- MODULE CommStore -----------------------------
(***************************************************************************)
(* The tables of the Postgres schema `communication` that the write service *)
(* shares between its concurrent calls, and the SQL of the two repositories *)
(* as operators on them.  A row is visible here once it is committed; what a *)
(* transaction has written and not yet committed shows only through the     *)
(* locks it holds: keyHolder (an uncommitted entry of the unique index on   *)
(* (channel, external_id)) and rowHolder (an uncommitted update of a thread *)
(* row).  Isolation is READ COMMITTED, the default nothing in the code      *)
(* changes, so each statement reads the committed rows of its own instant.  *)
(***************************************************************************)
EXTENDS Naturals, FiniteSets

CONSTANTS
  Inbound,       \* receive_inbound calls; call c mints the message uuid c and,
                 \* when it opens a thread, the thread uuid c
  Sends,         \* send_outbound calls; call s mints the message uuid s
  Opens,         \* open_thread calls; call o mints the thread uuid o
  Channels,      \* whatsapp, email, sms
  ExternalIds,   \* the providers' message ids
  Parties,       \* party uuids
  Handles,       \* the providers' conversation handles (external_ref)
  SubjectTypes,  \* subject_type of the polymorphic link
  SubjectIds,    \* subject_id of the polymorphic link
  Units,         \* the organisation units an ambient scope can name
  Companies,     \* those of them that have a company node
  Fenced,        \* the composing service mounts its row fence (RLS)
  None           \* SQL NULL, Rust's Option::None, and "no transaction"

ASSUME NoneAssumption ==
  None \notin Inbound \cup Sends \cup Opens \cup Channels \cup ExternalIds
              \cup Parties \cup Handles \cup SubjectTypes \cup SubjectIds \cup Units

ASSUME FenceAssumption == Companies \subseteq Units /\ Fenced \in BOOLEAN

\* Uuid::new_v4 never repeats: a message is inbound or outbound, a thread is
\* opened by one call.
ASSUME UuidAssumption ==
  /\ Inbound \cap Sends = {}
  /\ Inbound \cap Opens = {}

VARIABLES
  threads,    \* communication.threads
  messages,   \* communication.messages
  outbox,     \* communication.outbox_events: the staged MessageReceived
  keyHolder,  \* per (channel, external_id): the open transaction that inserted it
  rowHolder,  \* per thread: the open transaction that updated its row
  clock       \* the last value now() has returned

storeVars == <<threads, messages, outbox, keyHolder, rowHolder, clock>>

ThreadIds  == Inbound \cup Opens
MessageIds == Inbound \cup Sends
Keys       == Channels \X ExternalIds
Optional(S) == S \cup {None}

ThreadRow ==
  [status          : {"absent", "open", "closed"},
   channel         : Optional(Channels),
   party_id        : Optional(Parties),
   external_ref    : Optional(Handles),
   subject_type    : Optional(SubjectTypes),
   subject_id      : Optional(SubjectIds),
   last_message_at : Nat,                       \* 0 is NULL
   unit            : Optional(Units),           \* the scope the fence stamped on it
   deleted         : BOOLEAN]                   \* metadata->>'deleted_at' is set

NoThread ==
  [status |-> "absent", channel |-> None, party_id |-> None,
   external_ref |-> None, subject_type |-> None, subject_id |-> None,
   last_message_at |-> 0, unit |-> None, deleted |-> FALSE]

MessageRow ==
  [status      : {"absent", "received", "queued", "sent", "delivered", "failed"},
   thread_id   : Optional(ThreadIds),
   channel     : Optional(Channels),
   external_id : Optional(ExternalIds),
   unit        : Optional(Units)]

NoMessage ==
  [status |-> "absent", thread_id |-> None, channel |-> None, external_id |-> None,
   unit |-> None]

\* The payload of MessageReceived, cut to the fields a property tells apart.
Received ==
  [message_id   : Inbound,
   thread_id    : ThreadIds,
   subject_type : Optional(SubjectTypes),
   subject_id   : Optional(SubjectIds)]

StoreTypeOK ==
  /\ threads   \in [ThreadIds -> ThreadRow]
  /\ messages  \in [MessageIds -> MessageRow]
  /\ outbox    \subseteq Received
  /\ keyHolder \in [Keys -> Optional(Inbound)]
  /\ rowHolder \in [ThreadIds -> Optional(Inbound)]
  /\ clock     \in Nat

StoreInit ==
  /\ threads   = [t \in ThreadIds |-> NoThread]
  /\ messages  = [m \in MessageIds |-> NoMessage]
  /\ outbox    = {}
  /\ keyHolder = [k \in Keys |-> None]
  /\ rowHolder = [t \in ThreadIds |-> None]
  /\ clock     = 0

----------------------------------------------------------------------------
(* Statements of the repositories, run under ambient scope u. *)

\* The fence's USING clause: a row of another unit is not there; no scope, no
\* rows.  Without a fence every row is visible.
Visible(row, u) == Fenced => u # None /\ row.unit = u

\* The fence's WITH CHECK clause: without a scope nothing can be inserted.
Insertable(u) == Fenced => u # None

\* The unique index knows nothing of the fence, nor of directions.
KeyRows(ch, x) ==
  {m \in MessageIds : messages[m].channel = ch /\ messages[m].external_id = x}

\* SELECT id, thread_id FROM messages WHERE channel = ch AND external_id = x.
FoundByExternalId(ch, x, u) == {m \in KeyRows(ch, x) : Visible(messages[m], u)}

RoutableThread(t, ch, u) ==
  /\ threads[t].status = "open" /\ ~threads[t].deleted
  /\ threads[t].channel = ch
  /\ Visible(threads[t], u)

OpenByExternalRef(ch, ref, u) ==
  {t \in ThreadIds : RoutableThread(t, ch, u) /\ threads[t].external_ref = ref}

OpenByParty(ch, p, u) ==
  {t \in ThreadIds : RoutableThread(t, ch, u) /\ threads[t].party_id = p}

\* ORDER BY last_message_at DESC NULLS LAST LIMIT 1: any of the latest rows.
MostRecent(S) ==
  {t \in S : \A u \in S : threads[u].last_message_at <= threads[t].last_message_at}

\* The row a new thread starts as: open, never messaged, not deleted.
OpenedThread(ch, p, ref, st, sid, u) ==
  [status |-> "open", channel |-> ch, party_id |-> p, external_ref |-> ref,
   subject_type |-> st, subject_id |-> sid, last_message_at |-> 0,
   unit |-> u, deleted |-> FALSE]
=============================================================================
