------------------------ MODULE CrudSurface_proofs ------------------------
(***************************************************************************)
(* CrudSurface for every set of rows, keys and bodies, whatever is mounted    *)
(* and for whom: its types, the foreign key and the unique index; and on the   *)
(* read-only surface, what the write service's events say of the rows.         *)
(***************************************************************************)
EXTENDS CrudSurface, TLAPS

(* TypeOK, a part for each variable. *)
CallsOK    == mount \in Mounts /\ module \in {"builder", "with_database", "built"} /\ sending \subseteq Messages
ThreadsOK  == threads \in [Threads -> ThreadRow]
Threaded(r) == r.status # "absent" => r.thread \in Threads
MessagesOK == /\ messages \in [Messages -> MessageRow]
              /\ \A m \in Messages : Threaded(messages[m])
OutboxOK   == outbox \subseteq [message : Messages, thread : Threads]
EditOK     == \/ edit = NoEdit
              \/ edit.of \in Threads /\ edit \in [of : Threads, copy : ThreadRow]
                 /\ edit.copy.status # "absent"
              \/ edit.of \in Messages /\ edit \in [of : Messages, copy : MessageRow]

LEMMA EditKept == ASSUME EditOK, UNCHANGED edit PROVE EditOK'
  BY DEF EditOK

LEMMA OutboxKept == ASSUME OutboxOK, UNCHANGED outbox PROVE OutboxOK'
  BY DEF OutboxOK

LEMMA MessagesKept == ASSUME MessagesOK, UNCHANGED messages PROVE MessagesOK'
  BY DEF MessagesOK

LEMMA ThreadsKept == ASSUME ThreadsOK, UNCHANGED threads PROVE ThreadsOK'
  BY DEF ThreadsOK

LEMMA MessageWritten ==
  ASSUME MessagesOK, NEW m \in Messages, NEW r \in MessageRow, Threaded(r),
         messages' = [messages EXCEPT ![m] = r]
  PROVE  MessagesOK'
  BY DEF MessagesOK

LEMMA ThreadWritten ==
  ASSUME ThreadsOK, NEW t \in Threads, NEW r \in ThreadRow,
         threads' = [threads EXCEPT ![t] = r]
  PROVE  ThreadsOK'
  BY DEF ThreadsOK

\* Every variable stays in its type, and a stored message has a thread id.
THEOREM SurfaceTypeCorrect == Spec => []TypeOK
<1>1. Init => TypeOK
  BY DEF Init, TypeOK, NoEdit, NoThread, NoMessage, ThreadRow, MessageRow, Statuses
<1>2. TypeOK /\ [Next]_vars => TypeOK'
  <2> SUFFICES ASSUME CallsOK, ThreadsOK, MessagesOK, OutboxOK, EditOK, [Next]_vars
               PROVE  CallsOK' /\ ThreadsOK' /\ MessagesOK' /\ OutboxOK' /\ EditOK'
    BY DEF TypeOK, ThreadsOK, MessagesOK, Threaded, OutboxOK, EditOK, CallsOK
  <2> USE DEF CallsOK, setup
  <2>1. CASE WithDatabase
    BY <2>1, EditKept, OutboxKept, MessagesKept, ThreadsKept DEF WithDatabase, rows
  <2>2. CASE Build
    BY <2>2, EditKept, OutboxKept, MessagesKept, ThreadsKept DEF Build, rows
  <2>3. CASE Service
    <3>1. ASSUME NEW m \in Messages, NEW t \in Threads, NEW k \in Keys, Insert(m, t, k)
          PROVE  MessagesOK' /\ OutboxOK'
      <4> DEFINE r == [status |-> "received", direction |-> "inbound",
                       thread |-> t, key |-> k, deleted |-> FALSE]
      <4>1. r \in MessageRow /\ Threaded(r)
        BY DEF MessageRow, Statuses, Threaded
      <4>2. MessagesOK'
        BY <3>1, <4>1, MessageWritten DEF Insert
      <4>3. OutboxOK'
        BY <3>1 DEF Insert, Announce, OutboxOK
      <4> QED
        BY <4>2, <4>3
    <3>2. [status |-> "open", deleted |-> FALSE] \in ThreadRow
      BY DEF ThreadRow
    <3>3. ASSUME NEW m \in Messages, NEW t \in Threads, NEW k \in Keys,
                 ReceiveOnto(m, t, k) \/ ReceiveOpening(m, t, k)
          PROVE  CallsOK' /\ ThreadsOK' /\ MessagesOK' /\ OutboxOK' /\ EditOK'
      BY <3>1, <3>2, <3>3, EditKept, ThreadsKept, ThreadWritten DEF ReceiveOnto, ReceiveOpening
    <3>4. ASSUME NEW t \in Threads, OpenThread(t) \/ CloseThread(t)
          PROVE  CallsOK' /\ ThreadsOK' /\ MessagesOK' /\ OutboxOK' /\ EditOK'
      <4>1. [threads[t] EXCEPT !.status = "closed"] \in ThreadRow
        BY DEF ThreadsOK, ThreadRow
      <4> QED
        BY <3>2, <3>4, <4>1, EditKept, OutboxKept, MessagesKept, ThreadWritten
           DEF OpenThread, CloseThread
    <3>5. ASSUME NEW m \in Messages, NEW t \in Threads, Queue(m, t)
          PROVE  CallsOK' /\ ThreadsOK' /\ MessagesOK' /\ OutboxOK' /\ EditOK'
      <4> DEFINE r == [status |-> "queued", direction |-> "outbound",
                       thread |-> t, key |-> None, deleted |-> FALSE]
      <4>1. r \in MessageRow /\ Threaded(r)
        BY DEF MessageRow, Statuses, Threaded
      <4> QED
        BY <3>5, <4>1, EditKept, OutboxKept, MessageWritten, ThreadsKept DEF Queue
    <3>6. ASSUME NEW m \in Messages, NEW k \in Keys \cup {None}, NEW to \in Statuses, Stamp(m, to, k)
          PROVE  ThreadsOK' /\ MessagesOK' /\ OutboxOK' /\ EditOK' /\ UNCHANGED <<mount, module>>
      <4> DEFINE r == [messages[m] EXCEPT !.status = to, !.key = k]
      <4>1. r \in MessageRow /\ Threaded(r)
        BY <3>6 DEF Stamp, Stored, MessagesOK, MessageRow, Statuses, Threaded
      <4>2. messages' = [messages EXCEPT ![m] = r]
        BY <3>6 DEF Stamp, MessagesOK
      <4> HIDE DEF r
      <4>3. MessagesOK'
        BY <4>1, <4>2, MessageWritten
      <4> QED
        BY <3>6, <4>3, EditKept, OutboxKept, ThreadsKept DEF Stamp
    <3>7. ASSUME NEW m \in Messages PROVE messages[m].key \in Keys \cup {None}
      BY DEF MessagesOK, MessageRow
    <3>8. {"queued", "sent", "failed", "delivered"} \subseteq Statuses
      BY DEF Statuses
    <3> QED
      BY <2>3, <3>3, <3>4, <3>5, <3>6, <3>7, <3>8
         DEF Service, MarkSent, MarkFailed, MarkDelivered
  <2>4. CASE Routes
    <3>1. ASSUME NEW m \in Messages, NEW r \in Asked, CreateMessage(m, r)
          PROVE  CallsOK' /\ ThreadsOK' /\ MessagesOK' /\ OutboxOK' /\ EditOK'
      <4>1. r \in MessageRow /\ Threaded(r)
        BY DEF Asked, MessageRow, Threaded
      <4> QED
        BY <3>1, <4>1, EditKept, OutboxKept, MessageWritten, ThreadsKept DEF CreateMessage
    <3>2. ASSUME NEW m \in Messages, NEW r \in Asked, LoadMessage(m, r)
          PROVE  CallsOK' /\ ThreadsOK' /\ MessagesOK' /\ OutboxOK' /\ EditOK'
      <4>1. EditOK'
        BY <3>2 DEF LoadMessage, Asked, EditOK
      <4> QED
        BY <3>2, <4>1, OutboxKept, MessagesKept, ThreadsKept DEF LoadMessage, rows
    <3>3. ASSUME NEW t \in Threads, NEW s \in {"open", "closed"}, CreateThread(t, s) \/ LoadThread(t, s)
          PROVE  CallsOK' /\ ThreadsOK' /\ MessagesOK' /\ OutboxOK' /\ EditOK'
      <4> DEFINE r == [status |-> s, deleted |-> FALSE]
      <4>1. r \in ThreadRow
        BY DEF ThreadRow
      <4>2. CASE CreateThread(t, s)
        BY <4>1, <4>2, EditKept, OutboxKept, MessagesKept, ThreadWritten DEF CreateThread
      <4>3. CASE LoadThread(t, s)
        <5>1. EditOK'
          BY <4>1, <4>3 DEF LoadThread, EditOK
        <5> QED
          BY <4>3, <5>1, OutboxKept, MessagesKept, ThreadsKept DEF LoadThread, rows
      <4> QED
        BY <3>3, <4>2, <4>3
    <3>4. ASSUME edit' = NoEdit PROVE EditOK'
      BY <3>4 DEF EditOK, NoEdit
    <3>5. ASSUME NEW m \in Messages, SaveMessage(m)
          PROVE  CallsOK' /\ ThreadsOK' /\ MessagesOK' /\ OutboxOK' /\ EditOK'
      <4>1. MessagesOK'
        <5>1. CASE UNCHANGED messages
          BY <5>1, MessagesKept
        <5>2. CASE /\ Fits(m, edit.copy)
                   /\ messages' = [messages EXCEPT ![m] = edit.copy]
          <6>1. edit.copy \in MessageRow
            BY <3>5, SurfaceAssumption DEF SaveMessage, EditOK, NoEdit
          <6>2. Threaded(edit.copy)
            <7>1. edit.copy.thread \in Threads
              BY <6>1, <5>2, SurfaceAssumption DEF Fits, Referable, ThreadStored, MessageRow, SaveMessage
            <7> QED
              BY <7>1 DEF Threaded
          <6> QED
            BY <5>2, <6>1, <6>2, MessageWritten
        <5> QED
          BY <3>5, <5>1, <5>2 DEF SaveMessage
      <4> QED
        BY <3>4, <3>5, <4>1, OutboxKept, ThreadsKept DEF SaveMessage
    <3>6. ASSUME NEW t \in Threads, SaveThread(t)
          PROVE  CallsOK' /\ ThreadsOK' /\ MessagesOK' /\ OutboxOK' /\ EditOK'
      <4>1. edit.copy \in ThreadRow
        BY <3>6, SurfaceAssumption DEF SaveThread, EditOK, NoEdit
      <4> QED
        BY <3>4, <3>6, <4>1, OutboxKept, MessagesKept, ThreadsKept, ThreadWritten DEF SaveThread
    <3>7. ASSUME NEW into \in BOOLEAN, NEW m \in Messages, TrashMessage(m, into)
          PROVE  CallsOK' /\ ThreadsOK' /\ MessagesOK' /\ OutboxOK' /\ EditOK'
      <4> DEFINE r == [messages[m] EXCEPT !.deleted = into]
      <4>1. r \in MessageRow /\ Threaded(r)
        BY DEF MessagesOK, MessageRow, Threaded
      <4> QED
        BY <3>7, <4>1, EditKept, OutboxKept, MessageWritten, ThreadsKept DEF TrashMessage
    <3>8. ASSUME NEW into \in BOOLEAN, NEW t \in Threads, TrashThread(t, into)
          PROVE  CallsOK' /\ ThreadsOK' /\ MessagesOK' /\ OutboxOK' /\ EditOK'
      <4>1. [threads[t] EXCEPT !.deleted = into] \in ThreadRow
        BY DEF ThreadsOK, ThreadRow
      <4> QED
        BY <3>8, <4>1, EditKept, OutboxKept, MessagesKept, ThreadWritten DEF TrashThread
    <3>9. ASSUME NEW ms, PurgeMessages(ms)
          PROVE  CallsOK' /\ ThreadsOK' /\ MessagesOK' /\ OutboxOK' /\ EditOK'
      <4>1. NoMessage \in MessageRow /\ Threaded(NoMessage)
        BY DEF NoMessage, MessageRow, Threaded
      <4>2. MessagesOK'
        BY <3>9, <4>1 DEF PurgeMessages, MessagesOK
      <4> QED
        BY <3>9, <4>2, EditKept, OutboxKept, ThreadsKept DEF PurgeMessages
    <3>10. ASSUME NEW ts, PurgeThreads(ts)
           PROVE  CallsOK' /\ ThreadsOK' /\ MessagesOK' /\ OutboxOK' /\ EditOK'
      <4>1. ThreadsOK'
        BY <3>10 DEF PurgeThreads, ThreadsOK, NoThread, ThreadRow
      <4> QED
        BY <3>10, <4>1, EditKept, OutboxKept, MessagesKept DEF PurgeThreads
    <3> QED
      BY <2>4, <3>1, <3>2, <3>3, <3>5, <3>6, <3>7, <3>8, <3>9, <3>10, SurfaceAssumption DEF Routes
  <2>5. CASE UNCHANGED vars
    BY <2>5, EditKept, OutboxKept, MessagesKept, ThreadsKept DEF vars, rows
  <2> QED
    BY <2>1, <2>2, <2>3, <2>4, <2>5 DEF Next
<1> QED
  BY <1>1, <1>2, PTL DEF Spec

-----------------------------------------------------------------------------
(* What the schema holds of the rows, whoever writes them. *)

SchemaKept == NoDanglingMessage /\ OneRowPerKey

ThreadsStay == \A t \in Threads : ThreadStored(t) => ThreadStored(t)'

\* A row is written whose thread is stored and whose key no other row has.
FittingWrite(m, r) ==
  /\ messages' = [messages EXCEPT ![m] = r]
  /\ r.thread \in Threads /\ threads'[r.thread].status # "absent"
  /\ KeyFree(r.key, m)

LEMMA SchemaUntouched ==
  ASSUME SchemaKept, UNCHANGED messages, ThreadsStay, MessagesOK
  PROVE  SchemaKept'
  BY DEF SchemaKept, NoDanglingMessage, OneRowPerKey, Stored, KeyRows, ThreadsStay, MessagesOK,
         Threaded

LEMMA SchemaWritten ==
  ASSUME SchemaKept, MessagesOK, NEW m \in Messages, NEW r \in MessageRow,
         FittingWrite(m, r), ThreadsStay
  PROVE  SchemaKept'
<1>1. \A n \in Messages : messages'[n] = IF n = m THEN r ELSE messages[n]
  BY DEF FittingWrite, MessagesOK
<1>2. NoDanglingMessage'
  BY <1>1 DEF SchemaKept, NoDanglingMessage, FittingWrite, ThreadsStay, ThreadStored, Stored,
                  MessagesOK, Threaded
<1>3. OneRowPerKey'
  <2> SUFFICES ASSUME NEW k \in Keys, NEW a \in Messages, NEW b \in Messages,
                      Stored(a)', Stored(b)', messages'[a].key = k, messages'[b].key = k, a # b
               PROVE  FALSE
    BY DEF OneRowPerKey, KeyRows
  <2>1. k # None
    BY SurfaceAssumption
  <2>2. CASE a = m
    BY <1>1, <2>1, <2>2 DEF FittingWrite, KeyFree, KeyRows, Stored
  <2>3. CASE b = m
    BY <1>1, <2>1, <2>3 DEF FittingWrite, KeyFree, KeyRows, Stored
  <2>4. CASE a # m /\ b # m
    BY <1>1, <2>4 DEF SchemaKept, OneRowPerKey, KeyRows, Stored
  <2> QED
    BY <2>2, <2>3, <2>4
<1> QED
  BY <1>2, <1>3 DEF SchemaKept

\* A stored row may be written back with its own thread and key.
LEMMA OwnKeyIsFree ==
  ASSUME SchemaKept, MessagesOK, ThreadsStay, NEW m \in Messages, Stored(m), NEW r \in MessageRow,
         r.thread = messages[m].thread, r.key = messages[m].key,
         messages' = [messages EXCEPT ![m] = r]
  PROVE  FittingWrite(m, r)
  BY DEF SchemaKept, NoDanglingMessage, OneRowPerKey, FittingWrite, KeyFree, KeyRows, MessagesOK,
         Threaded, Stored, ThreadsStay, ThreadStored, MessageRow

\* Threads are written and messages are not.
LEMMA SchemaOfThreadWrite ==
  ASSUME SchemaKept, ThreadsOK, MessagesOK, NEW t \in Threads, NEW r,
         r.status # "absent", threads' = [threads EXCEPT ![t] = r], UNCHANGED messages
  PROVE  SchemaKept'
<1>1. ThreadsStay
  BY DEF ThreadsStay, ThreadStored, ThreadsOK
<1> QED
  BY <1>1, SchemaUntouched

LEMMA SchemaHolds == Spec => []SchemaKept
<1>1. Init => SchemaKept
  BY DEF Init, SchemaKept, NoDanglingMessage, OneRowPerKey, KeyRows, Stored, NoMessage
<1>2. TypeOK /\ SchemaKept /\ [Next]_vars => SchemaKept'
  <2> SUFFICES ASSUME ThreadsOK, MessagesOK, EditOK, SchemaKept, [Next]_vars PROVE SchemaKept'
    BY DEF TypeOK, ThreadsOK, MessagesOK, Threaded, EditOK
  <2>1. ASSUME UNCHANGED <<threads, messages>> PROVE SchemaKept'
    BY <2>1, SchemaUntouched DEF ThreadsStay, ThreadStored
  <2>2. ASSUME UNCHANGED threads PROVE ThreadsStay
    BY <2>2 DEF ThreadsStay, ThreadStored
  <2>3. CASE WithDatabase \/ Build \/ UNCHANGED vars
    BY <2>1, <2>3 DEF WithDatabase, Build, vars, rows
  <2>4. CASE Service
    <3>1. ASSUME NEW m \in Messages, NEW t \in Threads, NEW k \in Keys, Insert(m, t, k),
                 ThreadStored(t)', ThreadsStay
          PROVE  SchemaKept'
      <4> DEFINE r == [status |-> "received", direction |-> "inbound",
                       thread |-> t, key |-> k, deleted |-> FALSE]
      <4>1. r \in MessageRow
        BY DEF MessageRow, Statuses
      <4>2. FittingWrite(m, r)
        BY <3>1 DEF Insert, FittingWrite, KeyFree, ThreadStored
      <4> QED
        BY <3>1, <4>1, <4>2, SchemaWritten
    <3>2. ASSUME NEW m \in Messages, NEW t \in Threads, NEW k \in Keys, ReceiveOnto(m, t, k)
          PROVE  SchemaKept'
      <4>1. ThreadsStay /\ ThreadStored(t)'
        BY <2>2, <3>2 DEF ReceiveOnto, Routable, ThreadStored
      <4> QED
        BY <3>1, <3>2, <4>1 DEF ReceiveOnto
    <3>3. ASSUME NEW m \in Messages, NEW t \in Threads, NEW k \in Keys, ReceiveOpening(m, t, k)
          PROVE  SchemaKept'
      <4>1. ThreadsStay /\ ThreadStored(t)'
        BY <3>3 DEF ReceiveOpening, ThreadStored, ThreadsOK, ThreadsStay
      <4> QED
        BY <3>1, <3>3, <4>1 DEF ReceiveOpening
    <3>4. ASSUME NEW t \in Threads, OpenThread(t) PROVE SchemaKept'
      <4>1. [status |-> "open", deleted |-> FALSE].status # "absent"
        OBVIOUS
      <4> QED
        BY <3>4, <4>1, SchemaOfThreadWrite DEF OpenThread
    <3>5. ASSUME NEW t \in Threads, CloseThread(t) PROVE SchemaKept'
      <4> DEFINE r == [threads[t] EXCEPT !.status = "closed"]
      <4>1. r.status # "absent"
        BY DEF ThreadsOK, ThreadRow
      <4>2. threads' = [threads EXCEPT ![t] = r]
        BY <3>5 DEF CloseThread
      <4> HIDE DEF r
      <4> QED
        BY <3>5, <4>1, <4>2, SchemaOfThreadWrite DEF CloseThread
    <3>6. ASSUME NEW m \in Messages, NEW t \in Threads, Queue(m, t) PROVE SchemaKept'
      <4> DEFINE r == [status |-> "queued", direction |-> "outbound",
                       thread |-> t, key |-> None, deleted |-> FALSE]
      <4>1. r \in MessageRow
        BY DEF MessageRow, Statuses
      <4>2. FittingWrite(m, r) /\ ThreadsStay
        BY <2>2, <3>6 DEF Queue, FittingWrite, KeyFree, Routable, ThreadStored
      <4> QED
        BY <4>1, <4>2, SchemaWritten
    <3>7. ASSUME NEW m \in Messages, NEW k \in Keys \cup {None}, NEW to \in Statuses,
                 Stamp(m, to, k), k = messages[m].key \/ KeyFree(k, m)
          PROVE  SchemaKept'
      <4> DEFINE r == [messages[m] EXCEPT !.status = to, !.key = k]
      <4>1. r \in MessageRow /\ r.thread = messages[m].thread /\ r.key = k
        BY DEF MessagesOK, MessageRow
      <4>2. messages' = [messages EXCEPT ![m] = r] /\ ThreadsStay
        BY <2>2, <3>7 DEF Stamp, MessagesOK
      <4>3. Stored(m)
        BY <3>7 DEF Stamp
      <4> HIDE DEF r
      <4>4. FittingWrite(m, r)
        <5>1. CASE k = messages[m].key
          BY <4>1, <4>2, <4>3, <5>1, OwnKeyIsFree
        <5>2. CASE KeyFree(k, m)
          <6>1. r.thread \in Threads /\ ThreadStored(r.thread)
            BY <4>1, <4>3 DEF SchemaKept, NoDanglingMessage, MessagesOK, Threaded, Stored, ThreadStored
          <6>2. threads'[r.thread].status # "absent"
            BY <4>2, <6>1 DEF ThreadsStay, ThreadStored
          <6>3. KeyFree(r.key, m)
            BY <4>1, <5>2 DEF KeyFree
          <6> QED
            BY <4>2, <6>1, <6>2, <6>3 DEF FittingWrite
        <5> QED
          BY <3>7, <5>1, <5>2
      <4> QED
        BY <4>1, <4>2, <4>4, SchemaWritten
    <3>8. ASSUME NEW m \in Messages PROVE messages[m].key \in Keys \cup {None}
      BY DEF MessagesOK, MessageRow
    <3>9. {"queued", "sent", "failed", "delivered"} \subseteq Statuses
      BY DEF Statuses
    <3> QED
      BY <2>4, <3>2, <3>3, <3>4, <3>5, <3>6, <3>7, <3>8, <3>9
         DEF Service, MarkSent, MarkFailed, MarkDelivered
  <2>5. CASE Routes
    <3>1. ASSUME NEW m \in Messages, NEW r \in MessageRow, Fits(m, r), UNCHANGED threads,
                 messages' = [messages EXCEPT ![m] = r]
          PROVE  SchemaKept'
      <4>1. ThreadsStay
        BY <2>2, <3>1
      <4>2. r.thread \in Threads /\ ThreadStored(r.thread) /\ KeyFree(r.key, m)
        BY <3>1 DEF Fits, Referable
      <4>3. FittingWrite(m, r)
        BY <3>1, <4>1, <4>2 DEF FittingWrite, ThreadStored
      <4> QED
        BY <3>1, <4>1, <4>3, SchemaWritten
    <3>2. ASSUME NEW m \in Messages, NEW r \in Asked, CreateMessage(m, r) PROVE SchemaKept'
      BY <3>1, <3>2 DEF CreateMessage, Asked
    <3>3. ASSUME NEW m \in Messages, NEW r \in Asked, LoadMessage(m, r) PROVE SchemaKept'
      BY <2>1, <3>3 DEF LoadMessage, rows
    <3>4. ASSUME NEW t \in Threads, NEW s \in {"open", "closed"}, CreateThread(t, s)
          PROVE  SchemaKept'
      <4>1. [status |-> s, deleted |-> FALSE].status # "absent"
        OBVIOUS
      <4> QED
        BY <3>4, <4>1, SchemaOfThreadWrite DEF CreateThread
    <3>5. ASSUME NEW t \in Threads, NEW s \in {"open", "closed"}, LoadThread(t, s)
          PROVE  SchemaKept'
      BY <2>1, <3>5 DEF LoadThread, rows
    <3>6. ASSUME NEW m \in Messages, SaveMessage(m) PROVE SchemaKept'
      <4>1. edit.copy \in MessageRow
        BY <3>6, SurfaceAssumption DEF SaveMessage, EditOK, NoEdit
      <4> QED
        BY <2>1, <3>1, <3>6, <4>1 DEF SaveMessage
    <3>7. ASSUME NEW t \in Threads, SaveThread(t) PROVE SchemaKept'
      <4>1. CASE UNCHANGED threads
        BY <2>1, <3>7, <4>1 DEF SaveThread
      <4>2. CASE ThreadStored(t) /\ threads' = [threads EXCEPT ![t] = edit.copy]
        <5>1. edit.copy.status # "absent"
          BY <3>7, SurfaceAssumption DEF SaveThread, EditOK, NoEdit
        <5> QED
          BY <3>7, <4>2, <5>1, SchemaOfThreadWrite DEF SaveThread
      <4> QED
        BY <3>7, <4>1, <4>2 DEF SaveThread
    <3>8. ASSUME NEW into \in BOOLEAN, NEW m \in Messages, TrashMessage(m, into) PROVE SchemaKept'
      <4> DEFINE r == [messages[m] EXCEPT !.deleted = into]
      <4>1. r \in MessageRow /\ r.thread = messages[m].thread /\ r.key = messages[m].key
        BY DEF MessagesOK, MessageRow
      <4>2. messages' = [messages EXCEPT ![m] = r] /\ ThreadsStay /\ Stored(m)
        BY <2>2, <3>8 DEF TrashMessage
      <4> HIDE DEF r
      <4> QED
        BY <4>1, <4>2, OwnKeyIsFree, SchemaWritten
    <3>9. ASSUME NEW into \in BOOLEAN, NEW t \in Threads, TrashThread(t, into) PROVE SchemaKept'
      <4> DEFINE r == [threads[t] EXCEPT !.deleted = into]
      <4>1. r.status # "absent" /\ threads' = [threads EXCEPT ![t] = r]
        BY <3>9 DEF TrashThread, ThreadStored, ThreadsOK, ThreadRow
      <4> HIDE DEF r
      <4> QED
        BY <3>9, <4>1, SchemaOfThreadWrite DEF TrashThread
    <3>10. ASSUME NEW ms, PurgeMessages(ms) PROVE SchemaKept'
      <4>1. \A m \in Messages : Stored(m)' => Stored(m) /\ messages'[m] = messages[m]
        BY <3>10 DEF PurgeMessages, Stored, NoMessage, MessagesOK
      <4>2. UNCHANGED threads
        BY <3>10 DEF PurgeMessages
      <4> QED
        BY <4>1, <4>2 DEF SchemaKept, NoDanglingMessage, OneRowPerKey, KeyRows, ThreadStored
    <3>11. ASSUME NEW ts, PurgeThreads(ts) PROVE SchemaKept'
      <4>1. \A t \in Threads : Refers(t) /\ ThreadStored(t) => ThreadStored(t)'
        BY <3>11 DEF PurgeThreads, ThreadStored, ThreadsOK
      <4>2. UNCHANGED messages
        BY <3>11 DEF PurgeThreads
      <4> QED
        BY <4>1, <4>2 DEF SchemaKept, NoDanglingMessage, OneRowPerKey, KeyRows, Stored, Refers,
                          MessagesOK, Threaded
    <3> QED
      BY <2>5, <3>2, <3>3, <3>4, <3>5, <3>6, <3>7, <3>8, <3>9, <3>10, <3>11, SurfaceAssumption DEF Routes
  <2> QED
    BY <2>3, <2>4, <2>5 DEF Next
<1> QED
  BY <1>1, <1>2, SurfaceTypeCorrect, PTL DEF Spec

\* A stored message's thread is stored, whichever of the write service and the generated
\* routes writes, trashes, restores and purges rows.
THEOREM ForeignKeyHolds == Spec => []NoDanglingMessage
  BY SchemaHolds, PTL DEF SchemaKept

\* One row per key, the trash included, whichever of them writes it.
THEOREM UniqueKeyHolds == Spec => []OneRowPerKey
  BY SchemaHolds, PTL DEF SchemaKept

-----------------------------------------------------------------------------
(* The read-only surface: nothing but the write service moves a row. *)

SentIsOutbound == \A m \in Messages : m \in sending \/ messages[m].status = "sent" =>
                    messages[m].status # "received" /\ messages[m].direction = "outbound"

NothingTrashed == /\ edit = NoEdit
                  /\ \A m \in Messages : ~messages[m].deleted
                  /\ \A t \in Threads : ~threads[t].deleted
                  /\ SentIsOutbound

LEMMA NoRouteWrites ==
  ASSUME mount.surface = "readonly", NothingTrashed, Routes
  PROVE  FALSE
<1>1. \A entity \in Entities, action \in Actions \ {"read"} : ~Permitted(entity, action)
  BY DEF Permitted, Routed, ReadonlyRoutes, MessageReadRoutes, ThreadReadRoutes, Entities, Actions
<1>2. {"create", "update", "delete", "restore", "purge"} \subseteq Actions \ {"read"}
      /\ {"message", "thread"} \subseteq Entities
  BY DEF Actions, Entities
<1>3. ASSUME NEW x \in Messages \cup Threads PROVE edit.of # x
  BY <1>3, SurfaceAssumption DEF NothingTrashed, NoEdit
<1>4. ASSUME NEW m \in Messages, SaveMessage(m) PROVE FALSE
  BY <1>3, <1>4 DEF SaveMessage
<1>5. ASSUME NEW t \in Threads, SaveThread(t) PROVE FALSE
  BY <1>3, <1>5 DEF SaveThread
<1> QED
  BY <1>1, <1>2, <1>4, <1>5
     DEF Routes, CreateMessage, LoadMessage, CreateThread, LoadThread, TrashMessage, TrashThread,
         PurgeMessages, PurgeThreads

\* What InboundIffAnnounced says of a read-only mount.
Announced ==
  /\ \A m \in Messages : Stored(m) /\ messages[m].direction = "inbound" =>
       [message |-> m, thread |-> messages[m].thread] \in outbox
  /\ \A e \in outbox : /\ messages[e.message].direction = "inbound"
                       /\ messages[e.message].status = "received"
                       /\ messages[e.message].thread = e.thread

ReadonlyInv == mount.surface = "readonly" => NothingTrashed /\ Announced

LEMMA MountStays == [Next]_vars => mount' = mount
  BY DEF Next, WithDatabase, Build, Service, ReceiveOnto, ReceiveOpening, OpenThread, CloseThread,
         Queue, MarkSent, MarkFailed, MarkDelivered, Stamp, Routes, CreateMessage, CreateThread,
         LoadMessage, LoadThread, SaveMessage, SaveThread, TrashMessage, TrashThread,
         PurgeMessages, PurgeThreads, vars, setup

LEMMA ReadonlyHolds == Spec => []ReadonlyInv
<1>1. Init => ReadonlyInv
  BY DEF Init, ReadonlyInv, NothingTrashed, SentIsOutbound, Announced, NoThread, NoMessage, NoEdit,
         Stored
<1>2. TypeOK /\ ReadonlyInv /\ [Next]_vars => ReadonlyInv'
  <2> SUFFICES ASSUME mount.surface = "readonly", ThreadsOK, MessagesOK, OutboxOK, NothingTrashed,
                      Announced, [Next]_vars
               PROVE  NothingTrashed' /\ Announced'
    BY MountStays DEF ReadonlyInv, TypeOK, ThreadsOK, MessagesOK, Threaded, OutboxOK
  <2>1. CASE WithDatabase \/ Build \/ UNCHANGED vars
    BY <2>1 DEF WithDatabase, Build, vars, rows, NothingTrashed, SentIsOutbound, Announced,
                 Stored
  <2>2. CASE Service
    <3>1. ASSUME NEW t \in Threads, OpenThread(t) \/ CloseThread(t)
          PROVE  NothingTrashed' /\ Announced'
      BY <3>1 DEF OpenThread, CloseThread, NothingTrashed, SentIsOutbound, Announced,
                  Stored, ThreadsOK, ThreadRow
    <3>2. ASSUME NEW m \in Messages, NEW t \in Threads, NEW k \in Keys, Insert(m, t, k)
          PROVE  /\ \A n \in Messages : ~messages'[n].deleted
                 /\ UNCHANGED sending => SentIsOutbound'
                 /\ Announced'
      <4>1. \A n \in Messages : messages'[n] =
              IF n = m THEN [status |-> "received", direction |-> "inbound",
                             thread |-> t, key |-> k, deleted |-> FALSE] ELSE messages[n]
        BY <3>2 DEF Insert, MessagesOK
      <4>2. \A e \in outbox : e.message # m /\ e.message \in Messages
        BY <3>2 DEF Announced, Insert, Fresh, Stored, OutboxOK
      <4>3. Announced'
        BY <3>2, <4>1, <4>2 DEF Announced, Insert, Announce, Stored
      <4>4. m \notin sending
        BY <3>2 DEF Insert, Fresh
      <4>5. UNCHANGED sending => SentIsOutbound'
        BY <4>1, <4>4 DEF NothingTrashed, SentIsOutbound
      <4> QED
        BY <4>1, <4>3, <4>5 DEF NothingTrashed
    <3>3. ASSUME NEW m \in Messages, NEW t \in Threads, NEW k \in Keys,
                 ReceiveOnto(m, t, k) \/ ReceiveOpening(m, t, k)
          PROVE  NothingTrashed' /\ Announced'
      <4>1. edit' = NoEdit /\ \A u \in Threads : ~threads'[u].deleted
        BY <3>3 DEF ReceiveOnto, ReceiveOpening, NothingTrashed, ThreadsOK
      <4> QED
        BY <3>2, <3>3, <4>1 DEF ReceiveOnto, ReceiveOpening, NothingTrashed
    <3>4. ASSUME NEW m \in Messages, NEW t \in Threads, Queue(m, t)
          PROVE  NothingTrashed' /\ Announced'
      <4>1. \A n \in Messages : messages'[n] =
              IF n = m THEN [status |-> "queued", direction |-> "outbound",
                             thread |-> t, key |-> None, deleted |-> FALSE] ELSE messages[n]
        BY <3>4 DEF Queue, MessagesOK
      <4>2. \A e \in outbox : e.message # m /\ e.message \in Messages
        BY <3>4 DEF Announced, Queue, Fresh, Stored, OutboxOK
      <4>3. SentIsOutbound'
        BY <3>4, <4>1 DEF Queue, NothingTrashed, SentIsOutbound
      <4> QED
        BY <3>4, <4>1, <4>2, <4>3 DEF Announced, NothingTrashed, Queue, Stored
    <3>5. ASSUME NEW m \in Messages, NEW k, NEW to \in {"sent", "failed", "delivered"}, Stamp(m, to, k),
                 m \in sending \/ messages[m].status = "sent", sending' \subseteq sending
          PROVE  NothingTrashed' /\ Announced'
      <4>1. \A n \in Messages :
              /\ messages'[n].direction = messages[n].direction
              /\ messages'[n].thread = messages[n].thread
              /\ messages'[n].deleted = messages[n].deleted
              /\ n # m => messages'[n] = messages[n]
        BY <3>5 DEF Stamp, MessagesOK, MessageRow
      <4>2. messages[m].direction = "outbound" /\ messages[m].status # "received"
        BY <3>5 DEF NothingTrashed, SentIsOutbound
      <4>3. \A e \in outbox : e.message # m /\ e.message \in Messages
        BY <4>2 DEF Announced, OutboxOK
      <4>4. UNCHANGED <<threads, outbox, edit>>
        BY <3>5 DEF Stamp
      <4>5. messages'[m].status = to
        BY <3>5 DEF Stamp, MessagesOK, MessageRow
      <4>6. NothingTrashed'
        BY <3>5, <4>1, <4>2, <4>4, <4>5 DEF NothingTrashed, SentIsOutbound
      <4>7. \A n \in Messages : messages'[n].direction = "inbound" => messages'[n] = messages[n]
        BY <4>1, <4>2
      <4>8. Announced'
        BY <4>1, <4>3, <4>4, <4>7 DEF Announced, Stored
      <4> QED
        BY <4>6, <4>8
    <3> QED
      BY <2>2, <3>1, <3>3, <3>4, <3>5 DEF Service, MarkSent, MarkFailed, MarkDelivered
  <2>3. CASE Routes
    BY <2>3, NoRouteWrites
  <2> QED
    BY <2>1, <2>2, <2>3 DEF Next
<1> QED
  BY <1>1, <1>2, SurfaceTypeCorrect, PTL DEF Spec

\* Mounted read-only, an inbound message is stored exactly when one staged event names it
\* with its thread.
THEOREM AnnouncedIffStored == Spec => []InboundIffAnnounced
<1>1. ReadonlyInv => InboundIffAnnounced
  BY DEF ReadonlyInv, Announced, InboundIffAnnounced
<1> QED
  BY <1>1, ReadonlyHolds, PTL

\* Mounted read-only, whoever takes an event from the outbox finds what it names.
THEOREM EventsAlwaysReadable == Spec => []EventsStayReadable
<1>1. TypeOK /\ ReadonlyInv /\ NoDanglingMessage => EventsStayReadable
  <2> SUFFICES ASSUME TypeOK, NothingTrashed, Announced, NoDanglingMessage, NEW e \in outbox
               PROVE  MessageExists(e.message) /\ ThreadExists(e.thread)
    BY DEF EventsStayReadable, ReadonlyInv
  <2>1. e.message \in Messages /\ e.thread \in Threads
    BY DEF TypeOK
  <2>2. messages[e.message].status = "received" /\ messages[e.message].thread = e.thread
    BY DEF Announced
  <2> QED
    BY <2>1, <2>2 DEF MessageExists, ThreadExists, NothingTrashed, NoDanglingMessage, Stored, ThreadStored
<1> QED
  BY <1>1, ReadonlyHolds, SurfaceTypeCorrect, ForeignKeyHolds, PTL

-----------------------------------------------------------------------------
(* Without the update action: statuses only advance. *)

NobodyUpdates == mount.surface = "readonly" \/ "update" \notin mount.grants

\* No generated update is under way, and what waits for the provider is still queued:
\* a row that was purged meanwhile cannot come back under its id.
Settled ==
  /\ edit = NoEdit
  /\ \A m \in Messages : m \in sending /\ Stored(m) => messages[m].status = "queued"

Advances == {<<"queued", "sent">>, <<"sent", "delivered">>, <<"queued", "failed">>}

MessagesAdvance ==
  \A m \in Messages : Stored(m) /\ Stored(m)' =>
    messages'[m].status = messages[m].status \/ <<messages[m].status, messages'[m].status>> \in Advances

ClosedStays == \A t \in Threads : threads[t].status = "closed" => threads'[t].status # "open"

\* What a step may do to one row: leave its status and its call, drop it, store it anew,
\* or advance it and end its call.
Orderly(m) ==
  \/ messages'[m].status = messages[m].status /\ (m \in sending' => m \in sending)
  \/ messages'[m].status = "absent"
  \/ messages[m].status = "absent" /\ (m \in sending' => messages'[m].status = "queued")
  \/ <<messages[m].status, messages'[m].status>> \in Advances /\ m \notin sending'

LEMMA OrderlyAdvances ==
  ASSUME Settled, UNCHANGED edit, \A m \in Messages : Orderly(m)
  PROVE  Settled' /\ MessagesAdvance
  BY DEF Settled, Orderly, MessagesAdvance, Stored

LEMMA RowsUntouched ==
  ASSUME Settled, UNCHANGED <<messages, sending, edit>>
  PROVE  Settled' /\ MessagesAdvance
  BY OrderlyAdvances DEF Orderly

\* A statement of the write service.
LEMMA ServiceAdvances ==
  ASSUME MessagesOK, ThreadsOK, Settled, Service
  PROVE  Settled' /\ MessagesAdvance /\ ClosedStays
<1>1. ASSUME UNCHANGED threads PROVE ClosedStays
  BY <1>1 DEF ClosedStays
<1>2. ASSUME NEW t \in Threads, ~ThreadStored(t),
             threads' = [threads EXCEPT ![t] = [status |-> "open", deleted |-> FALSE]]
      PROVE  ClosedStays
  BY <1>2 DEF ClosedStays, ThreadStored, ThreadsOK
<1>3. ASSUME NEW m \in Messages, NEW t \in Threads, NEW k \in Keys,
             ReceiveOnto(m, t, k) \/ ReceiveOpening(m, t, k)
      PROVE  Settled' /\ MessagesAdvance /\ ClosedStays
  <2>1. \A n \in Messages : Orderly(n)
    BY <1>3 DEF ReceiveOnto, ReceiveOpening, Insert, Fresh, Stored, Orderly, MessagesOK
  <2> QED
    BY <1>1, <1>2, <1>3, <2>1, OrderlyAdvances DEF ReceiveOnto, ReceiveOpening
<1>4. ASSUME NEW t \in Threads, OpenThread(t) PROVE Settled' /\ MessagesAdvance /\ ClosedStays
  BY <1>2, <1>4, RowsUntouched DEF OpenThread
<1>5. ASSUME NEW t \in Threads, CloseThread(t) PROVE Settled' /\ MessagesAdvance /\ ClosedStays
  <2>1. ClosedStays
    BY <1>5 DEF CloseThread, ClosedStays, ThreadsOK, ThreadRow
  <2> QED
    BY <1>5, <2>1, RowsUntouched DEF CloseThread
<1>6. ASSUME NEW m \in Messages, NEW t \in Threads, Queue(m, t)
      PROVE  Settled' /\ MessagesAdvance /\ ClosedStays
  <2>1. \A n \in Messages : Orderly(n)
    BY <1>6 DEF Queue, Fresh, Stored, Orderly, MessagesOK
  <2> QED
    BY <1>1, <1>6, <2>1, OrderlyAdvances DEF Queue
<1>7. ASSUME NEW m \in Messages, NEW k, NEW to, Stamp(m, to, k),
             <<messages[m].status, to>> \in Advances, sending' = sending \ {m}
      PROVE  Settled' /\ MessagesAdvance /\ ClosedStays
  <2>1. /\ messages'[m].status = to
        /\ \A n \in Messages \ {m} : messages'[n] = messages[n]
    BY <1>7 DEF Stamp, MessagesOK, MessageRow
  <2>2. \A n \in Messages : Orderly(n)
    BY <1>7, <2>1 DEF Orderly
  <2> QED
    BY <1>1, <1>7, <2>2, OrderlyAdvances DEF Stamp
<1>8. ASSUME NEW m \in Messages, NEW k \in Keys, MarkSent(m, k)
      PROVE  Settled' /\ MessagesAdvance /\ ClosedStays
  BY <1>7, <1>8 DEF MarkSent, Stamp, Settled, Advances
<1>9. ASSUME NEW m \in Messages, MarkFailed(m) PROVE Settled' /\ MessagesAdvance /\ ClosedStays
  BY <1>7, <1>9 DEF MarkFailed, Stamp, Settled, Advances
<1>10. ASSUME NEW m \in Messages, MarkDelivered(m)
       PROVE  Settled' /\ MessagesAdvance /\ ClosedStays
  <2>1. sending' = sending \ {m}
    BY <1>10 DEF MarkDelivered, Stamp, Settled
  <2> QED
    BY <1>7, <1>10, <2>1 DEF MarkDelivered, Advances
<1> QED
  BY <1>3, <1>4, <1>5, <1>6, <1>8, <1>9, <1>10 DEF Service

\* A request to the generated routes that updates nothing.
LEMMA RoutesAdvance ==
  ASSUME NobodyUpdates, MessagesOK, ThreadsOK, Settled, Routes
  PROVE  Settled' /\ MessagesAdvance /\ ClosedStays
<1>1. ASSUME UNCHANGED threads PROVE ClosedStays
  BY <1>1 DEF ClosedStays
<1>2. \A entity \in Entities : ~Permitted(entity, "update")
  BY DEF NobodyUpdates, Permitted, Routed, ReadonlyRoutes, MessageReadRoutes, ThreadReadRoutes, Entities
<1>3. ASSUME NEW m \in Messages, NEW r \in Bodies, CreateMessage(m, r)
      PROVE  Settled' /\ MessagesAdvance /\ ClosedStays
  <2>1. \A n \in Messages : Orderly(n)
    BY <1>3 DEF CreateMessage, Fresh, Stored, Orderly, MessagesOK
  <2> QED
    BY <1>1, <1>3, <2>1, OrderlyAdvances DEF CreateMessage
<1>4. ASSUME NEW t \in Threads, NEW s \in {"open", "closed"}, CreateThread(t, s)
      PROVE  Settled' /\ MessagesAdvance /\ ClosedStays
  <2>1. ClosedStays
    BY <1>4 DEF CreateThread, ClosedStays, ThreadStored, ThreadsOK
  <2> QED
    BY <1>4, <2>1, RowsUntouched DEF CreateThread
<1>5. ASSUME NEW m \in Messages, NEW r \in Bodies, LoadMessage(m, r) PROVE FALSE
  BY <1>2, <1>5 DEF LoadMessage, Entities
<1>6. ASSUME NEW t \in Threads, NEW s \in {"open", "closed"}, LoadThread(t, s) PROVE FALSE
  BY <1>2, <1>6 DEF LoadThread, Entities
<1>7. ASSUME NEW x \in Messages \cup Threads, SaveMessage(x) \/ SaveThread(x) PROVE FALSE
  BY <1>7, SurfaceAssumption DEF SaveMessage, SaveThread, Settled, NoEdit
<1>8. ASSUME NEW m \in Messages, NEW into \in BOOLEAN, TrashMessage(m, into)
      PROVE  Settled' /\ MessagesAdvance /\ ClosedStays
  <2>1. \A n \in Messages : messages'[n].status = messages[n].status /\ UNCHANGED sending
    BY <1>8 DEF TrashMessage, MessagesOK, MessageRow
  <2>2. \A n \in Messages : Orderly(n)
    BY <2>1 DEF Orderly
  <2> QED
    BY <1>1, <1>8, <2>2, OrderlyAdvances DEF TrashMessage
<1>9. ASSUME NEW t \in Threads, NEW into \in BOOLEAN, TrashThread(t, into)
      PROVE  Settled' /\ MessagesAdvance /\ ClosedStays
  <2>1. ClosedStays
    BY <1>9 DEF TrashThread, ClosedStays, ThreadsOK, ThreadRow
  <2> QED
    BY <1>9, <2>1, RowsUntouched DEF TrashThread
<1>10. ASSUME NEW ms, PurgeMessages(ms) PROVE Settled' /\ MessagesAdvance /\ ClosedStays
  <2>1. \A n \in Messages : Orderly(n)
    BY <1>10 DEF PurgeMessages, NoMessage, Orderly
  <2> QED
    BY <1>1, <1>10, <2>1, OrderlyAdvances DEF PurgeMessages
<1>11. ASSUME NEW ts, PurgeThreads(ts) PROVE Settled' /\ MessagesAdvance /\ ClosedStays
  <2>1. ClosedStays
    BY <1>11 DEF PurgeThreads, NoThread, ClosedStays
  <2> QED
    BY <1>11, <2>1, RowsUntouched DEF PurgeThreads
<1> QED
  BY <1>3, <1>4, <1>5, <1>6, <1>7, <1>8, <1>9, <1>10, <1>11 DEF Routes

LEMMA StepAdvances ==
  ASSUME TypeOK, NobodyUpdates, Settled, [Next]_vars
  PROVE  Settled' /\ MessagesAdvance /\ ClosedStays
<1>1. MessagesOK /\ ThreadsOK
  BY DEF TypeOK, MessagesOK, ThreadsOK, Threaded
<1>2. CASE WithDatabase \/ Build \/ UNCHANGED vars
  BY <1>2, RowsUntouched DEF WithDatabase, Build, vars, rows, ClosedStays
<1> QED
  BY <1>1, <1>2, ServiceAdvances, RoutesAdvance DEF Next

\* As long as nobody may update rows through the routes, a message only moves queued ->
\* sent -> delivered or queued -> failed and a closed thread stays closed, whatever else
\* is created, trashed, restored and purged between a send and its answer.
THEOREM LifecyclesOnlyAdvance == Spec => LifecyclesAdvance
<1> DEFINE SettledInv == NobodyUpdates => Settled
<1>1. Init => SettledInv
  BY DEF Init, Settled
<1>2. TypeOK /\ SettledInv /\ [Next]_vars => SettledInv'
  BY StepAdvances, MountStays DEF NobodyUpdates
<1>3. TypeOK /\ SettledInv /\ [Next]_vars =>
        (mount.surface = "readonly" \/ "update" \notin mount.grants =>
           /\ \A m \in Messages : Stored(m) /\ Stored(m)' =>
                \/ messages[m]'.status = messages[m].status
                \/ <<messages[m].status, messages[m]'.status>> \in
                     {<<"queued", "sent">>, <<"sent", "delivered">>, <<"queued", "failed">>}
           /\ \A t \in Threads : threads[t].status = "closed" => threads[t]'.status # "open")
  BY StepAdvances DEF NobodyUpdates, MessagesAdvance, Advances, ClosedStays
<1> QED
  BY <1>1, <1>2, <1>3, SurfaceTypeCorrect, PTL DEF Spec, LifecyclesAdvance
=============================================================================
