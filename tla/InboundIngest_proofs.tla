------------------------ MODULE InboundIngest_proofs ------------------------
(***************************************************************************)
(* Theorems of InboundIngest, for every set of calls, webhooks, channels,   *)
(* units and every interleaving of them.  The argument goes in six layers,   *)
(* each an inductive invariant that rests on the ones before it:             *)
(*   Typed     - types, and that a call past routing has a thread and a key; *)
(*   Durable   - a row, its outbox event and its call's memory agree;         *)
(*   Exclusive - an open claim holds its key's lock and has no rival row;     *)
(*   Answered  - an answer names the recorded row of the key it asked for;    *)
(*   Admitted  - a recorded webhook passed every check on its way.            *)
(*   UnitInv   - behind a fence, a call, its thread and its message share a unit. *)
(***************************************************************************)
EXTENDS InboundIngest, TLAPS

\* A call that passed validation has a key; one that passed routing, a thread.
Keyed  == \A c \in Inbound : pc[c] \notin {"idle", "failed"} => WellFormed(req[c])
Routed == \A c \in Inbound :
  pc[c] \in {"claim", "touch", "stage", "commit", "publish"} => route[c].thread_id \in ThreadIds

Typed == TypeOK /\ Keyed /\ Routed

\* The committed rows are exactly what the calls that committed remember.
RowsOfCalls ==
  \A m \in Inbound : messages[m] # NoMessage =>
    /\ pc[m] \in {"publish", "answered", "failed"}
    /\ messages[m] = ClaimedMessage(m)
    /\ req[m].external_id # None

\* A row that has a key, whichever direction it is of, is there.
KeysAreOfRows == \A m \in MessageIds : messages[m].external_id # None => Recorded(m)

PublisherRecorded == \A c \in Inbound : pc[c] = "publish" => Recorded(c)

OutboxOfRows == outbox = {EventOf(m) : m \in {n \in Inbound : Recorded(n)}}

Durable ==
  /\ RowsOfCalls
  /\ KeysAreOfRows
  /\ PublisherRecorded
  /\ OutboxOfRows
  /\ PublishedIsDurable
  /\ NoOrphanThread

\* The lock a claim takes on its key, and what it guards until the commit.
KeyLocked == \A c \in Inbound : pc[c] \in HoldsKey => keyHolder[Key(c)] = c
KeyVacant == \A c \in Inbound :
  pc[c] \in HoldsKey => KeyRows(req[c].channel, req[c].external_id) = {}

Exclusive == KeyLocked /\ KeyVacant /\ OneMessagePerKey

\* A call has no outcome before it is answered.
Unanswered == \A c \in Inbound : pc[c] # "answered" => outcome[c] = NoOutcome

Answered == Unanswered /\ AnswersNameTheRecord

\* What a call still in flight, and a recorded message, have passed.
Admitted == \A c \in Inbound :
  /\ pc[c] \in HoldsKey => Storable(c)
  /\ pc[c] = "commit" => req[c].scope \in Companies
  /\ Recorded(c) => WellFormed(req[c]) /\ Storable(c) /\ req[c].scope \in Companies

IInv == Typed /\ Durable /\ Exclusive /\ Answered /\ Admitted
----------------------------------------------------------------------------
(* Types. *)

\* Ending a transaction keeps the lock tables well typed.
LEMMA ReleaseLocksTyped ==
  ASSUME TypeOK, NEW c \in Inbound, ReleaseLocks(c)
  PROVE  /\ keyHolder' \in [Keys -> Optional(Inbound)]
         /\ rowHolder' \in [ThreadIds -> Optional(Inbound)]
BY DEF TypeOK, StoreTypeOK, ReleaseLocks, Optional

\* The fields of a webhook.
LEMMA RequestTyped ==
  ASSUME TypeOK, NEW c \in Inbound
  PROVE  /\ req[c].channel \in Channels
         /\ req[c].external_id \in Optional(ExternalIds)
         /\ req[c].party_id \in Optional(Parties)
         /\ req[c].external_ref \in Optional(Handles)
         /\ req[c].subject_type \in Optional(SubjectTypes)
         /\ req[c].subject_id \in Optional(SubjectIds)
         /\ req[c].scope \in Optional(Units)
<1>1. req[c] \in InboundMessage
  BY WebhooksAssumption DEF TypeOK
<1>2. QED
  BY <1>1 DEF InboundMessage

\* The event of a call that has routed is a MessageReceived.
LEMMA EventTyped ==
  ASSUME TypeOK, NEW c \in Inbound, route[c].thread_id \in ThreadIds
  PROVE  EventOf(c) \in Received
<1>1. route[c] \in RoutedThread
  BY DEF TypeOK
<1>2. QED
  BY <1>1, RequestTyped DEF EventOf, OrElse, Received, RoutedThread, Optional

\* A call that is past validation has a key of the unique index.
LEMMA KeyTyped ==
  ASSUME TypeOK, NEW c \in Inbound, WellFormed(req[c])
  PROVE  Key(c) \in Keys
BY RequestTyped DEF Key, Keys, WellFormed, Optional

\* An answer with a recorded row, and a route onto a thread, are well typed.
LEMMA DuplicateTyped ==
  ASSUME TypeOK, NEW c \in Inbound, NEW m \in Winner(c), AnswerDuplicate(c, m)
  PROVE  outcome' \in [Inbound -> InboundOutcome]
<1>1. m \in MessageIds
  BY DEF Winner, FoundByExternalId, KeyRows
<1>2. messages[m].thread_id \in Optional(ThreadIds)
  BY <1>1 DEF TypeOK, StoreTypeOK, MessageRow
<1>3. QED
  BY <1>1, <1>2 DEF TypeOK, AnswerDuplicate, InboundOutcome, Optional

LEMMA RouteOntoTyped ==
  ASSUME TypeOK, NEW c \in Inbound, NEW t \in ThreadIds, RouteOnto(c, t)
  PROVE  /\ route' \in [Inbound -> RoutedThread]
         /\ route'[c].thread_id \in ThreadIds
         /\ \A d \in Inbound \ {c} : route'[d] = route[d]
<1>1. threads[t] \in ThreadRow
  BY DEF TypeOK, StoreTypeOK
<1>2. QED
  BY <1>1 DEF TypeOK, RouteOnto, RoutedThread, ThreadRow, Optional

LEMMA MatchesAreThreads ==
  ASSUME NEW c \in Inbound
  PROVE  /\ MostRecent(RefMatches(c)) \subseteq ThreadIds
         /\ MostRecent(PartyMatches(c)) \subseteq ThreadIds
BY DEF MostRecent, RefMatches, PartyMatches, OpenByExternalRef, OpenByParty

\* The rows a commit writes are well typed.
LEMMA CommittedTyped ==
  ASSUME TypeOK, NEW c \in Inbound, route[c].thread_id \in ThreadIds
  PROVE  /\ TouchedThread(c) \in ThreadRow
         /\ ClaimedMessage(c) \in MessageRow
<1>1. /\ threads[route[c].thread_id] \in ThreadRow
      /\ started[c] \in Nat
  BY DEF TypeOK, StoreTypeOK
<1>2. OpenedThread(req[c].channel, req[c].party_id, req[c].external_ref,
                   req[c].subject_type, req[c].subject_id, req[c].scope) \in ThreadRow
  BY RequestTyped DEF OpenedThread, ThreadRow, Optional
<1>3. TouchedThread(c) \in ThreadRow
  BY <1>1, <1>2 DEF TouchedThread, TouchedRow, ThreadRow
<1>4. ClaimedMessage(c) \in MessageRow
  BY RequestTyped DEF ClaimedMessage, MessageRow, Optional
<1>5. QED
  BY <1>3, <1>4

\* The threads table stays well typed under the calls of ThreadLifecycle.
LEMMA LifecycleTyped ==
  ASSUME TypeOK, LifecycleStep
  PROVE  /\ threads' \in [ThreadIds -> ThreadRow]
         /\ UNCHANGED <<messages, outbox, keyHolder, rowHolder, clock>>
<1>1. ASSUME NEW t \in ThreadIds, NEW row \in ThreadRow, UpdateThread(t, row)
      PROVE  /\ threads' \in [ThreadIds -> ThreadRow]
             /\ UNCHANGED <<messages, outbox, keyHolder, rowHolder, clock>>
  BY <1>1 DEF UpdateThread, TypeOK, StoreTypeOK
<1>2. \A t \in ThreadIds : threads[t] \in ThreadRow
  BY DEF TypeOK, StoreTypeOK
<1>3. ASSUME NEW t \in Opens, NEW ch \in Channels, NEW p \in Optional(Parties),
             NEW ref \in Optional(Handles), NEW u \in Stampable, OpenThread(t, ch, p, ref, u)
      PROVE  \E row \in ThreadRow : UpdateThread(t, row)
  BY <1>3 DEF OpenThread, OpenedThread, ThreadRow, Optional, Stampable
<1>4. ASSUME NEW t \in ThreadIds, NEW st \in SubjectTypes, NEW sid \in SubjectIds,
             LinkThread(t, st, sid)
      PROVE  \E row \in ThreadRow : UpdateThread(t, row)
  BY <1>2, <1>4 DEF LinkThread, ThreadRow, Optional
<1>5. ASSUME NEW t \in ThreadIds, CloseThread(t) \/ SoftDeleteThread(t)
      PROVE  \E row \in ThreadRow : UpdateThread(t, row)
  BY <1>2, <1>5 DEF CloseThread, SoftDeleteThread, ThreadRow
<1>6. QED
  BY <1>1, <1>3, <1>4, <1>5 DEF LifecycleStep, ThreadIds

\* The initial states are well typed.
LEMMA InitTyped == Init => Typed
BY DEF Init, StoreInit, Typed, TypeOK, StoreTypeOK, Keyed, Routed, Ended, Steps,
       ThreadRow, NoThread, MessageRow, NoMessage, Optional, RoutedThread, NoRoute,
       InboundOutcome, NoOutcome
\* No step of a call, of the CRUD surface or of an idle service breaks Typed.
LEMMA StepTyped ==
  ASSUME Typed, [Next]_vars
  PROVE  Typed'
<1>. USE DEF Typed, Keyed, Routed, Goto, Ended, Steps
<1>1. ASSUME NEW c \in Inbound, Receive(c) PROVE Typed'
  BY <1>1 DEF Receive, TypeOK, StoreTypeOK, storeVars
<1>2. ASSUME NEW c \in Inbound, FastPathHit(c) PROVE Typed'
  BY <1>2, DuplicateTyped DEF FastPathHit, TypeOK, StoreTypeOK, storeVars
<1>3. ASSUME NEW c \in Inbound, FastPathMiss(c) PROVE Typed'
  BY <1>3 DEF FastPathMiss, TypeOK, StoreTypeOK, storeVars
<1>4. ASSUME NEW c \in Inbound, Begin(c) PROVE Typed'
  BY <1>4 DEF Begin, TypeOK, StoreTypeOK, storeVars
<1>5. ASSUME NEW c \in Inbound, RouteByRef(c) PROVE Typed'
  BY <1>5, RouteOntoTyped, MatchesAreThreads DEF RouteByRef, TypeOK, StoreTypeOK, storeVars
<1>6. ASSUME NEW c \in Inbound, NoRefMatch(c) PROVE Typed'
  BY <1>6 DEF NoRefMatch, TypeOK, StoreTypeOK, storeVars
<1>7. ASSUME NEW c \in Inbound, RouteByParty(c) PROVE Typed'
  BY <1>7, RouteOntoTyped, MatchesAreThreads DEF RouteByParty, TypeOK, StoreTypeOK, storeVars
<1>8. ASSUME NEW c \in Inbound, OpenRouted(c) PROVE Typed'
  BY <1>8, RequestTyped DEF OpenRouted, TypeOK, StoreTypeOK, storeVars, RoutedThread,
     ThreadIds, Optional
<1>9. ASSUME NEW c \in Inbound, OpenRefused(c) PROVE Typed'
  BY <1>9 DEF OpenRefused, TypeOK, StoreTypeOK, storeVars
<1>10. ASSUME NEW c \in Inbound, ClaimRefused(c) PROVE Typed'
  BY <1>10, ReleaseLocksTyped DEF ClaimRefused, TypeOK, StoreTypeOK
<1>11. ASSUME NEW c \in Inbound, ClaimWon(c) PROVE Typed'
  BY <1>11, KeyTyped DEF ClaimWon, TypeOK, StoreTypeOK, Optional
<1>12. ASSUME NEW c \in Inbound, ClaimLost(c) PROVE Typed'
  BY <1>12, ReleaseLocksTyped DEF ClaimLost, TypeOK, StoreTypeOK, RoutedThread, NoRoute, Optional
<1>13. ASSUME NEW c \in Inbound, RereadWinner(c) PROVE Typed'
  BY <1>13, DuplicateTyped DEF RereadWinner, TypeOK, StoreTypeOK, storeVars
<1>14. ASSUME NEW c \in Inbound, RereadMissing(c) PROVE Typed'
  BY <1>14 DEF RereadMissing, TypeOK, StoreTypeOK, storeVars
<1>15. ASSUME NEW c \in Inbound, Touch(c) PROVE Typed'
  BY <1>15 DEF Touch, TypeOK, StoreTypeOK, Optional
<1>16. ASSUME NEW c \in Inbound, NoCompanyScope(c) PROVE Typed'
  BY <1>16, ReleaseLocksTyped DEF NoCompanyScope, TypeOK, StoreTypeOK
<1>17. ASSUME NEW c \in Inbound, StageEvent(c) PROVE Typed'
  BY <1>17 DEF StageEvent, TypeOK, StoreTypeOK, storeVars
<1>18. ASSUME NEW c \in Inbound, Commit(c) PROVE Typed'
  BY <1>18, CommittedTyped, ReleaseLocksTyped, EventTyped
     DEF Commit, Staged, TypeOK, StoreTypeOK
<1>19. ASSUME NEW c \in Inbound, Publish(c) PROVE Typed'
  BY <1>19, EventTyped DEF Publish, TypeOK, StoreTypeOK, storeVars, InboundOutcome,
     Optional, MessageIds
<1>20. ASSUME NEW c \in Inbound, Crash(c) PROVE Typed'
  BY <1>20, ReleaseLocksTyped DEF Crash, TypeOK, StoreTypeOK
<1>21. ASSUME Environment PROVE Typed'
  BY <1>21, LifecycleTyped DEF Environment, callVars, TypeOK, StoreTypeOK
<1>22. CASE UNCHANGED vars
  BY <1>22 DEF vars, storeVars, callVars, TypeOK, StoreTypeOK
<1>23. QED
  BY <1>1, <1>2, <1>3, <1>4, <1>5, <1>6, <1>7, <1>8, <1>9, <1>10, <1>11, <1>12, <1>13, <1>14,
     <1>15, <1>16, <1>17, <1>18, <1>19, <1>20, <1>21, <1>22 DEF Next, CallStep, Quiescent
----------------------------------------------------------------------------
(* Durability: rows, outbox and calls agree. *)

LEMMA InitDurable == Init => Durable
BY NoneAssumption DEF Init, StoreInit, Durable, RowsOfCalls, KeysAreOfRows, PublisherRecorded, OutboxOfRows,
   PublishedIsDurable, NoOrphanThread, Recorded, NoMessage, NoThread, ThreadIds, MessageIds

\* A step that writes no message, no event and no new thread keeps Durable, as
\* long as the calls that committed keep what they remember.
LEMMA FrameDurable ==
  ASSUME Typed, Durable,
         UNCHANGED <<messages, outbox, req, published>>,
         \A m \in Inbound : pc[m] \in {"publish", "answered", "failed"} =>
            /\ pc'[m] \in {"publish", "answered", "failed"}
            /\ route'[m] = route[m],
         \A m \in Inbound : pc'[m] = "publish" => pc[m] = "publish",
         \A t \in Inbound : threads'[t].status # "absent" => threads[t].status # "absent"
  PROVE  Durable'
<1>1. \A m \in Inbound : Recorded(m) => messages[m] # NoMessage
  BY DEF Recorded, NoMessage
<1>2. \A m \in MessageIds : Recorded(m)' <=> Recorded(m)
  BY DEF Recorded
<1>3. \A m \in Inbound : Recorded(m) => route'[m] = route[m]
  BY <1>1 DEF Durable, RowsOfCalls, MessageIds
<1>4. RowsOfCalls' /\ KeysAreOfRows'
  BY <1>2 DEF Durable, RowsOfCalls, KeysAreOfRows, ClaimedMessage
<1>5. PublisherRecorded'
  BY <1>2 DEF Durable, PublisherRecorded, MessageIds
<1>6. OutboxOfRows'
  <2>1. \A m \in Inbound : Recorded(m) => EventOf(m)' = EventOf(m)
    BY <1>3 DEF EventOf
  <2>2. QED
    BY <1>2, <2>1 DEF Durable, OutboxOfRows, MessageIds
<1>7. PublishedIsDurable'
  BY DEF Durable, PublishedIsDurable
<1>8. NoOrphanThread'
  BY DEF Durable, NoOrphanThread
<1>9. QED
  BY <1>4, <1>5, <1>6, <1>7, <1>8 DEF Durable

\* The commit makes the row, its event and its thread appear in one instant.
LEMMA CommitDurable ==
  ASSUME Typed, Durable, NEW c \in Inbound, Commit(c)
  PROVE  Durable'
<1>1. /\ pc[c] = "commit"
      /\ pc' = [pc EXCEPT ![c] = "publish"]
      /\ messages' = [messages EXCEPT ![c] = ClaimedMessage(c)]
      /\ threads' = [threads EXCEPT ![route[c].thread_id] = TouchedThread(c)]
      /\ outbox' = outbox \cup {EventOf(c)}
      /\ UNCHANGED <<req, route, published>>
  BY DEF Commit, Goto, Staged
<1>2. /\ pc' \in [Inbound -> Steps]
      /\ c \in DOMAIN messages /\ c \in DOMAIN pc
      /\ DOMAIN threads = ThreadIds
      /\ route[c].thread_id \in ThreadIds
      /\ req[c].external_id # None
  BY <1>1, StepTyped DEF Typed, TypeOK, StoreTypeOK, MessageIds, Routed, Keyed, WellFormed,
     Ended, Steps
<1>3. messages[c] = NoMessage
  BY <1>1 DEF Durable, RowsOfCalls, MessageIds
<1>4. /\ Recorded(c)'
      /\ \A m \in Inbound \ {c} : Recorded(m)' <=> Recorded(m)
  BY <1>1, <1>2 DEF Recorded, ClaimedMessage
<1>5. RowsOfCalls' /\ KeysAreOfRows'
  BY <1>1, <1>2, <1>4 DEF Durable, RowsOfCalls, KeysAreOfRows, Recorded, ClaimedMessage
<1>6. PublisherRecorded'
  BY <1>1, <1>2, <1>4 DEF Durable, PublisherRecorded
<1>7. OutboxOfRows'
  <2>1. \A m \in Inbound : EventOf(m)' = EventOf(m)
    BY <1>1 DEF EventOf
  <2>2. QED
    BY <1>1, <1>4, <2>1 DEF Durable, OutboxOfRows
<1>8. PublishedIsDurable'
  BY <1>1 DEF Durable, PublishedIsDurable
<1>9. NoOrphanThread'
  <2>1. CASE route[c].thread_id = c
    BY <1>1, <1>2, <2>1 DEF Durable, NoOrphanThread, ClaimedMessage
  <2>2. CASE route[c].thread_id # c
    <3>1. TouchedThread(c).status = threads[route[c].thread_id].status
      BY <1>2, <2>2 DEF TouchedThread, TouchedRow, Typed, TypeOK, StoreTypeOK, ThreadRow
    <3>2. threads[c].status = "absent"
      BY <1>3, NoneAssumption DEF Durable, NoOrphanThread, NoMessage
    <3>3. QED
      BY <1>1, <1>2, <2>2, <3>1, <3>2 DEF Durable, NoOrphanThread
  <2>3. QED
    BY <2>1, <2>2
<1>10. QED
  BY <1>5, <1>6, <1>7, <1>8, <1>9 DEF Durable
\* The environment opens no thread an inbound call could have opened.
LEMMA LifecycleOpensNoInbound ==
  ASSUME Typed, LifecycleStep, NEW t \in Inbound, threads'[t].status # "absent"
  PROVE  threads[t].status # "absent"
<1>1. /\ t \notin Opens
      /\ threads \in [ThreadIds -> ThreadRow]
      /\ t \in ThreadIds
  BY UuidAssumption DEF Typed, TypeOK, StoreTypeOK, ThreadIds
<1>2. ASSUME NEW o \in Opens, NEW row, UpdateThread(o, row)
      PROVE  threads'[t] = threads[t]
  BY <1>1, <1>2 DEF UpdateThread
<1>3. ASSUME NEW u \in ThreadIds, NEW row, UpdateThread(u, row), threads[u].status # "absent"
      PROVE  threads[t].status # "absent"
  BY <1>1, <1>3 DEF UpdateThread
<1>4. CASE \E o \in Opens, ch \in Channels, p \in Optional(Parties), ref \in Optional(Handles),
              u \in Stampable : OpenThread(o, ch, p, ref, u)
  BY <1>2, <1>4 DEF OpenThread
<1>5. CASE \E u \in ThreadIds, st \in SubjectTypes, sid \in SubjectIds : LinkThread(u, st, sid)
  BY <1>3, <1>5 DEF LinkThread, Linkable
<1>6. CASE \E u \in ThreadIds : CloseThread(u) \/ SoftDeleteThread(u)
  BY <1>3, <1>6 DEF CloseThread, Closable, SoftDeleteThread
<1>7. QED
  BY <1>4, <1>5, <1>6 DEF LifecycleStep

\* A step of one call that neither commits nor publishes.
LEMMA CallKeepsDurable ==
  ASSUME Typed, Durable, NEW c \in Inbound, NEW to \in Steps,
         pc[c] \notin Ended, to # "publish", pc[c] = "publish" => to = "failed",
         pc' = [pc EXCEPT ![c] = to],
         UNCHANGED <<threads, messages, outbox, req, published>>,
         \A m \in Inbound \ {c} : route'[m] = route[m],
         pc[c] = "publish" => UNCHANGED route
  PROVE  Durable'
<1>1. pc \in [Inbound -> Steps]
  BY DEF Typed, TypeOK
<1>2. QED
  BY <1>1, FrameDurable DEF Ended

\* Only Commit writes rows and events, and only Publish feeds the sink.
LEMMA StepDurable ==
  ASSUME Typed, Durable, [Next]_vars
  PROVE  Durable'
<1>. USE DEF Goto, Ended, Steps
<1>0. pc \in [Inbound -> Steps] /\ route \in [Inbound -> RoutedThread]
  BY DEF Typed, TypeOK
<1>1. ASSUME NEW c \in Inbound, Receive(c) PROVE Durable'
  BY <1>0, <1>1, CallKeepsDurable DEF Receive, storeVars
<1>2. ASSUME NEW c \in Inbound, FastPathHit(c) PROVE Durable'
  BY <1>0, <1>2, CallKeepsDurable DEF FastPathHit, storeVars
<1>3. ASSUME NEW c \in Inbound, FastPathMiss(c) PROVE Durable'
  BY <1>0, <1>3, CallKeepsDurable DEF FastPathMiss, storeVars
<1>4. ASSUME NEW c \in Inbound, Begin(c) PROVE Durable'
  BY <1>0, <1>4, CallKeepsDurable DEF Begin
<1>5. ASSUME NEW c \in Inbound, RouteByRef(c) PROVE Durable'
  BY <1>0, <1>5, CallKeepsDurable DEF RouteByRef, RouteOnto, storeVars
<1>6. ASSUME NEW c \in Inbound, NoRefMatch(c) PROVE Durable'
  BY <1>0, <1>6, CallKeepsDurable DEF NoRefMatch, storeVars
<1>7. ASSUME NEW c \in Inbound, RouteByParty(c) PROVE Durable'
  BY <1>0, <1>7, CallKeepsDurable DEF RouteByParty, RouteOnto, storeVars
<1>8. ASSUME NEW c \in Inbound, OpenRouted(c) PROVE Durable'
  BY <1>0, <1>8, CallKeepsDurable DEF OpenRouted, storeVars
<1>9. ASSUME NEW c \in Inbound, OpenRefused(c) PROVE Durable'
  BY <1>0, <1>9, CallKeepsDurable DEF OpenRefused, storeVars
<1>10. ASSUME NEW c \in Inbound, ClaimRefused(c) PROVE Durable'
  BY <1>0, <1>10, CallKeepsDurable DEF ClaimRefused
<1>11. ASSUME NEW c \in Inbound, ClaimWon(c) PROVE Durable'
  BY <1>0, <1>11, CallKeepsDurable DEF ClaimWon
<1>12. ASSUME NEW c \in Inbound, ClaimLost(c) PROVE Durable'
  BY <1>0, <1>12, CallKeepsDurable DEF ClaimLost
<1>13. ASSUME NEW c \in Inbound, RereadWinner(c) PROVE Durable'
  BY <1>0, <1>13, CallKeepsDurable DEF RereadWinner, storeVars
<1>14. ASSUME NEW c \in Inbound, RereadMissing(c) PROVE Durable'
  BY <1>0, <1>14, CallKeepsDurable DEF RereadMissing, storeVars
<1>15. ASSUME NEW c \in Inbound, Touch(c) PROVE Durable'
  BY <1>0, <1>15, CallKeepsDurable DEF Touch
<1>16. ASSUME NEW c \in Inbound, NoCompanyScope(c) PROVE Durable'
  BY <1>0, <1>16, CallKeepsDurable DEF NoCompanyScope
<1>17. ASSUME NEW c \in Inbound, StageEvent(c) PROVE Durable'
  BY <1>0, <1>17, CallKeepsDurable DEF StageEvent, storeVars
<1>18. ASSUME NEW c \in Inbound, Commit(c) PROVE Durable'
  BY <1>18, CommitDurable
<1>19. ASSUME NEW c \in Inbound, Publish(c) PROVE Durable'
  <2>1. /\ pc' = [pc EXCEPT ![c] = "answered"] /\ pc[c] = "publish"
        /\ UNCHANGED <<threads, messages, outbox, req, route>>
    BY <1>19 DEF Publish, storeVars
  <2>2. RowsOfCalls' /\ KeysAreOfRows' /\ PublisherRecorded' /\ NoOrphanThread' /\ OutboxOfRows'
    BY <1>0, <2>1 DEF Durable, RowsOfCalls, KeysAreOfRows, PublisherRecorded, NoOrphanThread, OutboxOfRows,
       Recorded, ClaimedMessage, EventOf
  <2>3. EventOf(c) \in outbox
    BY <2>1 DEF Durable, PublisherRecorded, OutboxOfRows
  <2>4. PublishedIsDurable'
    BY <1>19, <2>1, <2>3 DEF Publish, Durable, PublishedIsDurable
  <2>5. QED
    BY <2>2, <2>4 DEF Durable
<1>20. ASSUME NEW c \in Inbound, Crash(c) PROVE Durable'
  BY <1>0, <1>20, CallKeepsDurable DEF Crash
<1>21. ASSUME Environment PROVE Durable'
  BY <1>21, FrameDurable, LifecycleTyped, LifecycleOpensNoInbound DEF Environment, callVars, Typed
<1>22. CASE UNCHANGED vars
  BY <1>22, FrameDurable DEF vars, storeVars, callVars
<1>23. QED
  BY <1>1, <1>2, <1>3, <1>4, <1>5, <1>6, <1>7, <1>8, <1>9, <1>10, <1>11, <1>12, <1>13, <1>14,
     <1>15, <1>16, <1>17, <1>18, <1>19, <1>20, <1>21, <1>22 DEF Next, CallStep, Quiescent

\* What Durable says of the event of a recorded message.
LEMMA DurableEvents ==
  ASSUME Durable
  PROVE  EventIffRecorded
<1>1. \A m \in Inbound : Recorded(m) => messages[m] = ClaimedMessage(m)
  <2>1. \A m \in Inbound : Recorded(m) => messages[m] # NoMessage
    BY DEF Recorded, NoMessage
  <2>2. QED
    BY <2>1 DEF Durable, RowsOfCalls, MessageIds
<1>2. \A m \in Inbound :
        /\ EventOf(m).message_id = m
        /\ EventOf(m).thread_id = ClaimedMessage(m).thread_id
  BY DEF EventOf, ClaimedMessage
<1>3. \A e \in outbox : \E m \in Inbound : Recorded(m) /\ e = EventOf(m)
  BY DEF Durable, OutboxOfRows
<1>4. \A m \in Inbound : Recorded(m) => EventOf(m) \in outbox
  BY DEF Durable, OutboxOfRows
<1>5. QED
  BY <1>1, <1>2, <1>3, <1>4 DEF EventIffRecorded

----------------------------------------------------------------------------
(* Exclusion: a key is recorded once. *)

LEMMA InitExclusive == Init => Exclusive
BY DEF Init, StoreInit, Exclusive, KeyLocked, KeyVacant, OneMessagePerKey, HoldsKey, Recorded,
   NoMessage, MessageIds

\* A step that writes no message and enters no claim keeps Exclusive, as long as
\* the calls with an open claim keep their lock.
LEMMA FrameExclusive ==
  ASSUME Exclusive,
         UNCHANGED <<messages, req>>,
         \A d \in Inbound : pc'[d] \in HoldsKey =>
            /\ pc[d] \in HoldsKey
            /\ keyHolder'[Key(d)] = keyHolder[Key(d)]
  PROVE  Exclusive'
<1>1. \A d \in Inbound : Key(d)' = Key(d)
  BY DEF Key
<1>2. KeyLocked'
  BY <1>1 DEF Exclusive, KeyLocked
<1>3. KeyVacant'
  BY DEF Exclusive, KeyVacant, KeyRows
<1>4. OneMessagePerKey'
  BY DEF Exclusive, OneMessagePerKey, Recorded, SameKey
<1>5. QED
  BY <1>2, <1>3, <1>4 DEF Exclusive

\* A step of call c that keeps the lock table, and one that ends c's transaction.
LEMMA CallKeepsExclusive ==
  ASSUME Typed, Exclusive, NEW c \in Inbound, NEW to \in Steps,
         pc' = [pc EXCEPT ![c] = to],
         to \in HoldsKey => pc[c] \in HoldsKey,
         UNCHANGED <<messages, req, keyHolder>>
  PROVE  Exclusive'
BY FrameExclusive DEF Typed, TypeOK

LEMMA EndKeepsExclusive ==
  ASSUME Typed, Exclusive, NEW c \in Inbound, NEW to \in Steps \ HoldsKey,
         pc' = [pc EXCEPT ![c] = to],
         ReleaseLocks(c),
         UNCHANGED <<messages, req>>
  PROVE  Exclusive'
<1>1. ASSUME NEW d \in Inbound, pc'[d] \in HoldsKey
      PROVE  /\ pc[d] \in HoldsKey
             /\ keyHolder'[Key(d)] = keyHolder[Key(d)]
  <2>1. d # c /\ pc[d] \in HoldsKey
    BY <1>1 DEF Typed, TypeOK
  <2>2. Key(d) \in Keys
    BY <2>1, KeyTyped DEF Typed, Keyed, HoldsKey, Ended
  <2>3. keyHolder[Key(d)] # c
    BY <2>1 DEF Exclusive, KeyLocked
  <2>4. QED
    BY <2>1, <2>2, <2>3 DEF ReleaseLocks
<1>2. QED
  BY <1>1, FrameExclusive
\* The claim takes a free lock on a key no row has.
LEMMA ClaimExclusive ==
  ASSUME Typed, Exclusive, NEW c \in Inbound, ClaimWon(c)
  PROVE  Exclusive'
<1>1. /\ pc[c] = "claim" /\ pc' = [pc EXCEPT ![c] = "touch"]
      /\ KeyRows(req[c].channel, req[c].external_id) = {}
      /\ keyHolder[Key(c)] = None
      /\ keyHolder' = [keyHolder EXCEPT ![Key(c)] = c]
      /\ UNCHANGED <<messages, req>>
  BY DEF ClaimWon, Goto, KeyIsTaken, KeyIsFree
<1>2. pc \in [Inbound -> Steps] /\ keyHolder \in [Keys -> Optional(Inbound)]
  BY DEF Typed, TypeOK, StoreTypeOK
<1>3. \A d \in Inbound : Key(d)' = Key(d)
  BY <1>1 DEF Key
<1>4. \A d \in Inbound \ {c} : pc'[d] = pc[d]
  BY <1>1, <1>2
<1>5. Key(c) \in Keys
  BY <1>1, KeyTyped DEF Typed, Keyed, Ended
<1>6. KeyLocked'
  <2>1. ASSUME NEW d \in Inbound \ {c}, pc[d] \in HoldsKey
        PROVE  Key(d) # Key(c)
    BY <1>1, <2>1, NoneAssumption DEF Exclusive, KeyLocked
  <2>2. QED
    BY <1>1, <1>2, <1>3, <1>4, <1>5, <2>1 DEF Exclusive, KeyLocked
<1>7. KeyVacant'
  BY <1>1, <1>4 DEF Exclusive, KeyVacant, KeyRows
<1>8. OneMessagePerKey'
  BY <1>1 DEF Exclusive, OneMessagePerKey, Recorded, SameKey
<1>9. QED
  BY <1>6, <1>7, <1>8 DEF Exclusive

\* The commit writes the only row of its key; no other claim on it is open.
LEMMA CommitExclusive ==
  ASSUME Typed, Durable, Exclusive, NEW c \in Inbound, Commit(c)
  PROVE  Exclusive'
<1>1. /\ pc[c] = "commit" /\ pc' = [pc EXCEPT ![c] = "publish"]
      /\ messages' = [messages EXCEPT ![c] = ClaimedMessage(c)]
      /\ ReleaseLocks(c)
      /\ UNCHANGED req
  BY DEF Commit, Goto
<1>2. /\ pc \in [Inbound -> Steps]
      /\ messages \in [MessageIds -> MessageRow]
      /\ c \in MessageIds
  BY DEF Typed, TypeOK, StoreTypeOK, MessageIds
<1>3. \A d \in Inbound : Key(d)' = Key(d)
  BY <1>1 DEF Key
<1>4. ASSUME NEW d \in Inbound, pc'[d] \in HoldsKey
      PROVE  d # c /\ pc[d] \in HoldsKey /\ Key(d) \in Keys /\ Key(d) # Key(c)
  <2>1. d # c /\ pc[d] \in HoldsKey
    BY <1>1, <1>2, <1>4 DEF HoldsKey
  <2>2. Key(d) \in Keys
    BY <2>1, KeyTyped DEF Typed, Keyed, HoldsKey, Ended
  <2>3. keyHolder[Key(d)] = d /\ keyHolder[Key(c)] = c
    BY <1>1, <2>1 DEF Exclusive, KeyLocked, HoldsKey
  <2>4. QED
    BY <2>1, <2>2, <2>3
<1>5. KeyLocked'
  BY <1>1, <1>3, <1>4 DEF Exclusive, KeyLocked, ReleaseLocks
<1>6. KeyVacant'
  <2>1. ASSUME NEW d \in Inbound, pc'[d] \in HoldsKey,
               NEW m \in MessageIds, m \in KeyRows(req[d].channel, req[d].external_id)'
        PROVE  FALSE
    <3>1. CASE m = c
      BY <1>1, <1>2, <1>4, <2>1, <3>1 DEF KeyRows, ClaimedMessage, Key
    <3>2. CASE m # c
      BY <1>1, <1>2, <1>4, <2>1, <3>2 DEF KeyRows, Exclusive, KeyVacant
    <3>3. QED
      BY <3>1, <3>2
  <2>2. QED
    BY <2>1 DEF KeyVacant, KeyRows
<1>7. OneMessagePerKey'
  <2>1. KeyRows(req[c].channel, req[c].external_id) = {}
    BY <1>1 DEF Exclusive, KeyVacant, HoldsKey
  <2>2. ASSUME NEW m \in Inbound \ {c}
        PROVE  ~(SameKey(m, c)' \/ SameKey(c, m)')
    BY <1>1, <1>2, <2>1 DEF SameKey, KeyRows, ClaimedMessage, MessageIds
  <2>3. ASSUME NEW m \in Inbound \ {c}, NEW n \in Inbound \ {c},
               (Recorded(m) /\ Recorded(n) /\ SameKey(m, n))'
        PROVE  m = n
    BY <1>1, <1>2, <2>3 DEF Exclusive, OneMessagePerKey, Recorded, SameKey
  <2>4. QED
    BY <2>2, <2>3 DEF OneMessagePerKey
<1>8. QED
  BY <1>5, <1>6, <1>7 DEF Exclusive

LEMMA StepExclusive ==
  ASSUME Typed, Durable, Exclusive, [Next]_vars
  PROVE  Exclusive'
<1>. USE DEF Goto, HoldsKey, Steps
<1>1. ASSUME NEW c \in Inbound, Receive(c) PROVE Exclusive'
  BY <1>1, CallKeepsExclusive DEF Receive, storeVars
<1>2. ASSUME NEW c \in Inbound, FastPathHit(c) PROVE Exclusive'
  BY <1>2, CallKeepsExclusive DEF FastPathHit, storeVars
<1>3. ASSUME NEW c \in Inbound, FastPathMiss(c) PROVE Exclusive'
  BY <1>3, CallKeepsExclusive DEF FastPathMiss, storeVars
<1>4. ASSUME NEW c \in Inbound, Begin(c) PROVE Exclusive'
  BY <1>4, CallKeepsExclusive DEF Begin
<1>5. ASSUME NEW c \in Inbound, RouteByRef(c) PROVE Exclusive'
  BY <1>5, CallKeepsExclusive DEF RouteByRef, storeVars
<1>6. ASSUME NEW c \in Inbound, NoRefMatch(c) PROVE Exclusive'
  BY <1>6, CallKeepsExclusive DEF NoRefMatch, storeVars
<1>7. ASSUME NEW c \in Inbound, RouteByParty(c) PROVE Exclusive'
  BY <1>7, CallKeepsExclusive DEF RouteByParty, storeVars
<1>8. ASSUME NEW c \in Inbound, OpenRouted(c) PROVE Exclusive'
  BY <1>8, CallKeepsExclusive DEF OpenRouted, storeVars
<1>9. ASSUME NEW c \in Inbound, OpenRefused(c) PROVE Exclusive'
  BY <1>9, CallKeepsExclusive DEF OpenRefused, storeVars
<1>10. ASSUME NEW c \in Inbound, ClaimRefused(c) PROVE Exclusive'
  BY <1>10, EndKeepsExclusive DEF ClaimRefused
<1>11. ASSUME NEW c \in Inbound, ClaimWon(c) PROVE Exclusive'
  BY <1>11, ClaimExclusive
<1>12. ASSUME NEW c \in Inbound, ClaimLost(c) PROVE Exclusive'
  BY <1>12, EndKeepsExclusive DEF ClaimLost
<1>13. ASSUME NEW c \in Inbound, RereadWinner(c) PROVE Exclusive'
  BY <1>13, CallKeepsExclusive DEF RereadWinner, storeVars
<1>14. ASSUME NEW c \in Inbound, RereadMissing(c) PROVE Exclusive'
  BY <1>14, CallKeepsExclusive DEF RereadMissing, storeVars
<1>15. ASSUME NEW c \in Inbound, Touch(c) PROVE Exclusive'
  BY <1>15, CallKeepsExclusive DEF Touch
<1>16. ASSUME NEW c \in Inbound, NoCompanyScope(c) PROVE Exclusive'
  BY <1>16, EndKeepsExclusive DEF NoCompanyScope
<1>17. ASSUME NEW c \in Inbound, StageEvent(c) PROVE Exclusive'
  BY <1>17, CallKeepsExclusive DEF StageEvent, storeVars
<1>18. ASSUME NEW c \in Inbound, Commit(c) PROVE Exclusive'
  BY <1>18, CommitExclusive
<1>19. ASSUME NEW c \in Inbound, Publish(c) PROVE Exclusive'
  BY <1>19, CallKeepsExclusive DEF Publish, storeVars
<1>20. ASSUME NEW c \in Inbound, Crash(c) PROVE Exclusive'
  BY <1>20, EndKeepsExclusive DEF Crash
<1>21. ASSUME Environment PROVE Exclusive'
  BY <1>21, FrameExclusive, LifecycleTyped DEF Environment, callVars, Typed
<1>22. CASE UNCHANGED vars
  BY <1>22, FrameExclusive DEF vars, storeVars, callVars
<1>23. QED
  BY <1>1, <1>2, <1>3, <1>4, <1>5, <1>6, <1>7, <1>8, <1>9, <1>10, <1>11, <1>12, <1>13, <1>14,
     <1>15, <1>16, <1>17, <1>18, <1>19, <1>20, <1>21, <1>22 DEF Next, CallStep, Quiescent

----------------------------------------------------------------------------
(* Answers: every caller is told the truth. *)

\* AnswersNameTheRecord, of one call.
Truthful(c) ==
  /\ outcome[c].message_id \in MessageIds
  /\ Recorded(outcome[c].message_id)
  /\ messages[outcome[c].message_id].channel = req[c].channel
  /\ messages[outcome[c].message_id].external_id = req[c].external_id
  /\ outcome[c].thread_id = messages[outcome[c].message_id].thread_id
  /\ outcome[c].duplicate <=> outcome[c].message_id # c

LEMMA TruthfulAnswers ==
  AnswersNameTheRecord <=> \A c \in Inbound : pc[c] = "answered" => Truthful(c)
BY DEF AnswersNameTheRecord, Truthful, Key

LEMMA InitAnswered == Init => Answered
BY DEF Init, Answered, Unanswered, AnswersNameTheRecord

\* A row found for a call's key is there, and not the call's own.
LEMMA WinnerRecorded ==
  ASSUME Typed, Durable, NEW c \in Inbound, pc[c] \in {"lookup", "reread"},
         NEW m \in Winner(c)
  PROVE  /\ m \in MessageIds /\ m # c
         /\ messages[m].channel = req[c].channel
         /\ messages[m].external_id = req[c].external_id
         /\ Recorded(m) /\ ~Recorded(c)
<1>1. /\ m \in MessageIds
      /\ messages[m].channel = req[c].channel
      /\ messages[m].external_id = req[c].external_id
  BY DEF Winner, FoundByExternalId, KeyRows
<1>2. req[c].external_id # None
  BY DEF Typed, Keyed, WellFormed
<1>3. Recorded(m)
  BY <1>1, <1>2 DEF Durable, KeysAreOfRows
<1>4. messages[c] = NoMessage
  BY DEF Durable, RowsOfCalls
<1>5. ~Recorded(c)
  BY <1>4 DEF Recorded, NoMessage
<1>6. QED
  BY <1>1, <1>3, <1>5

\* Recorded rows never change and answers are given once.
LEMMA FrameAnswered ==
  ASSUME Answered,
         UNCHANGED <<req, outcome>>,
         \A d \in Inbound : pc'[d] = "answered" <=> pc[d] = "answered",
         \A m \in MessageIds : Recorded(m) => messages'[m] = messages[m]
  PROVE  Answered'
<1>1. Unanswered'
  BY DEF Answered, Unanswered
<1>2. AnswersNameTheRecord'
  BY DEF Answered, AnswersNameTheRecord, Recorded, Key
<1>3. QED
  BY <1>1, <1>2 DEF Answered

LEMMA CallKeepsAnswered ==
  ASSUME Typed, Answered, NEW c \in Inbound, NEW to \in Steps \ {"answered"},
         pc' = [pc EXCEPT ![c] = to], pc[c] # "answered",
         UNCHANGED <<messages, req, outcome>>
  PROVE  Answered'
BY FrameAnswered DEF Typed, TypeOK

\* Both ways to find the winner, the fast path and the re-read, answer with it.
LEMMA DuplicateAnswered ==
  ASSUME Typed, Durable, Answered, NEW c \in Inbound, pc[c] \in {"lookup", "reread"},
         pc' = [pc EXCEPT ![c] = "answered"],
         NEW m \in Winner(c), AnswerDuplicate(c, m),
         UNCHANGED <<messages, req>>
  PROVE  Answered'
<1>1. /\ pc \in [Inbound -> Steps]
      /\ outcome \in [Inbound -> InboundOutcome]
  BY DEF Typed, TypeOK
<1>2. outcome'[c] = [thread_id |-> messages[m].thread_id, message_id |-> m, duplicate |-> TRUE]
  BY <1>1 DEF AnswerDuplicate
<1>3. \A d \in Inbound \ {c} : outcome'[d] = outcome[d] /\ pc'[d] = pc[d]
  BY <1>1 DEF AnswerDuplicate
<1>4. Unanswered'
  BY <1>1, <1>3 DEF Answered, Unanswered
<1>5. Truthful(c)'
  <2>1. m \in MessageIds /\ m # c /\ Recorded(m)
    BY WinnerRecorded
  <2>2. messages[m].channel = req[c].channel /\ messages[m].external_id = req[c].external_id
    BY DEF Winner, FoundByExternalId, KeyRows
  <2>3. QED
    BY <1>2, <2>1, <2>2 DEF Truthful, Recorded
<1>6. \A d \in Inbound \ {c} : pc'[d] = "answered" => Truthful(d)'
  BY <1>3, TruthfulAnswers DEF Answered, Truthful, Recorded
<1>7. AnswersNameTheRecord'
  BY <1>5, <1>6 DEF AnswersNameTheRecord, Truthful, Key
<1>8. QED
  BY <1>4, <1>7 DEF Answered

\* Only the call that committed the row answers that it is no duplicate.
LEMMA PublishAnswered ==
  ASSUME Typed, Durable, Answered, NEW c \in Inbound, Publish(c)
  PROVE  Answered'
<1>1. /\ pc \in [Inbound -> Steps]
      /\ outcome \in [Inbound -> InboundOutcome]
      /\ pc[c] = "publish" /\ pc' = [pc EXCEPT ![c] = "answered"]
      /\ UNCHANGED <<messages, req>>
  BY DEF Typed, TypeOK, Publish, Goto, storeVars
<1>2. outcome'[c] = [thread_id |-> route[c].thread_id, message_id |-> c, duplicate |-> FALSE]
  BY <1>1 DEF Publish
<1>3. \A d \in Inbound \ {c} : outcome'[d] = outcome[d] /\ pc'[d] = pc[d]
  BY <1>1 DEF Publish
<1>4. Unanswered'
  BY <1>1, <1>3 DEF Answered, Unanswered
<1>5. messages[c] = ClaimedMessage(c) /\ Recorded(c) /\ c \in MessageIds
  <2>1. Recorded(c)
    BY <1>1 DEF Durable, PublisherRecorded
  <2>2. messages[c] # NoMessage
    BY <2>1 DEF Recorded, NoMessage
  <2>3. QED
    BY <2>1, <2>2 DEF Durable, RowsOfCalls, MessageIds
<1>6. Truthful(c)'
  BY <1>1, <1>2, <1>5 DEF Truthful, Recorded, ClaimedMessage
<1>7. \A d \in Inbound \ {c} : pc'[d] = "answered" => Truthful(d)'
  BY <1>1, <1>3, TruthfulAnswers DEF Answered, Truthful, Recorded
<1>8. AnswersNameTheRecord'
  BY <1>6, <1>7 DEF AnswersNameTheRecord, Truthful, Key
<1>9. QED
  BY <1>4, <1>8 DEF Answered
LEMMA StepAnswered ==
  ASSUME Typed, Durable, Answered, [Next]_vars
  PROVE  Answered'
<1>. USE DEF Goto, Ended, Steps
<1>1. ASSUME NEW c \in Inbound, Receive(c) PROVE Answered'
  BY <1>1, CallKeepsAnswered DEF Receive, storeVars
<1>2. ASSUME NEW c \in Inbound, FastPathHit(c) PROVE Answered'
  BY <1>2, DuplicateAnswered DEF FastPathHit, storeVars
<1>3. ASSUME NEW c \in Inbound, FastPathMiss(c) PROVE Answered'
  BY <1>3, CallKeepsAnswered DEF FastPathMiss, storeVars
<1>4. ASSUME NEW c \in Inbound, Begin(c) PROVE Answered'
  BY <1>4, CallKeepsAnswered DEF Begin
<1>5. ASSUME NEW c \in Inbound, RouteByRef(c) PROVE Answered'
  BY <1>5, CallKeepsAnswered DEF RouteByRef, storeVars
<1>6. ASSUME NEW c \in Inbound, NoRefMatch(c) PROVE Answered'
  BY <1>6, CallKeepsAnswered DEF NoRefMatch, storeVars
<1>7. ASSUME NEW c \in Inbound, RouteByParty(c) PROVE Answered'
  BY <1>7, CallKeepsAnswered DEF RouteByParty, storeVars
<1>8. ASSUME NEW c \in Inbound, OpenRouted(c) PROVE Answered'
  BY <1>8, CallKeepsAnswered DEF OpenRouted, storeVars
<1>9. ASSUME NEW c \in Inbound, OpenRefused(c) PROVE Answered'
  BY <1>9, CallKeepsAnswered DEF OpenRefused, storeVars
<1>10. ASSUME NEW c \in Inbound, ClaimRefused(c) PROVE Answered'
  BY <1>10, CallKeepsAnswered DEF ClaimRefused
<1>11. ASSUME NEW c \in Inbound, ClaimWon(c) PROVE Answered'
  BY <1>11, CallKeepsAnswered DEF ClaimWon
<1>12. ASSUME NEW c \in Inbound, ClaimLost(c) PROVE Answered'
  BY <1>12, CallKeepsAnswered DEF ClaimLost
<1>13. ASSUME NEW c \in Inbound, RereadWinner(c) PROVE Answered'
  BY <1>13, DuplicateAnswered DEF RereadWinner, storeVars
<1>14. ASSUME NEW c \in Inbound, RereadMissing(c) PROVE Answered'
  BY <1>14, CallKeepsAnswered DEF RereadMissing, storeVars
<1>15. ASSUME NEW c \in Inbound, Touch(c) PROVE Answered'
  BY <1>15, CallKeepsAnswered DEF Touch
<1>16. ASSUME NEW c \in Inbound, NoCompanyScope(c) PROVE Answered'
  BY <1>16, CallKeepsAnswered DEF NoCompanyScope
<1>17. ASSUME NEW c \in Inbound, StageEvent(c) PROVE Answered'
  BY <1>17, CallKeepsAnswered DEF StageEvent, storeVars
<1>18. ASSUME NEW c \in Inbound, Commit(c) PROVE Answered'
  <2>1. messages[c] = NoMessage
    BY <1>18 DEF Commit, Durable, RowsOfCalls, MessageIds
  <2>2. \A m \in MessageIds : Recorded(m) => messages'[m] = messages[m]
    BY <1>18, <2>1 DEF Commit, Recorded, NoMessage, Typed, TypeOK, StoreTypeOK
  <2>3. QED
    BY <1>18, <2>2, FrameAnswered DEF Commit, Typed, TypeOK
<1>19. ASSUME NEW c \in Inbound, Publish(c) PROVE Answered'
  BY <1>19, PublishAnswered
<1>20. ASSUME NEW c \in Inbound, Crash(c) PROVE Answered'
  BY <1>20, CallKeepsAnswered DEF Crash
<1>21. ASSUME Environment PROVE Answered'
  BY <1>21, FrameAnswered, LifecycleTyped DEF Environment, callVars, Typed
<1>22. CASE UNCHANGED vars
  BY <1>22, FrameAnswered DEF vars, storeVars, callVars
<1>23. QED
  BY <1>1, <1>2, <1>3, <1>4, <1>5, <1>6, <1>7, <1>8, <1>9, <1>10, <1>11, <1>12, <1>13, <1>14,
     <1>15, <1>16, <1>17, <1>18, <1>19, <1>20, <1>21, <1>22 DEF Next, CallStep, Quiescent

----------------------------------------------------------------------------
(* Admission: what was refused is not recorded. *)

LEMMA InitAdmitted == Init => Admitted
BY DEF Init, StoreInit, Admitted, HoldsKey, Recorded, NoMessage, MessageIds, Storable

\* A step that records nothing and takes no call past a check.
LEMMA FrameAdmitted ==
  ASSUME Admitted,
         UNCHANGED <<req, messages>>,
         \A c \in Inbound : pc'[c] \in HoldsKey => pc[c] \in HoldsKey,
         \A c \in Inbound : pc'[c] = "commit" => pc[c] = "commit"
  PROVE  Admitted'
BY DEF Admitted, Storable, Recorded

LEMMA CallKeepsAdmitted ==
  ASSUME Typed, Admitted, NEW c \in Inbound, NEW to \in Steps,
         pc' = [pc EXCEPT ![c] = to],
         to \in HoldsKey => pc[c] \in HoldsKey /\ to # "commit",
         UNCHANGED <<req, messages>>
  PROVE  Admitted'
BY FrameAdmitted DEF Typed, TypeOK, HoldsKey

LEMMA StepAdmitted ==
  ASSUME Typed, Admitted, [Next]_vars
  PROVE  Admitted'
<1>. USE DEF Goto, HoldsKey, Steps
<1>1. ASSUME NEW c \in Inbound,
             \/ Receive(c) \/ FastPathHit(c) \/ FastPathMiss(c) \/ Begin(c) \/ RouteByRef(c)
             \/ NoRefMatch(c) \/ RouteByParty(c) \/ OpenRouted(c) \/ OpenRefused(c)
      PROVE  Admitted'
  BY <1>1, CallKeepsAdmitted DEF Receive, FastPathHit, FastPathMiss, Begin, RouteByRef,
     NoRefMatch, RouteByParty, OpenRouted, OpenRefused, storeVars
<1>2. ASSUME NEW c \in Inbound,
             \/ ClaimRefused(c) \/ ClaimLost(c) \/ RereadWinner(c) \/ RereadMissing(c)
             \/ Touch(c) \/ NoCompanyScope(c) \/ Publish(c) \/ Crash(c)
      PROVE  Admitted'
  BY <1>2, CallKeepsAdmitted DEF ClaimRefused, ClaimLost, RereadWinner, RereadMissing, Touch,
     NoCompanyScope, Publish, Crash, storeVars
<1>3. ASSUME NEW c \in Inbound, ClaimWon(c) PROVE Admitted'
  BY <1>3 DEF ClaimWon, Admitted, Storable, Recorded, Typed, TypeOK
<1>4. ASSUME NEW c \in Inbound, StageEvent(c) PROVE Admitted'
  BY <1>4 DEF StageEvent, storeVars, Admitted, Storable, Recorded, Typed, TypeOK
<1>5. ASSUME NEW c \in Inbound, Commit(c) PROVE Admitted'
  <2>1. WellFormed(req[c]) /\ Storable(c) /\ req[c].scope \in Companies
    BY <1>5 DEF Commit, Admitted, Typed, Keyed, Ended
  <2>2. \A d \in Inbound \ {c} : messages'[d] = messages[d] /\ pc'[d] = pc[d]
    BY <1>5 DEF Commit, Typed, TypeOK, StoreTypeOK
  <2>3. pc'[c] = "publish" /\ UNCHANGED req
    BY <1>5 DEF Commit, Typed, TypeOK
  <2>4. QED
    BY <2>1, <2>2, <2>3 DEF Admitted, Storable, Recorded
<1>6. ASSUME Environment \/ UNCHANGED vars PROVE Admitted'
  BY <1>6, FrameAdmitted, LifecycleTyped DEF Environment, callVars, vars, storeVars, Typed
<1>7. QED
  BY <1>1, <1>2, <1>3, <1>4, <1>5, <1>6 DEF Next, CallStep, Quiescent

\* What Admitted and Durable say of a refused webhook.
LEMMA RefusedIsAbsent ==
  ASSUME Durable, Admitted
  PROVE  RefusalLeavesNothing
<1>1. ASSUME NEW c \in Inbound,
             ~(WellFormed(req[c]) /\ Storable(c) /\ req[c].scope \in Companies)
      PROVE  /\ ~Recorded(c) /\ threads[c].status = "absent"
             /\ \A e \in outbox : e.message_id # c
  <2>1. ~Recorded(c)
    BY <1>1 DEF Admitted
  <2>2. messages[c] = NoMessage
    <3>1. ClaimedMessage(c).status # "absent"
      BY DEF ClaimedMessage
    <3>2. QED
      BY <2>1, <3>1 DEF Durable, RowsOfCalls, Recorded, MessageIds
  <2>3. threads[c].status = "absent"
    BY <2>2, NoneAssumption DEF Durable, NoOrphanThread, NoMessage
  <2>4. \A e \in outbox : e.message_id # c
    BY <2>1, DurableEvents DEF EventIffRecorded
  <2>5. QED
    BY <2>1, <2>3, <2>4
<1>2. QED
  BY <1>1 DEF RefusalLeavesNothing

----------------------------------------------------------------------------
(* The five layers together. *)

\* The inductive invariant holds of every reachable state.
THEOREM InvariantHolds == Spec => []IInv
<1>1. Init => IInv
  BY InitTyped, InitDurable, InitExclusive, InitAnswered, InitAdmitted DEF IInv
<1>2. IInv /\ [Next]_vars => IInv'
  BY StepTyped, StepDurable, StepExclusive, StepAnswered, StepAdmitted DEF IInv
<1>3. QED
  BY <1>1, <1>2, PTL DEF Spec

\* Every reachable state is well typed.
THEOREM TypeCorrect == Spec => []TypeOK
<1>1. IInv => TypeOK
  BY DEF IInv, Typed
<1>2. QED
  BY <1>1, InvariantHolds, PTL

\* However many calls race, a (channel, external_id) is recorded at most once.
THEOREM Deduplication == Spec => []OneMessagePerKey
<1>1. IInv => OneMessagePerKey
  BY DEF IInv, Exclusive
<1>2. QED
  BY <1>1, InvariantHolds, PTL

\* A crash, a lost race or a refusal never separates a recorded message from its
\* one outbox event.
THEOREM EventAtomicity == Spec => []EventIffRecorded
<1>1. IInv => EventIffRecorded
  BY DurableEvents DEF IInv
<1>2. QED
  BY <1>1, InvariantHolds, PTL

\* No lost race, refusal or crash leaves a thread without its first message.
THEOREM NoOrphans == Spec => []NoOrphanThread
<1>1. IInv => NoOrphanThread
  BY DEF IInv, Durable
<1>2. QED
  BY <1>1, InvariantHolds, PTL

\* A refused webhook leaves no message, no event and no thread.
THEOREM RefusalIsTotal == Spec => []RefusalLeavesNothing
<1>1. IInv => RefusalLeavesNothing
  BY RefusedIsAbsent DEF IInv
<1>2. QED
  BY <1>1, InvariantHolds, PTL

\* Every Ok answer names the recorded message of its key and that message's thread.
THEOREM TruthfulAnswer == Spec => []AnswersNameTheRecord
<1>1. IInv => AnswersNameTheRecord
  BY DEF IInv, Answered
<1>2. QED
  BY <1>1, InvariantHolds, PTL

\* The in-process sink never sees an event the outbox does not hold.
THEOREM DurableBeforePublished == Spec => []PublishedIsDurable
<1>1. IInv => PublishedIsDurable
  BY DEF IInv, Durable
<1>2. QED
  BY <1>1, InvariantHolds, PTL

----------------------------------------------------------------------------
(* Lost claims. *)

\* The key of a call that is about to read its winner again is recorded, and its own
\* row was one that the fence let it insert.
Beaten ==
  \A c \in Inbound : pc[c] = "reread" =>
    /\ KeyRows(req[c].channel, req[c].external_id) # {}
    /\ Insertable(req[c].scope)

LEMMA BeatenStays ==
  ASSUME IInv, Beaten, UNCHANGED req,
         \A m \in MessageIds : Recorded(m) => messages'[m] = messages[m],
         NEW c \in Inbound, pc[c] = "reread"
  PROVE  KeyRows(req[c].channel, req[c].external_id)' # {} /\ Insertable(req[c].scope)'
<1>1. PICK m \in MessageIds : /\ messages[m].channel = req[c].channel
                              /\ messages[m].external_id = req[c].external_id
  BY DEF Beaten, KeyRows
<1>2. req[c].external_id # None
  BY DEF IInv, Typed, Keyed, WellFormed
<1>3. Recorded(m)
  BY <1>1, <1>2 DEF IInv, Durable, KeysAreOfRows
<1>4. QED
  BY <1>1, <1>3 DEF KeyRows, MessageIds, Beaten, Insertable

\* A recorded row never changes, and a call keeps its argument.
LEMMA RecordsStay ==
  ASSUME IInv, [Next]_vars
  PROVE  /\ UNCHANGED req
         /\ \A m \in MessageIds : Recorded(m) => messages'[m] = messages[m]
<1>1. messages \in [MessageIds -> MessageRow]
  BY DEF IInv, Typed, TypeOK, StoreTypeOK
<1>2. ASSUME NEW c \in Inbound, Commit(c)
      PROVE  /\ UNCHANGED req
             /\ \A m \in MessageIds : Recorded(m) => messages'[m] = messages[m]
  <2>1. messages[c] = NoMessage
    BY <1>2 DEF Commit, Goto, IInv, Durable, RowsOfCalls, MessageIds
  <2>2. QED
    BY <1>1, <1>2, <2>1 DEF Commit, Recorded, NoMessage
<1>3. ASSUME NEW c \in Inbound, CallStep(c) \/ Crash(c), ~Commit(c)
      PROVE  UNCHANGED <<req, messages>>
  BY <1>3 DEF CallStep, Receive, FastPathHit, FastPathMiss, Begin, RouteByRef, NoRefMatch,
     RouteByParty, OpenRouted, OpenRefused, ClaimRefused, ClaimWon, ClaimLost, RereadWinner,
     RereadMissing, Touch, NoCompanyScope, StageEvent, Publish, Crash, storeVars
<1>4. Environment => UNCHANGED <<req, messages>>
  BY LifecycleTyped DEF Environment, callVars, IInv, Typed
<1>5. UNCHANGED vars => UNCHANGED <<req, messages>>
  BY DEF vars, storeVars, callVars
<1>6. QED
  BY <1>2, <1>3, <1>4, <1>5 DEF Next, Quiescent

LEMMA StepBeaten ==
  ASSUME IInv, Beaten, [Next]_vars
  PROVE  Beaten'
<1>. USE DEF Goto
<1>1. pc \in [Inbound -> Steps] /\ messages \in [MessageIds -> MessageRow]
  BY DEF IInv, Typed, TypeOK, StoreTypeOK
<1>2. /\ UNCHANGED req
      /\ \A m \in MessageIds : Recorded(m) => messages'[m] = messages[m]
  BY RecordsStay
<1>3. \A d \in Inbound : pc[d] = "reread" =>
        KeyRows(req[d].channel, req[d].external_id)' # {} /\ Insertable(req[d].scope)'
  BY <1>2, BeatenStays
<1>4. ASSUME \A d \in Inbound : pc'[d] = "reread" => pc[d] = "reread"
      PROVE  Beaten'
  BY <1>3, <1>4 DEF Beaten
<1>5. ASSUME NEW c \in Inbound, ClaimLost(c) PROVE Beaten'
  <2>1. /\ KeyRows(req[c].channel, req[c].external_id) # {}
        /\ pc' = [pc EXCEPT ![c] = "reread"]
        /\ UNCHANGED <<req, messages>>
    BY <1>5 DEF ClaimLost, KeyIsTaken
  <2>2. KeyRows(req[c].channel, req[c].external_id)' # {} /\ Insertable(req[c].scope)'
    BY <1>5, <2>1 DEF KeyRows, ClaimLost, Storable, Insertable
  <2>3. \A d \in Inbound : d # c /\ pc'[d] = "reread" => pc[d] = "reread"
    BY <1>1, <2>1
  <2>4. QED
    BY <1>3, <2>2, <2>3 DEF Beaten
<1>6. ASSUME NEW c \in Inbound, CallStep(c) \/ Crash(c), ~ClaimLost(c)
      PROVE  \A d \in Inbound : pc'[d] = "reread" => pc[d] = "reread"
  BY <1>1, <1>6 DEF CallStep, Receive, FastPathHit, FastPathMiss, Begin, RouteByRef, NoRefMatch,
     RouteByParty, OpenRouted, OpenRefused, ClaimRefused, ClaimWon, ClaimLost, RereadWinner,
     RereadMissing, Touch, NoCompanyScope, StageEvent, Commit, Publish, Crash
<1>7. Environment \/ UNCHANGED vars => UNCHANGED pc
  BY DEF Environment, vars, callVars
<1>8. QED
  BY <1>4, <1>5, <1>6, <1>7 DEF Next, Quiescent

\* A re-read that finds nothing is of a call from which a fence hides the winner.
LEMMA BeatenFindsWinner ==
  ASSUME Beaten
  PROVE  LoserFindsWinner
<1>1. ASSUME NEW c \in Inbound, pc[c] = "reread", Winner(c) = {}
      PROVE  /\ Fenced
             /\ KeyRows(req[c].channel, req[c].external_id) # {}
             /\ \A m \in KeyRows(req[c].channel, req[c].external_id) :
                  messages[m].unit # req[c].scope
  <2>1. PICK m \in KeyRows(req[c].channel, req[c].external_id) : TRUE
    BY <1>1 DEF Beaten
  <2>2. \A n \in KeyRows(req[c].channel, req[c].external_id) :
          ~Visible(messages[n], req[c].scope)
    BY <1>1 DEF Winner, FoundByExternalId
  <2>3. Fenced /\ req[c].scope # None
    BY <1>1, <2>1, <2>2 DEF Visible, Beaten, Insertable
  <2>4. QED
    BY <2>1, <2>2, <2>3 DEF Visible
<1>2. QED
  BY <1>1 DEF LoserFindsWinner

\* A lost claim finds its winner committed, and misses it only where the fence hides
\* another unit's row.
THEOREM LosersFindWinners == Spec => []LoserFindsWinner
<1>1. Init => Beaten
  BY DEF Init, Beaten
<1>2. IInv /\ Beaten /\ [Next]_vars => Beaten'
  BY StepBeaten
<1>3. Beaten => LoserFindsWinner
  BY BeatenFindsWinner
<1>4. QED
  BY <1>1, <1>2, <1>3, InvariantHolds, PTL DEF Spec

----------------------------------------------------------------------------
(* Units: behind a fence nothing crosses from one unit into another. *)

InTransaction == {"claim", "touch", "stage", "commit"}

\* The thread a call has routed onto, if it is not the call's own, is there and of
\* the call's unit.
RoutedInUnit == \A c \in Inbound : pc[c] \in InTransaction =>
  /\ req[c].scope # None
  /\ route[c].thread_id # c =>
       /\ threads[route[c].thread_id].status # "absent"
       /\ threads[route[c].thread_id].unit = req[c].scope

\* A recorded message is on a thread of its unit.
RecordedInUnit == \A m \in Inbound : Recorded(m) =>
  /\ threads[messages[m].thread_id].status # "absent"
  /\ threads[messages[m].thread_id].unit = messages[m].unit

\* An answer names a message of the caller's unit.
AnsweredInUnit == \A c \in Inbound :
  pc[c] = "answered" => messages[outcome[c].message_id].unit = req[c].scope

UnitInv == Fenced => RoutedInUnit /\ RecordedInUnit /\ AnsweredInUnit

\* Threads are written by commits and by the lifecycle calls.
LEMMA OnlyCommitsWriteThreads ==
  ASSUME [Next]_vars
  PROVE  UNCHANGED threads \/ (\E c \in Inbound : Commit(c)) \/ LifecycleStep
BY DEF Next, CallStep, Quiescent, Environment, vars, storeVars, Receive, FastPathHit,
   FastPathMiss, Begin, RouteByRef, NoRefMatch, RouteByParty, OpenRouted, OpenRefused,
   ClaimRefused, ClaimWon, ClaimLost, RereadWinner, RereadMissing, Touch, NoCompanyScope,
   StageEvent, Publish, Crash

LEMMA OnlyCommitsWriteMessages ==
  ASSUME IInv, [Next]_vars
  PROVE  UNCHANGED messages \/ \E c \in Inbound : Commit(c)
BY LifecycleTyped DEF IInv, Typed, Next, CallStep, Quiescent, Environment, vars, storeVars,
   Receive, FastPathHit, FastPathMiss, Begin, RouteByRef, NoRefMatch, RouteByParty, OpenRouted,
   OpenRefused, ClaimRefused, ClaimWon, ClaimLost, RereadWinner, RereadMissing, Touch,
   NoCompanyScope, StageEvent, Publish, Crash

\* A message is recorded by the commit of its own call.
LEMMA OnlyCommitsRecord ==
  ASSUME IInv, [Next]_vars, NEW m \in Inbound, ~Recorded(m), Recorded(m)'
  PROVE  Commit(m)
<1>1. messages \in [MessageIds -> MessageRow]
  BY DEF IInv, Typed, TypeOK, StoreTypeOK
<1>2. UNCHANGED messages \/ \E c \in Inbound : Commit(c)
  BY OnlyCommitsWriteMessages
<1>3. ASSUME NEW c \in Inbound, Commit(c), c # m PROVE FALSE
  BY <1>1, <1>3 DEF Commit, Recorded, MessageIds
<1>4. QED
  BY <1>2, <1>3 DEF Recorded

\* As long as nothing is sent, what is recorded was received.
OnlyReceived == \A m \in MessageIds : Recorded(m) => m \in Inbound

LEMMA NothingElseRecorded == Spec => []OnlyReceived
<1>1. Init => OnlyReceived
  BY DEF Init, StoreInit, OnlyReceived, Recorded, NoMessage
<1>2. ASSUME IInv, OnlyReceived, [Next]_vars PROVE OnlyReceived'
  <2>1. messages \in [MessageIds -> MessageRow]
    BY <1>2 DEF IInv, Typed, TypeOK, StoreTypeOK
  <2>2. UNCHANGED messages \/ \E c \in Inbound : Commit(c)
    BY <1>2, OnlyCommitsWriteMessages
  <2>3. QED
    BY <1>2, <2>1, <2>2 DEF OnlyReceived, Recorded, Commit
<1>3. QED
  BY <1>1, <1>2, InvariantHolds, PTL DEF Spec

\* A recorded message is on a thread.
LEMMA RecordsOnThreads ==
  ASSUME IInv, NEW m \in Inbound, Recorded(m)
  PROVE  messages[m].thread_id \in ThreadIds
<1>1. PICK e \in outbox : e.message_id = m /\ e.thread_id = messages[m].thread_id
  BY DurableEvents DEF IInv, EventIffRecorded
<1>2. e \in Received
  BY DEF IInv, Typed, TypeOK, StoreTypeOK
<1>3. QED
  BY <1>1, <1>2 DEF Received

\* No call moves a thread to another unit, or takes one away.
LEMMA UnitsStay ==
  ASSUME IInv, [Next]_vars, NEW t \in ThreadIds, threads[t].status # "absent"
  PROVE  threads'[t].status # "absent" /\ threads'[t].unit = threads[t].unit
<1>1. threads \in [ThreadIds -> ThreadRow]
  BY DEF IInv, Typed, TypeOK, StoreTypeOK
<1>2. ASSUME NEW c \in Inbound, Commit(c)
      PROVE  threads'[t].status # "absent" /\ threads'[t].unit = threads[t].unit
  <2>1. /\ pc[c] = "commit"
        /\ threads' = [threads EXCEPT ![route[c].thread_id] = TouchedThread(c)]
    BY <1>2 DEF Commit, Goto
  <2>2. t # c
    <3>1. messages[c] = NoMessage
      BY <2>1 DEF IInv, Durable, RowsOfCalls, MessageIds
    <3>2. threads[c].status = "absent"
      BY <3>1, NoneAssumption DEF IInv, Durable, NoOrphanThread, NoMessage
    <3>3. QED
      BY <3>2
  <2>3. CASE t = route[c].thread_id
    <3>1. threads'[t] = [threads[t] EXCEPT !.last_message_at = started[c]]
      BY <1>1, <2>1, <2>2, <2>3 DEF TouchedThread, TouchedRow
    <3>2. QED
      BY <1>1, <3>1 DEF ThreadRow
  <2>4. CASE t # route[c].thread_id
    BY <1>1, <2>1, <2>4
  <2>5. QED
    BY <2>3, <2>4
<1>3. ASSUME LifecycleStep
      PROVE  threads'[t].status # "absent" /\ threads'[t].unit = threads[t].unit
  <2>1. ASSUME NEW u \in ThreadIds, NEW row, UpdateThread(u, row),
               \/ threads[u].status = "absent"
               \/ row.status # "absent" /\ row.unit = threads[u].unit
        PROVE  threads'[t].status # "absent" /\ threads'[t].unit = threads[t].unit
    BY <1>1, <2>1 DEF UpdateThread
  <2>2. CASE \E o \in Opens, ch \in Channels, p \in Optional(Parties), ref \in Optional(Handles),
                u \in Stampable : OpenThread(o, ch, p, ref, u)
    BY <2>1, <2>2 DEF OpenThread, ThreadIds
  <2>3. ASSUME NEW u \in ThreadIds, NEW st \in SubjectTypes, NEW sid \in SubjectIds,
               LinkThread(u, st, sid)
        PROVE  threads'[t].status # "absent" /\ threads'[t].unit = threads[t].unit
    BY <1>1, <2>1, <2>3 DEF LinkThread, Linkable, ThreadRow
  <2>4. ASSUME NEW u \in ThreadIds, CloseThread(u) \/ SoftDeleteThread(u)
        PROVE  threads'[t].status # "absent" /\ threads'[t].unit = threads[t].unit
    BY <1>1, <2>1, <2>4 DEF CloseThread, Closable, SoftDeleteThread, ThreadRow
  <2>5. QED
    BY <1>3, <2>2, <2>3, <2>4 DEF LifecycleStep
<1>4. UNCHANGED threads \/ (\E c \in Inbound : Commit(c)) \/ LifecycleStep
  BY OnlyCommitsWriteThreads
<1>5. QED
  BY <1>2, <1>3, <1>4

\* The threads a call may route onto are there and, behind a fence, of its unit.
LEMMA MatchesAreOfUnit ==
  ASSUME Fenced, NEW c \in Inbound,
         NEW t \in MostRecent(RefMatches(c)) \cup MostRecent(PartyMatches(c))
  PROVE  /\ t \in ThreadIds /\ threads[t].status # "absent"
         /\ req[c].scope # None /\ threads[t].unit = req[c].scope
BY DEF MostRecent, RefMatches, PartyMatches, OpenByExternalRef, OpenByParty, RoutableThread, Visible

\* A step keeps RoutedInUnit if the calls it takes into a transaction are routed in
\* their unit.
LEMMA FrameRouted ==
  ASSUME IInv, RoutedInUnit, [Next]_vars,
         \A c \in Inbound : pc'[c] \in InTransaction =>
           \/ pc[c] \in InTransaction /\ route'[c] = route[c]
           \/ /\ req[c].scope # None
              /\ route'[c].thread_id # c =>
                   /\ route'[c].thread_id \in ThreadIds
                   /\ threads[route'[c].thread_id].status # "absent"
                   /\ threads[route'[c].thread_id].unit = req[c].scope
  PROVE  RoutedInUnit'
<1>1. SUFFICES ASSUME NEW c \in Inbound, pc'[c] \in InTransaction
               PROVE  /\ req'[c].scope # None
                      /\ route'[c].thread_id # c =>
                           /\ threads'[route'[c].thread_id].status # "absent"
                           /\ threads'[route'[c].thread_id].unit = req'[c].scope
  BY DEF RoutedInUnit
<1>2. /\ req[c].scope # None
      /\ route'[c].thread_id # c =>
           /\ route'[c].thread_id \in ThreadIds
           /\ threads[route'[c].thread_id].status # "absent"
           /\ threads[route'[c].thread_id].unit = req[c].scope
  BY <1>1 DEF RoutedInUnit, IInv, Typed, Routed, InTransaction
<1>3. req' = req
  BY RecordsStay
<1>4. QED
  BY <1>2, <1>3, UnitsStay

LEMMA StepRouted ==
  ASSUME Fenced, IInv, RoutedInUnit, [Next]_vars
  PROVE  RoutedInUnit'
<1>. USE DEF Goto, InTransaction, Steps
<1>1. pc \in [Inbound -> Steps] /\ route \in [Inbound -> RoutedThread]
  BY DEF IInv, Typed, TypeOK
<1>2. ASSUME NEW c \in Inbound, RouteByRef(c) \/ RouteByParty(c) PROVE RoutedInUnit'
  <2>1. PICK t \in MostRecent(RefMatches(c)) \cup MostRecent(PartyMatches(c)) : RouteOnto(c, t)
    BY <1>2 DEF RouteByRef, RouteByParty
  <2>2. route'[c].thread_id = t /\ \A d \in Inbound \ {c} : route'[d] = route[d]
    BY <1>1, <2>1 DEF RouteOnto
  <2>3. pc' = [pc EXCEPT ![c] = "claim"]
    BY <1>2 DEF RouteByRef, RouteByParty
  <2>4. QED
    BY <1>1, <2>2, <2>3, MatchesAreOfUnit, FrameRouted
<1>3. ASSUME NEW c \in Inbound, OpenRouted(c) PROVE RoutedInUnit'
  <2>1. req[c].scope # None
    BY <1>3 DEF OpenRouted, Insertable
  <2>2. route'[c].thread_id = c /\ \A d \in Inbound \ {c} : route'[d] = route[d]
    BY <1>1, <1>3 DEF OpenRouted
  <2>3. pc' = [pc EXCEPT ![c] = "claim"]
    BY <1>3 DEF OpenRouted
  <2>4. QED
    BY <1>1, <2>1, <2>2, <2>3, FrameRouted
<1>4. ASSUME NEW c \in Inbound, ClaimWon(c) \/ Touch(c) \/ StageEvent(c) PROVE RoutedInUnit'
  <2>1. \A d \in Inbound : pc'[d] \in InTransaction =>
          pc[d] \in InTransaction /\ route'[d] = route[d]
    BY <1>1, <1>4 DEF ClaimWon, Touch, StageEvent
  <2>2. QED
    BY <2>1, FrameRouted
<1>5. ASSUME NEW c \in Inbound,
             \/ Receive(c) \/ FastPathHit(c) \/ FastPathMiss(c) \/ Begin(c) \/ NoRefMatch(c)
             \/ OpenRefused(c) \/ ClaimRefused(c) \/ ClaimLost(c) \/ RereadWinner(c)
             \/ RereadMissing(c) \/ NoCompanyScope(c) \/ Commit(c) \/ Publish(c) \/ Crash(c)
      PROVE  RoutedInUnit'
  <2>1. \A d \in Inbound : pc'[d] \in InTransaction =>
          pc[d] \in InTransaction /\ route'[d] = route[d]
    BY <1>1, <1>5 DEF Receive, FastPathHit, FastPathMiss, Begin, NoRefMatch, OpenRefused,
       ClaimRefused, ClaimLost, RereadWinner, RereadMissing, NoCompanyScope, Commit, Publish, Crash
  <2>2. QED
    BY <2>1, FrameRouted
<1>6. ASSUME Environment \/ UNCHANGED vars PROVE RoutedInUnit'
  BY <1>6, FrameRouted DEF Environment, vars, callVars
<1>7. QED
  BY <1>2, <1>3, <1>4, <1>5, <1>6 DEF Next, CallStep, Quiescent

\* A commit lands the message of a call on a thread of the call's unit.
LEMMA CommitInUnit ==
  ASSUME Fenced, IInv, RoutedInUnit, NEW c \in Inbound, Commit(c)
  PROVE  /\ messages'[c].thread_id = route[c].thread_id
         /\ messages'[c].unit = req[c].scope
         /\ threads'[route[c].thread_id].status # "absent"
         /\ threads'[route[c].thread_id].unit = req[c].scope
<1>1. /\ pc[c] = "commit"
      /\ threads' = [threads EXCEPT ![route[c].thread_id] = TouchedThread(c)]
      /\ messages' = [messages EXCEPT ![c] = ClaimedMessage(c)]
  BY DEF Commit, Goto
<1>2. /\ route[c].thread_id \in ThreadIds /\ c \in MessageIds
      /\ threads \in [ThreadIds -> ThreadRow] /\ messages \in [MessageIds -> MessageRow]
  BY <1>1 DEF IInv, Typed, Routed, TypeOK, StoreTypeOK, MessageIds
<1>3. TouchedThread(c).status # "absent" /\ TouchedThread(c).unit = req[c].scope
  <2>1. CASE route[c].thread_id = c
    BY <2>1 DEF TouchedThread, TouchedRow, OpenedThread
  <2>2. CASE route[c].thread_id # c
    BY <1>1, <1>2, <2>2 DEF TouchedThread, TouchedRow, ThreadRow, RoutedInUnit, InTransaction
  <2>3. QED
    BY <2>1, <2>2
<1>4. QED
  BY <1>1, <1>2, <1>3 DEF ClaimedMessage

LEMMA StepRecordedInUnit ==
  ASSUME Fenced, IInv, RoutedInUnit, RecordedInUnit, [Next]_vars
  PROVE  RecordedInUnit'
<1>1. ASSUME NEW m \in Inbound, Recorded(m)
      PROVE  /\ threads'[messages'[m].thread_id].status # "absent"
             /\ threads'[messages'[m].thread_id].unit = messages'[m].unit
  <2>1. m \in MessageIds /\ messages'[m] = messages[m]
    BY <1>1, RecordsStay DEF MessageIds
  <2>2. messages[m].thread_id \in ThreadIds
    BY <1>1, RecordsOnThreads
  <2>3. QED
    BY <1>1, <2>1, <2>2, UnitsStay DEF RecordedInUnit
<1>2. ASSUME NEW m \in Inbound, ~Recorded(m), Recorded(m)'
      PROVE  Commit(m)
  BY <1>2, OnlyCommitsRecord
<1>3. QED
  BY <1>1, <1>2, CommitInUnit DEF RecordedInUnit

\* The dedup lookups run under the fence: what they answer with is of the caller's unit.
LEMMA StepAnsweredInUnit ==
  ASSUME Fenced, IInv, AnsweredInUnit, [Next]_vars
  PROVE  AnsweredInUnit'
<1>. USE DEF Goto
<1>1. /\ pc \in [Inbound -> Steps] /\ outcome \in [Inbound -> InboundOutcome]
      /\ UNCHANGED req
      /\ \A m \in MessageIds : Recorded(m) => messages'[m] = messages[m]
  BY RecordsStay DEF IInv, Typed, TypeOK
<1>2. ASSUME NEW d \in Inbound, pc[d] = "answered", outcome'[d] = outcome[d]
      PROVE  messages'[outcome'[d].message_id].unit = req'[d].scope
  <2>1. outcome[d].message_id \in MessageIds /\ Recorded(outcome[d].message_id)
    BY <1>2 DEF IInv, Answered, AnswersNameTheRecord
  <2>2. QED
    BY <1>1, <1>2, <2>1 DEF AnsweredInUnit
<1>3. ASSUME NEW c \in Inbound, FastPathHit(c) \/ RereadWinner(c) PROVE AnsweredInUnit'
  <2>1. PICK m \in Winner(c) : AnswerDuplicate(c, m)
    BY <1>3 DEF FastPathHit, RereadWinner
  <2>2. pc[c] \in {"lookup", "reread"} /\ pc' = [pc EXCEPT ![c] = "answered"] /\ UNCHANGED messages
    BY <1>3 DEF FastPathHit, RereadWinner, storeVars
  <2>3. messages'[m].unit = req'[c].scope
    BY <1>1, <2>2 DEF Winner, FoundByExternalId, Visible
  <2>4. outcome'[c].message_id = m /\ \A d \in Inbound \ {c} : outcome'[d] = outcome[d]
    BY <1>1, <2>1 DEF AnswerDuplicate
  <2>5. QED
    BY <1>1, <1>2, <2>2, <2>3, <2>4 DEF AnsweredInUnit
<1>4. ASSUME NEW c \in Inbound, Publish(c) PROVE AnsweredInUnit'
  <2>1. Recorded(c) /\ c \in MessageIds
    BY <1>4 DEF Publish, IInv, Durable, PublisherRecorded, MessageIds
  <2>2. messages[c] = ClaimedMessage(c)
    <3>1. messages[c] # NoMessage
      BY <2>1 DEF Recorded, NoMessage
    <3>2. QED
      BY <2>1, <3>1 DEF IInv, Durable, RowsOfCalls
  <2>3. messages'[c].unit = req'[c].scope
    BY <1>1, <2>1, <2>2 DEF ClaimedMessage
  <2>4. outcome'[c].message_id = c /\ \A d \in Inbound \ {c} : outcome'[d] = outcome[d]
    BY <1>1, <1>4 DEF Publish
  <2>5. pc' = [pc EXCEPT ![c] = "answered"]
    BY <1>4 DEF Publish
  <2>6. QED
    BY <1>1, <1>2, <2>3, <2>4, <2>5 DEF AnsweredInUnit
<1>5. ASSUME NEW c \in Inbound,
             \/ Receive(c) \/ FastPathMiss(c) \/ Begin(c) \/ RouteByRef(c) \/ NoRefMatch(c)
             \/ RouteByParty(c) \/ OpenRouted(c) \/ OpenRefused(c) \/ ClaimRefused(c) \/ ClaimWon(c)
             \/ ClaimLost(c) \/ RereadMissing(c) \/ Touch(c) \/ NoCompanyScope(c)
             \/ StageEvent(c) \/ Commit(c) \/ Crash(c)
      PROVE  AnsweredInUnit'
  <2>1. UNCHANGED outcome /\ \A d \in Inbound : pc'[d] = "answered" => pc[d] = "answered"
    BY <1>1, <1>5 DEF Receive, FastPathMiss, Begin, RouteByRef, NoRefMatch, RouteByParty, OpenRouted,
       OpenRefused, ClaimRefused, ClaimWon, ClaimLost, RereadMissing, Touch, NoCompanyScope,
       StageEvent, Commit, Crash
  <2>2. QED
    BY <1>2, <2>1 DEF AnsweredInUnit
<1>6. ASSUME Environment \/ UNCHANGED vars PROVE AnsweredInUnit'
  BY <1>2, <1>6 DEF AnsweredInUnit, Environment, vars, callVars
<1>7. QED
  BY <1>3, <1>4, <1>5, <1>6 DEF Next, CallStep, Quiescent

\* Behind a fence every Ok answer names a message, and a thread, of the caller's own unit:
\* units that share a provider's message ids never see each other's rows.
THEOREM UnitsStayApart == Spec => []AnswersStayInUnit
<1>1. Init => UnitInv
  BY DEF Init, StoreInit, UnitInv, RoutedInUnit, RecordedInUnit, AnsweredInUnit, InTransaction,
     Recorded, NoMessage, MessageIds
<1>2. IInv /\ UnitInv /\ [Next]_vars => UnitInv'
  BY StepRouted, StepRecordedInUnit, StepAnsweredInUnit DEF UnitInv
<1>3. IInv /\ OnlyReceived /\ UnitInv => AnswersStayInUnit
  <2>1. ASSUME IInv, OnlyReceived, UnitInv, Fenced, NEW c \in Inbound, pc[c] = "answered"
        PROVE  /\ messages[outcome[c].message_id].unit = req[c].scope
               /\ threads[outcome[c].thread_id].unit = req[c].scope
    <3>1. /\ outcome[c].message_id \in MessageIds
          /\ Recorded(outcome[c].message_id)
          /\ outcome[c].thread_id = messages[outcome[c].message_id].thread_id
      BY <2>1 DEF IInv, Answered, AnswersNameTheRecord
    <3>2. outcome[c].message_id \in Inbound
      BY <2>1, <3>1 DEF OnlyReceived
    <3>3. QED
      BY <2>1, <3>1, <3>2 DEF UnitInv, AnsweredInUnit, RecordedInUnit
  <2>2. QED
    BY <2>1 DEF AnswersStayInUnit
<1>4. QED
  BY <1>1, <1>2, <1>3, InvariantHolds, NothingElseRecorded, PTL DEF Spec

----------------------------------------------------------------------------
(* What an inbound commit may do to a thread other calls work on. *)

\* A commit touches one column of a thread that is there; only a thread that
\* nobody has seen yet is written as a whole.
LEMMA CommitKeepsLifecycle ==
  ASSUME IInv, NEW c \in Inbound, Commit(c), NEW t \in ThreadIds
  PROVE  KeepsLifecycle(t)
<1>1. /\ pc[c] = "commit"
      /\ threads' = [threads EXCEPT ![route[c].thread_id] = TouchedThread(c)]
  BY DEF Commit, Goto
<1>2. threads \in [ThreadIds -> ThreadRow]
  BY DEF IInv, Typed, TypeOK, StoreTypeOK
<1>3. CASE t # route[c].thread_id
  BY <1>1, <1>2, <1>3 DEF KeepsLifecycle
<1>4. CASE t = route[c].thread_id /\ t # c
  <2>1. threads'[t] = [threads[t] EXCEPT !.last_message_at = started[c]]
    BY <1>1, <1>2, <1>4 DEF TouchedThread, TouchedRow
  <2>2. QED
    BY <1>2, <2>1 DEF KeepsLifecycle, ThreadRow
<1>5. CASE t = c
  <2>1. messages[c] = NoMessage
    BY <1>1 DEF IInv, Durable, RowsOfCalls, MessageIds
  <2>2. threads[c].status = "absent"
    BY <2>1, NoneAssumption DEF IInv, Durable, NoOrphanThread, NoMessage
  <2>3. QED
    BY <1>5, <2>2 DEF KeepsLifecycle
<1>6. QED
  BY <1>3, <1>4, <1>5

\* A lifecycle call undoes no earlier one.
LEMMA EnvironmentKeepsLifecycle ==
  ASSUME IInv, LifecycleStep, NEW t \in ThreadIds
  PROVE  KeepsLifecycle(t)
<1>1. threads \in [ThreadIds -> ThreadRow]
  BY DEF IInv, Typed, TypeOK, StoreTypeOK
<1>2. ASSUME NEW u \in ThreadIds, NEW row, UpdateThread(u, row),
             \/ threads[u].status = "absent"
             \/ /\ threads[u].status = "closed" => row.status = "closed"
                /\ threads[u].deleted => row.deleted
                /\ threads[u].subject_id # None => row.subject_id # None
      PROVE  KeepsLifecycle(t)
  BY <1>1, <1>2 DEF UpdateThread, KeepsLifecycle
<1>3. CASE \E o \in Opens, ch \in Channels, p \in Optional(Parties), ref \in Optional(Handles),
              u \in Stampable : OpenThread(o, ch, p, ref, u)
  BY <1>2, <1>3 DEF OpenThread, ThreadIds
<1>4. ASSUME NEW u \in ThreadIds, NEW st \in SubjectTypes, NEW sid \in SubjectIds,
             LinkThread(u, st, sid)
      PROVE  KeepsLifecycle(t)
  <2>1. threads[u] \in ThreadRow /\ sid # None
    BY <1>1, NoneAssumption
  <2>2. QED
    BY <1>2, <1>4, <2>1 DEF LinkThread, ThreadRow
<1>5. ASSUME NEW u \in ThreadIds, CloseThread(u) \/ SoftDeleteThread(u)
      PROVE  KeepsLifecycle(t)
  <2>1. threads[u] \in ThreadRow
    BY <1>1
  <2>2. QED
    BY <1>2, <1>5, <2>1 DEF CloseThread, SoftDeleteThread, ThreadRow
<1>6. QED
  BY <1>3, <1>4, <1>5 DEF LifecycleStep

\* No inbound commit, and no lifecycle call, undoes a close, a link or a delete.
THEOREM LifecycleKept == Spec => LifecycleSurvivesTouch
<1>1. IInv /\ [Next]_vars => \A t \in ThreadIds : KeepsLifecycle(t)
  <2>1. ASSUME IInv, [Next]_vars, NEW t \in ThreadIds PROVE KeepsLifecycle(t)
    <3>1. CASE UNCHANGED threads
      BY <3>1 DEF KeepsLifecycle
    <3>2. CASE \E c \in Inbound : Commit(c)
      BY <2>1, <3>2, CommitKeepsLifecycle
    <3>3. CASE LifecycleStep
      BY <2>1, <3>3, EnvironmentKeepsLifecycle
    <3>4. UNCHANGED threads \/ (\E c \in Inbound : Commit(c)) \/ LifecycleStep
      BY <2>1, OnlyCommitsWriteThreads
    <3>5. QED
      BY <3>1, <3>2, <3>3, <3>4
  <2>2. QED
    BY <2>1
<1>2. QED
  BY <1>1, InvariantHolds, PTL DEF Spec, LifecycleSurvivesTouch

----------------------------------------------------------------------------
(* receive_inbound implements the exactly-once inbox. *)

\* No message is recorded, routed, delivered or answered at the start.
LEMMA InitRefines == Init => Inbox!Init
BY NoneAssumption DEF Init, StoreInit, Inbox!Init, Recorded, NoMessage, NoOutcome, MessageIds

\* A step that leaves messages, events, the sink and the answers alone is invisible.
LEMMA InvisibleStep ==
  ASSUME UNCHANGED <<req, messages, outbox, published, outcome>>
  PROVE  UNCHANGED Inbox!inboxVars
BY DEF Inbox!inboxVars, Recorded, Key

\* The commit is the abstract Record: the message and its event in one instant.
LEMMA CommitRefines ==
  ASSUME IInv, NEW c \in Inbound, Commit(c)
  PROVE  Inbox!Record(c)
<1>1. /\ pc[c] = "commit"
      /\ messages' = [messages EXCEPT ![c] = ClaimedMessage(c)]
      /\ outbox' = outbox \cup {EventOf(c)}
      /\ UNCHANGED <<req, published, outcome>>
  BY DEF Commit, Goto, Staged
<1>2. c \in MessageIds /\ messages \in [MessageIds -> MessageRow]
  BY DEF IInv, Typed, TypeOK, StoreTypeOK, MessageIds
<1>3. \A d \in Inbound : Recorded(d) => Key(d) # Key(c)
  <2>1. KeyRows(req[c].channel, req[c].external_id) = {}
    BY <1>1 DEF IInv, Exclusive, KeyVacant, HoldsKey
  <2>2. ASSUME NEW d \in Inbound, Recorded(d) PROVE messages[d] = ClaimedMessage(d)
    <3>1. messages[d] # NoMessage
      BY <2>2 DEF Recorded, NoMessage
    <3>2. QED
      BY <3>1 DEF IInv, Durable, RowsOfCalls, MessageIds
  <2>3. ASSUME NEW d \in Inbound, Recorded(d), Key(d) = Key(c) PROVE FALSE
    <3>1. /\ messages[d].channel = req[c].channel
          /\ messages[d].external_id = req[c].external_id
      <4>1. req[d].channel = req[c].channel /\ req[d].external_id = req[c].external_id
        BY <2>3 DEF Key
      <4>2. messages[d] = ClaimedMessage(d)
        BY <2>2, <2>3
      <4>3. QED
        BY <4>1, <4>2 DEF ClaimedMessage
    <3>2. QED
      BY <2>1, <3>1 DEF KeyRows, MessageIds
  <2>4. QED
    BY <2>3
<1>4. {m \in Inbound : Recorded(m)}' = {m \in Inbound : Recorded(m)} \cup {c}
  BY <1>1, <1>2 DEF Recorded, ClaimedMessage
<1>5. {e.message_id : e \in outbox}' = {e.message_id : e \in outbox} \cup {c}
  <2>1. EventOf(c).message_id = c
    BY DEF EventOf
  <2>2. QED
    BY <1>1, <2>1
<1>6. [d \in Inbound |-> Key(d)]' = [d \in Inbound |-> Key(d)]
  BY <1>1 DEF Key
<1>7. QED
  BY <1>1, <1>3, <1>4, <1>5, <1>6 DEF Inbox!Record

\* Publishing is the abstract Deliver.
LEMMA PublishRefines ==
  ASSUME IInv, NEW c \in Inbound, Publish(c)
  PROVE  Inbox!Deliver(c)
<1>1. /\ pc[c] = "publish"
      /\ published' = published \cup {EventOf(c)}
      /\ outcome' = [outcome EXCEPT ![c] =
            [thread_id |-> route[c].thread_id, message_id |-> c, duplicate |-> FALSE]]
      /\ UNCHANGED <<req, messages, outbox>>
  BY DEF Publish, Goto, storeVars
<1>2. EventOf(c) \in outbox /\ EventOf(c).message_id = c
  BY <1>1 DEF IInv, Durable, PublisherRecorded, OutboxOfRows, EventOf
<1>3. outcome[c].message_id = None /\ outcome \in [Inbound -> InboundOutcome]
  BY <1>1 DEF IInv, Typed, TypeOK, Answered, Unanswered, NoOutcome
<1>4. [d \in Inbound |-> outcome[d].message_id]' =
         [[d \in Inbound |-> outcome[d].message_id] EXCEPT ![c] = c]
  BY <1>1, <1>3
<1>5. {e.message_id : e \in published}' = {e.message_id : e \in published} \cup {c}
  BY <1>1, <1>2
<1>6. UNCHANGED <<[d \in Inbound |-> Key(d)], {m \in Inbound : Recorded(m)},
                  {e.message_id : e \in outbox}>>
  BY <1>1 DEF Key, Recorded
<1>7. c \in {e.message_id : e \in outbox}
  BY <1>2
<1>8. QED
  BY <1>3, <1>4, <1>5, <1>6, <1>7 DEF Inbox!Deliver

\* Both ways to find the winner are the abstract AnswerDuplicate.
LEMMA DuplicateRefines ==
  ASSUME IInv, OnlyReceived, NEW c \in Inbound, pc[c] \in {"lookup", "reread"},
         NEW m \in Winner(c), AnswerDuplicate(c, m),
         UNCHANGED <<req, messages, outbox, published>>
  PROVE  Inbox!AnswerDuplicate(c)
<1>1. m \in Inbound /\ Recorded(m) /\ Key(m) = Key(c) /\ ~Recorded(c)
  <2>1. /\ m \in Inbound /\ Recorded(m) /\ ~Recorded(c)
        /\ messages[m].channel = req[c].channel
        /\ messages[m].external_id = req[c].external_id
    BY WinnerRecorded DEF IInv, OnlyReceived
  <2>2. messages[m] = ClaimedMessage(m)
    <3>1. messages[m] # NoMessage
      BY <2>1 DEF Recorded, NoMessage
    <3>2. QED
      BY <2>1, <3>1 DEF IInv, Durable, RowsOfCalls
  <2>3. QED
    BY <2>1, <2>2 DEF Key, ClaimedMessage
<1>2. outcome[c].message_id = None /\ outcome \in [Inbound -> InboundOutcome]
  BY DEF IInv, Typed, TypeOK, Answered, Unanswered, NoOutcome
<1>3. [d \in Inbound |-> outcome[d].message_id]' =
         [[d \in Inbound |-> outcome[d].message_id] EXCEPT ![c] = m]
  BY <1>2 DEF AnswerDuplicate
<1>4. UNCHANGED <<[d \in Inbound |-> Key(d)], {n \in Inbound : Recorded(n)},
                  {e.message_id : e \in outbox}, {e.message_id : e \in published}>>
  BY DEF Key, Recorded
<1>5. QED
  BY <1>1, <1>2, <1>3, <1>4 DEF Inbox!AnswerDuplicate

\* Every step of the service is a step of the inbox or invisible to it.
LEMMA StepRefines ==
  ASSUME IInv, OnlyReceived, [Next]_vars
  PROVE  [Inbox!Next]_(Inbox!inboxVars)
<1>1. ASSUME NEW c \in Inbound, Commit(c) PROVE Inbox!Next
  BY <1>1, CommitRefines DEF Inbox!Next
<1>2. ASSUME NEW c \in Inbound, Publish(c) PROVE Inbox!Next
  BY <1>2, PublishRefines DEF Inbox!Next
<1>3. ASSUME NEW c \in Inbound, FastPathHit(c) \/ RereadWinner(c) PROVE Inbox!Next
  BY <1>3, DuplicateRefines DEF Inbox!Next, FastPathHit, RereadWinner, Goto, storeVars
<1>4. ASSUME NEW c \in Inbound,
             \/ Receive(c) \/ FastPathMiss(c) \/ Begin(c) \/ RouteByRef(c) \/ NoRefMatch(c)
             \/ RouteByParty(c) \/ OpenRouted(c) \/ OpenRefused(c) \/ ClaimRefused(c) \/ ClaimWon(c)
             \/ ClaimLost(c) \/ RereadMissing(c) \/ Touch(c) \/ NoCompanyScope(c)
             \/ StageEvent(c) \/ Crash(c)
      PROVE  UNCHANGED <<req, messages, outbox, published, outcome>>
  BY <1>4 DEF Receive, FastPathMiss, Begin, RouteByRef, NoRefMatch, RouteByParty, OpenRouted,
     OpenRefused, ClaimRefused, ClaimWon, ClaimLost, RereadMissing, Touch, NoCompanyScope,
     StageEvent, Crash, storeVars
<1>5. ASSUME Environment \/ UNCHANGED vars
      PROVE  UNCHANGED <<req, messages, outbox, published, outcome>>
  BY <1>5, LifecycleTyped DEF Environment, callVars, vars, storeVars, IInv, Typed
<1>6. QED
  BY <1>1, <1>2, <1>3, <1>4, <1>5, InvisibleStep DEF Next, CallStep, Quiescent

\* receive_inbound, crashes, races and all, implements ExactlyOnceInbox.
THEOREM Refinement == Spec => ImplementsInbox
<1>1. Init => Inbox!Init
  BY InitRefines
<1>2. IInv /\ OnlyReceived /\ [Next]_vars => [Inbox!Next]_(Inbox!inboxVars)
  BY StepRefines
<1>3. QED
  BY <1>1, <1>2, InvariantHolds, NothingElseRecorded, PTL DEF Spec, ImplementsInbox, Inbox!Spec
=============================================================================
