--------------------------- MODULE InboundIngest ---------------------------
(***************************************************************************)
(* CommunicationWriteService::receive_inbound, as many concurrent calls as  *)
(* Inbound has members, one step per await: each SQL statement, the begin,  *)
(* the commit, the rollback and the in-process publish.  A provider that     *)
(* redelivers a webhook is two calls with the same (channel, external_id).  *)
(* The calls of ThreadLifecycle run between any two steps, and any call may *)
(* stop at any await: its process dies or a statement fails.                *)
(*                                                                         *)
(* The writes a transaction has not committed are read off the call: the    *)
(* thread it opened (route[c].thread_id = c), the message it claimed and    *)
(* the event it staged become rows in Commit, all at once or not at all.    *)
(***************************************************************************)
EXTENDS ThreadLifecycle

CONSTANT Webhooks   \* the arguments of receive_inbound in this instance

\* An InboundMessage and the ambient scope of the task that delivers it.
InboundMessage ==
  [channel      : Channels,
   external_id  : Optional(ExternalIds),              \* None: blank once trimmed
   body         : {"empty", "unstorable", "text"},    \* unstorable: breaks a CHECK
   party_id     : Optional(Parties),
   external_ref : Optional(Handles),
   subject_type : Optional(SubjectTypes),             \* the webhook's subject hint
   subject_id   : Optional(SubjectIds),
   scope        : Optional(Units)]    \* the ambient org scope, None when unbound

ASSUME WebhooksAssumption == Webhooks \subseteq InboundMessage

VARIABLES
  pc,         \* where each call stands
  req,        \* its argument
  started,    \* now() of its transaction: the instant of the BEGIN
  route,      \* the RoutedThread that resolve_or_open_thread returned
  outcome,    \* the InboundOutcome it answered with
  published   \* what the in-process event sink has been given

callVars == <<pc, req, started, route, outcome, published>>
vars     == <<storeVars, callVars>>

Steps == {"idle", "lookup", "begin", "route_ref", "route_party", "claim", "touch",
          "stage", "commit", "publish", "reread", "answered", "failed"}

\* The steps at which the call's transaction has an uncommitted message / an
\* uncommitted thread update.
HoldsKey == {"touch", "stage", "commit"}
HoldsRow == {"stage", "commit"}
Ended    == {"answered", "failed"}

RoutedThread ==
  [thread_id    : Optional(ThreadIds),
   subject_type : Optional(SubjectTypes),
   subject_id   : Optional(SubjectIds)]

InboundOutcome ==
  [thread_id : Optional(ThreadIds), message_id : Optional(MessageIds), duplicate : BOOLEAN]

NoRoute   == [thread_id |-> None, subject_type |-> None, subject_id |-> None]
NoOutcome == [thread_id |-> None, message_id |-> None, duplicate |-> FALSE]

TypeOK ==
  /\ StoreTypeOK
  /\ pc        \in [Inbound -> Steps]
  /\ req       \in [Inbound -> Webhooks]
  /\ started   \in [Inbound -> Nat]
  /\ route     \in [Inbound -> RoutedThread]
  /\ outcome   \in [Inbound -> InboundOutcome]
  /\ published \subseteq Received

Init ==
  /\ StoreInit
  /\ pc        = [c \in Inbound |-> "idle"]
  /\ req       \in [Inbound -> Webhooks]
  /\ started   = [c \in Inbound |-> 0]
  /\ route     = [c \in Inbound |-> NoRoute]
  /\ outcome   = [c \in Inbound |-> NoOutcome]
  /\ published = {}

----------------------------------------------------------------------------
Key(c) == <<req[c].channel, req[c].external_id>>

Goto(c, from, to) == /\ pc[c] = from
                     /\ pc' = [pc EXCEPT ![c] = to]

\* Mutant: an error path that leaves the transaction open on its connection.
KeepLocks(c) == UNCHANGED <<keyHolder, rowHolder>>

\* The transaction of call c ends, by commit or by rollback.
ReleaseLocks(c) ==
  /\ keyHolder' = [k \in Keys |-> IF keyHolder[k] = c THEN None ELSE keyHolder[k]]
  /\ rowHolder' = [t \in ThreadIds |-> IF rowHolder[t] = c THEN None ELSE rowHolder[t]]

WellFormed(m) == m.external_id # None /\ m.body # "empty"

Receive(c) ==
  /\ Goto(c, "idle", IF WellFormed(req[c]) THEN "lookup" ELSE "failed")
  /\ UNCHANGED <<storeVars, req, started, route, outcome, published>>

\* Mutant: the dedup lookups run on a plain pool connection, outside the fence.
WinnerUnscoped(c) == KeyRows(req[c].channel, req[c].external_id)

\* What find_by_external_id and fetch_by_external_id see.
Winner(c) == FoundByExternalId(req[c].channel, req[c].external_id, req[c].scope)

\* Mutant: a duplicate is answered with the thread this call routed onto.
AnswerWithOwnRoute(c, m) ==
  outcome' = [outcome EXCEPT ![c] =
    [thread_id |-> route[c].thread_id, message_id |-> m, duplicate |-> TRUE]]

\* Answer with the row already recorded for the key.
AnswerDuplicate(c, m) ==
  outcome' = [outcome EXCEPT ![c] =
    [thread_id |-> messages[m].thread_id, message_id |-> m, duplicate |-> TRUE]]

FastPathHit(c) ==
  /\ Goto(c, "lookup", "answered")
  /\ \E m \in Winner(c) : AnswerDuplicate(c, m)
  /\ UNCHANGED <<storeVars, req, started, route, published>>

FastPathMiss(c) ==
  /\ Goto(c, "lookup", "begin")
  /\ Winner(c) = {}
  /\ UNCHANGED <<storeVars, req, started, route, outcome, published>>

Begin(c) ==
  /\ Goto(c, "begin", "route_ref")
  /\ clock'   = clock + 1
  /\ started' = [started EXCEPT ![c] = clock + 1]
  /\ UNCHANGED <<threads, messages, outbox, keyHolder, rowHolder,
                 req, route, outcome, published>>

\* Take over thread t with the subject link it has at this instant.
RouteOnto(c, t) ==
  route' = [route EXCEPT ![c] =
    [thread_id    |-> t,
     subject_type |-> threads[t].subject_type,
     subject_id   |-> threads[t].subject_id]]

RefMatches(c) ==
  IF req[c].external_ref = None THEN {}
  ELSE OpenByExternalRef(req[c].channel, req[c].external_ref, req[c].scope)

PartyMatches(c) ==
  IF req[c].party_id = None THEN {}
  ELSE OpenByParty(req[c].channel, req[c].party_id, req[c].scope)

RouteByRef(c) ==
  /\ Goto(c, "route_ref", "claim")
  /\ \E t \in MostRecent(RefMatches(c)) : RouteOnto(c, t)
  /\ UNCHANGED <<storeVars, req, started, outcome, published>>

NoRefMatch(c) ==
  /\ Goto(c, "route_ref", "route_party")
  /\ RefMatches(c) = {}
  /\ UNCHANGED <<storeVars, req, started, route, outcome, published>>

RouteByParty(c) ==
  /\ Goto(c, "route_party", "claim")
  /\ \E t \in MostRecent(PartyMatches(c)) : RouteOnto(c, t)
  /\ UNCHANGED <<storeVars, req, started, outcome, published>>

\* Mutant: the thread is inserted on the pool, not on the caller's transaction.
OpenRoutedOnPool(c) ==
  /\ Goto(c, "route_party", "claim")
  /\ PartyMatches(c) = {}
  /\ route' = [route EXCEPT ![c] = [NoRoute EXCEPT !.thread_id = c]]
  /\ threads' = [threads EXCEPT ![c] =
       OpenedThread(req[c].channel, req[c].party_id, req[c].external_ref,
                    req[c].subject_type, req[c].subject_id, req[c].scope)]
  /\ UNCHANGED <<messages, outbox, keyHolder, rowHolder, clock,
                 req, started, outcome, published>>

\* No open thread: INSERT one in the transaction, with the webhook's hint.
OpenRouted(c) ==
  /\ Goto(c, "route_party", "claim")
  /\ PartyMatches(c) = {} /\ Insertable(req[c].scope)
  /\ route' = [route EXCEPT ![c] =
       [thread_id    |-> c,
        subject_type |-> req[c].subject_type,
        subject_id   |-> req[c].subject_id]]
  /\ UNCHANGED <<storeVars, req, started, outcome, published>>

\* The fence refuses the thread, and the transaction is dropped.
OpenRefused(c) ==
  /\ Goto(c, "route_party", "failed")
  /\ PartyMatches(c) = {} /\ ~Insertable(req[c].scope)
  /\ UNCHANGED <<storeVars, req, started, route, outcome, published>>

----------------------------------------------------------------------------
(* claim_inbound: INSERT ... ON CONFLICT (channel, external_id) DO NOTHING. *)

\* Mutants: the claim does not wait for an uncommitted insert of its key; there
\* is no unique index.
ClaimWithoutWaiting(c) == TRUE
NoUniqueIndex(c)       == FALSE

\* The CHECKs of the row, and the fence's, come first.  Then the unique index
\* makes the INSERT wait for a transaction that has inserted the key and not ended.
Storable(c)   == req[c].body = "text" /\ Insertable(req[c].scope)
KeyIsFree(c)  == keyHolder[Key(c)] = None
KeyIsTaken(c) == KeyRows(req[c].channel, req[c].external_id) # {}

ClaimRefused(c) ==
  /\ Goto(c, "claim", "failed")
  /\ ~Storable(c)
  /\ ReleaseLocks(c)
  /\ UNCHANGED <<threads, messages, outbox, clock, req, started, route, outcome, published>>

ClaimWon(c) ==
  /\ Goto(c, "claim", "touch")
  /\ Storable(c) /\ KeyIsFree(c) /\ ~KeyIsTaken(c)
  /\ keyHolder' = [keyHolder EXCEPT ![Key(c)] = c]
  /\ UNCHANGED <<threads, messages, outbox, rowHolder, clock,
                 req, started, route, outcome, published>>

\* Mutant: a key that an open transaction holds is lost at once, without waiting
\* for what becomes of it.
ClaimLostAtOnce(c) ==
  /\ Goto(c, "claim", "reread")
  /\ Storable(c) /\ (~KeyIsFree(c) \/ KeyIsTaken(c))
  /\ ReleaseLocks(c)
  /\ route' = [route EXCEPT ![c] = NoRoute]
  /\ UNCHANGED <<threads, messages, outbox, clock, req, started, outcome, published>>

\* No row returned: roll back, discarding the thread the call may have opened.
ClaimLost(c) ==
  /\ Goto(c, "claim", "reread")
  /\ Storable(c) /\ KeyIsFree(c) /\ KeyIsTaken(c)
  /\ ReleaseLocks(c)
  /\ route' = [route EXCEPT ![c] = NoRoute]
  /\ UNCHANGED <<threads, messages, outbox, clock, req, started, outcome, published>>

\* fetch_by_external_id, outside the transaction that was rolled back.
RereadWinner(c) ==
  /\ Goto(c, "reread", "answered")
  /\ \E m \in Winner(c) : AnswerDuplicate(c, m)
  /\ UNCHANGED <<storeVars, req, started, route, published>>

\* The row the claim conflicted with is not visible: Err(RowNotFound).
RereadMissing(c) ==
  /\ Goto(c, "reread", "failed")
  /\ Winner(c) = {}
  /\ UNCHANGED <<storeVars, req, started, route, outcome, published>>

\* touch_last_message_on: an UPDATE of the thread row, which stays locked
\* until the transaction ends.
Touch(c) ==
  LET t == route[c].thread_id IN
  /\ Goto(c, "touch", "stage")
  /\ rowHolder[t] = None
  /\ rowHolder' = [rowHolder EXCEPT ![t] = c]
  /\ UNCHANGED <<threads, messages, outbox, keyHolder, clock,
                 req, started, route, outcome, published>>

----------------------------------------------------------------------------
OrElse(x, y) == IF x # None THEN x ELSE y

\* Mutant: the event is built before the thread is resolved.
EventBeforeRouting(c) ==
  [message_id |-> c, thread_id |-> None,
   subject_type |-> req[c].subject_type, subject_id |-> req[c].subject_id]

\* The MessageReceived of call c: what the routed thread concerned when it was
\* read, each half falling back to the webhook's hint.
EventOf(c) ==
  [message_id   |-> c,
   thread_id    |-> route[c].thread_id,
   subject_type |-> OrElse(route[c].subject_type, req[c].subject_type),
   subject_id   |-> OrElse(route[c].subject_id, req[c].subject_id)]

\* The outbox mirror row is company-keyed: without a company the call returns
\* NoCompanyScope and its transaction is dropped.
NoCompanyScope(c) ==
  /\ Goto(c, "stage", "failed")
  /\ req[c].scope \notin Companies
  /\ ReleaseLocks(c)
  /\ UNCHANGED <<threads, messages, outbox, clock, req, started, route, outcome, published>>

\* Mutants: a missing company is let through; the sink is called before the commit.
StageUnkeyed(c) ==
  /\ Goto(c, "stage", "commit")
  /\ UNCHANGED <<storeVars, req, started, route, outcome, published>>

PublishBeforeCommit(c) ==
  /\ Goto(c, "stage", "commit")
  /\ req[c].scope \in Companies
  /\ published' = published \cup {EventOf(c)}
  /\ UNCHANGED <<storeVars, req, started, route, outcome>>

StageEvent(c) ==
  /\ Goto(c, "stage", "commit")
  /\ req[c].scope \in Companies
  /\ UNCHANGED <<storeVars, req, started, route, outcome, published>>

\* The thread row the transaction updates: the one it opened, or the one that is
\* there when it commits.
TouchedRow(c) ==
  IF route[c].thread_id = c
  THEN OpenedThread(req[c].channel, req[c].party_id, req[c].external_ref,
                    req[c].subject_type, req[c].subject_id, req[c].scope)
  ELSE threads[route[c].thread_id]

\* Mutant: a message that lands on a thread reopens it.
ReopenedThread(c) ==
  [TouchedRow(c) EXCEPT !.last_message_at = started[c], !.status = "open"]

\* The UPDATE sets one column of it, to the now() of the transaction.
TouchedThread(c) == [TouchedRow(c) EXCEPT !.last_message_at = started[c]]

ClaimedMessage(c) ==
  [status |-> "received", thread_id |-> route[c].thread_id,
   channel |-> req[c].channel, external_id |-> req[c].external_id,
   unit |-> req[c].scope]

\* Mutant: the outbox row is not part of the transaction, and lost with a crash.
StagedOutside(c) == {}

\* The outbox row OutboxRecord::new and stage add to the transaction.
Staged(c) == {EventOf(c)}

Commit(c) ==
  /\ Goto(c, "commit", "publish")
  /\ threads'  = [threads EXCEPT ![route[c].thread_id] = TouchedThread(c)]
  /\ messages' = [messages EXCEPT ![c] = ClaimedMessage(c)]
  /\ outbox'   = outbox \cup Staged(c)
  /\ ReleaseLocks(c)
  /\ UNCHANGED <<clock, req, started, route, outcome, published>>

\* In-process delivery, then the answer.
Publish(c) ==
  /\ Goto(c, "publish", "answered")
  /\ published' = published \cup {EventOf(c)}
  /\ outcome' = [outcome EXCEPT ![c] =
       [thread_id |-> route[c].thread_id, message_id |-> c, duplicate |-> FALSE]]
  /\ UNCHANGED <<storeVars, req, started, route>>

\* The process dies, the caller goes away or a statement fails, at any await:
\* the server rolls the open transaction back.
Crash(c) ==
  /\ pc[c] \notin Ended \cup {"idle"}
  /\ pc' = [pc EXCEPT ![c] = "failed"]
  /\ ReleaseLocks(c)
  /\ UNCHANGED <<threads, messages, outbox, clock, req, started, route, outcome, published>>

----------------------------------------------------------------------------
CallStep(c) ==
  \/ Receive(c)
  \/ FastPathHit(c)  \/ FastPathMiss(c)
  \/ Begin(c)
  \/ RouteByRef(c)   \/ NoRefMatch(c)
  \/ RouteByParty(c) \/ OpenRouted(c) \/ OpenRefused(c)
  \/ ClaimRefused(c) \/ ClaimWon(c) \/ ClaimLost(c)
  \/ RereadWinner(c) \/ RereadMissing(c)
  \/ Touch(c)
  \/ NoCompanyScope(c) \/ StageEvent(c)
  \/ Commit(c)
  \/ Publish(c)

Environment == LifecycleStep /\ UNCHANGED callVars

\* Every call has returned: the service is idle, not stuck.
Quiescent == (\A c \in Inbound : pc[c] \in Ended) /\ UNCHANGED vars

Next ==
  \/ \E c \in Inbound : CallStep(c)
  \/ \E c \in Inbound : Crash(c)
  \/ Environment
  \/ Quiescent

\* The runtime polls every task; the database grants a lock that stays free.
Fairness == \A c \in Inbound : WF_vars(CallStep(c))

Spec     == Init /\ [][Next]_vars
LiveSpec == Spec /\ Fairness

----------------------------------------------------------------------------
(* Safety. *)

Recorded(m) == messages[m].status # "absent"
SameKey(m, n) == /\ messages[m].channel = messages[n].channel
                 /\ messages[m].external_id = messages[n].external_id

\* However the calls interleave, at most one message is ever recorded for a
\* (channel, external_id).
OneMessagePerKey ==
  \A m, n \in Inbound : Recorded(m) /\ Recorded(n) /\ SameKey(m, n) => m = n

\* A message is recorded if and only if exactly one MessageReceived naming it,
\* and the thread it is on, is in the outbox: no crash separates the two.
EventIffRecorded ==
  /\ \A m \in Inbound : Recorded(m) => \E e \in outbox : e.message_id = m
  /\ \A e \in outbox : /\ Recorded(e.message_id)
                       /\ e.thread_id = messages[e.message_id].thread_id
  /\ \A e, f \in outbox : e.message_id = f.message_id => e = f

\* A thread an inbound call opened holds that call's message: a call that loses
\* the race, is refused or dies leaves no empty thread behind.
NoOrphanThread ==
  \A c \in Inbound : threads[c].status # "absent" => messages[c].thread_id = c

\* Every Ok answer names the one recorded message of the key it asked for and
\* the thread that message is on, and says duplicate unless it recorded it itself.
AnswersNameTheRecord ==
  \A c \in Inbound : pc[c] = "answered" =>
    LET m == outcome[c].message_id IN
    /\ m \in MessageIds /\ Recorded(m)
    /\ <<messages[m].channel, messages[m].external_id>> = Key(c)
    /\ outcome[c].thread_id = messages[m].thread_id
    /\ outcome[c].duplicate <=> m # c

\* A webhook the service or the database refuses leaves no message, no event and
\* no thread, at whichever step it is refused.
RefusalLeavesNothing ==
  \A c \in Inbound :
    ~(WellFormed(req[c]) /\ Storable(c) /\ req[c].scope \in Companies) =>
      /\ ~Recorded(c) /\ threads[c].status = "absent"
      /\ \A e \in outbox : e.message_id # c

\* Nothing reaches the in-process sink that is not durably in the outbox.
PublishedIsDurable == published \subseteq outbox

\* Behind a fence, a call is answered with a row of its own unit, and lands its
\* message on a thread of its own unit.
AnswersStayInUnit ==
  Fenced => \A c \in Inbound : pc[c] = "answered" =>
    /\ messages[outcome[c].message_id].unit = req[c].scope
    /\ threads[outcome[c].thread_id].unit = req[c].scope

\* A call that lost its claim finds the winner when it reads again, after its own
\* rollback: the winner is committed by then, and no fence hides it from a call
\* of the same unit.
LoserFindsWinner ==
  \A c \in Inbound : pc[c] = "reread" /\ Winner(c) = {} =>
    /\ Fenced
    /\ KeyRows(req[c].channel, req[c].external_id) # {}
    /\ \A m \in KeyRows(req[c].channel, req[c].external_id) : messages[m].unit # req[c].scope

\* A step leaves what the lifecycle calls have made of thread t.
KeepsLifecycle(t) ==
  threads[t].status # "absent" =>
    /\ threads[t].status = "closed" => threads'[t].status = "closed"
    /\ threads[t].deleted => threads'[t].deleted
    /\ threads[t].subject_id # None => threads'[t].subject_id # None

\* A close, a link or a soft delete that comes while an inbound call is on its way
\* to the thread is not undone by the call's commit.
LifecycleSurvivesTouch == [][\A t \in ThreadIds : KeepsLifecycle(t)]_vars

----------------------------------------------------------------------------
(* The promise these calls keep. *)

Inbox == INSTANCE ExactlyOnceInbox WITH
  Calls     <- Inbound,
  asked     <- [c \in Inbound |-> Key(c)],
  recorded  <- {m \in Inbound : Recorded(m)},
  routed    <- {e.message_id : e \in outbox},
  delivered <- {e.message_id : e \in published},
  answer    <- [c \in Inbound |-> outcome[c].message_id]

\* receive_inbound implements the exactly-once inbox: each of its steps records,
\* delivers, answers, or is invisible to a client.
ImplementsInbox == Inbox!Spec

----------------------------------------------------------------------------
(* Liveness. *)

\* Waiting for another call's claim or thread row never lasts: every call
\* returns, whatever the others do and wherever they stop.
EveryCallReturns == \A c \in Inbound : <>(pc[c] \in Ended)

----------------------------------------------------------------------------
(* What the documents say and the code does not do. *)

Commits(c) == pc[c] = "commit" /\ pc'[c] = "publish"

\* BRD, Events: the webhook's hint is a fallback for the first message only.
HintOnlyOnFirstMessage ==
  [][\A c \in Inbound : Commits(c) /\ route[c].thread_id # c =>
       /\ EventOf(c).subject_type = route[c].subject_type
       /\ EventOf(c).subject_id = route[c].subject_id]_vars
=============================================================================
