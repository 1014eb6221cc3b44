# backbone-communication: models, checks and proofs

This directory holds TLA+ models of the communication service of this repository, the TLC
configurations that check them on small instances, and machine-checked proofs about them.
The code is the reference: every definition that models code is translated from the source
lines that the `map` of `PROJECT.json` names, and an action models a whole handler step,
from one `await` to the next. (Paths below are relative to the repository.)

- [1. Inventory](#1-inventory)
- [2. Plan](#2-plan)
- [3. Modules and code](#3-modules-and-code)
- [4. Runs](#4-runs)
- [5. Fairness](#5-fairness)
- [6. Proofs](#6-proofs)
- [7. Findings](#7-findings)
- [8. What is not modelled, and what is not covered](#8-what-is-not-modelled-and-what-is-not-covered)

## 1. Inventory

The crate is the mailbox of a business suite: provider webhooks come in, messages go out
through a provider, both are kept in threads that may be linked to a business subject
("ticket 17"), and every inbound message is announced to the other modules by an event that
leaves through a transactional outbox.

### State

| where | what |
|---|---|
| `communication.threads` | status open / closed, channel, party, the provider's conversation handle, the polymorphic subject link, `last_message_at`, soft-delete stamp in `metadata` |
| `communication.messages` | direction, status `received` or `queued → sent → delivered` / `failed`, thread, `external_id`, body, failure reason; **one unique index on (channel, external_id)** for both directions |
| `communication.outbox_events` | staged events, keyed by company; drained by a relay outside this crate |
| `communication.inbox_consumed` | (consumer, event_id), for consumers; nothing in this crate writes it |
| the database's locks | uncommitted unique-index entries and row locks, READ COMMITTED |
| the in-process event sink | a trait object the composing service supplies |

No state lives in the process between two calls: `CommunicationWriteService` is a pool, a
port, a sink and two repositories.

### Components

| component | operations | interacts with |
|---|---|---|
| Inbound ingest, `receive_inbound` | fast-path dedup, begin, route (by handle, then party, else open), claim, touch, stage, commit, publish; roll back and re-read on a lost race | tables, outbox, sink; other deliveries through index and row locks |
| Outbound send, `send_outbound` | fetch + status test, queue, drive the provider, mark sent or failed, touch, publish | tables, `ChannelPort`, sink |
| Delivery receipts, `mark_delivered` | compare-and-set `sent → delivered`, publish | messages, sink; races the `mark_sent` of the send |
| Thread lifecycle | `open_thread`, `link_thread`, `close_thread`; soft delete from the CRUD surface | threads |
| Repositories | the SQL of the above, over a generated CRUD repository | tables |
| Generic CRUD surface | create, list, get, PUT, PATCH, upsert, bulk, soft delete, restore, purge, on `/threads` and `/messages`; row rules before a write | the same rows the write service moves |
| Schema and migration chain | index, CHECKs, foreign key, outbox mirror; the strip of the tenancy columns and the declared CHECKs, over a database with data | all |
| Row rules | `MessageRowRules`, `ThreadRowRules`: all rules on a create, those of changed columns on an update | the CHECKs of the same schema |
| Row fence | RLS mounted by the composing service, by ambient org scope | every statement |
| Module builder and routes | `with_database`, `build`; which routes a mount adds, and for whom | write service, CRUD surface |
| Forms of a row | entity constructors and builders, DTOs, `apply_patch`, responses | CRUD surface |
| Read contract | get, summary and exists of a message and a thread | tables, trash |
| Outbox relay, consumers | external (`backbone_outbox`): deliver, mark, dedup, act, link | outbox, inbox_consumed, `link_thread` |
| Pool and request scope | external (`backbone_orm`, sqlx): connections taken, kept and given back | every statement |
| Seeders | a development tool; not modelled | tables |
| Paging, example skeleton, permission seed | see `components` in `PROJECT.json` | |

### What is hard here

*Concurrency.* Each statement outside `receive_inbound`'s transaction commits alone, so a
status that was read can be stale when it is acted on. Within the transaction READ COMMITTED
lets every statement see a different database. Two deliveries of one webhook meet only at the
unique index. *Failure.* A process can stop at any `await`; `send_outbound` then leaves what
it has committed, `receive_inbound` nothing. A CHECK or the fence can refuse a statement in
the middle. *Ordering.* Receipts come before, after and twice; `now()` is the start of a
transaction, not its commit; a relay repeats what it has delivered. *Blocking.* Index entries, row
locks and a pool that is used up make calls wait. *Two writers.* The generated routes write whole rows
over those the write service moves, and purge what it refers to.

What makes each part correct:

- ingest: one message per provider id; message and event are recorded together or not at
  all; a call that loses, is refused or dies leaves nothing; an answer tells the truth; the
  sink sees nothing that is not durable; a close is never undone; every call returns.
- send and receipts: the status of a row is what the provider said of that very message; a
  delivery is announced once; a send that finds the thread closed does nothing.
- both: one row per provider id over both directions; nobody waits for ever.
- surface: whoever writes, there is one row per provider id and no message without its thread; what the
  read-only mount promises holds for every caller; every form of a row agrees on every column.
- routing: each recorded message is acted on exactly once, and a reply goes where its thread is linked.
- pool: every call ends, and none waits for a connection with a key in its hands.
- migration chain and row rules: no row loses its only tenancy key; what the rules let pass is
  not refused by a CHECK afterwards; whatever is stored, the chain can be applied to its end.

The hazards behind these, each at its line, are in `PROJECT.json`.

## 2. Plan

In this order; the most important behaviour first.

1. `CommStore` – tables, index, locks, fence: the state the rest shares. *(done)*
2. `ThreadLifecycle` – the one-statement calls on a thread row. *(done)*
3. `InboundIngest` – `receive_inbound`, over 1 and 2; abstract specification
   `ExactlyOnceInbox`, refinement checked and proved. *(done)*
4. `InboundIngest_proofs` – inductive invariant, every safety invariant of the unfenced run,
   what a fence keeps apart, the refinement. *(done)*
5. `OutboundSend` – `send_outbound` and `mark_delivered`, over 1 and 2. *(done)*
6. `ChannelGateway` – 3 and 5 over one database. *(done)*
7. `SchemaUpgrade` – the migration chain over stored rows, and the row rules against the
   CHECKs it leaves. *(done)*
8. `SchemaUpgrade_proofs` – inductive invariant, its safety invariants and action property.
   *(done)*
9. `EntityForms` with `JsonFields`, `ThreadForms`, `MessageForms` – every way a request body, a
   builder or a patch fills or changes a row. *(done)*
10. `CrudSurface` – the built module as it is mounted: the generated routes on the same rows as
    the write service, the trash, the foreign key, the query service. *(done)*
11. `EventRouting` – from the recorded message over outbox, relay (external), bus and
    `inbox_consumed` to a consumer, and back by `link_thread`. *(done)*
12. `RequestPool` – calls that hold their request's connection and begin a second one. *(done)*
13. `CrudSurface_proofs`, `EventRouting_proofs`, `OutboundSend_proofs`. *(done)*
14. `ChannelGateway_proofs` – both directions together: the one key, and every promise of either
    direction beside the other. *(done)*
15. `RequestPool_proofs` – what a call holds follows from where it stands. *(done)*
16. `ChannelLedger` – the promise of both directions together; the refinement checked and proved.
    *(done)*
17. `Forms`, `Forms_proofs` – the forms of a row for any values and any bodies. *(done)*
18. The safety halves of the liveness properties: what a call waits for, and what is never lost
    or blocked on the way. *(done)*

## 3. Modules and code

```
CommStore  <-- ThreadLifecycle  <-- InboundIngest  <-- MCInboundIngest, InboundIngest_proofs
                                |        \--- INSTANCE ExactlyOnceInbox (refinement)
                                <-- OutboundSend   <-- MCOutboundSend, OutboundSend_proofs
InboundIngest, OutboundSend <-- ChannelGateway <-- MCChannelGateway, ChannelGateway_proofs
                                     \--- INSTANCE ChannelLedger (refinement)
SchemaUpgrade  <-- MCSchemaUpgrade, SchemaUpgrade_proofs
InboundIngest_proofs, OutboundSend_proofs <-- ChannelGateway_proofs

JsonFields <-- EntityForms  <--\
               ThreadForms  <---+-- Forms (INSTANCE EntityForms for each of the two)
               MessageForms <---'     <-- MCForms, Forms_proofs
CrudSurface    <-- MCCrudSurface, CrudSurface_proofs
EventRouting   <-- MCEventRouting, EventRouting_proofs
RequestPool    <-- MCRequestPool, RequestPool_proofs
```

**`CommStore`.** `threads`, `messages`, `outbox` are the committed rows; `keyHolder` and
`rowHolder` are the locks of what is not committed: an entry in the unique index on (channel,
external_id) and an updated thread row. `clock` is `now()`; only its order matters. A row has
the columns a property or a guard tells apart; bodies and rejection messages are members of
{empty, unstorable, text} and {rejected, rejected at length}, where "unstorable" and "at
length" are what a CHECK of the schema refuses. A uuid is the name of the call that mints it
(`UuidAssumption`: v4 never repeats). `unit` is the org scope a fence would stamp;
`Visible` and `Insertable` are its USING and WITH CHECK. The fence is not in this
repository; with `Fenced = FALSE` both are true, the schema as the repository ships it.

**`ThreadLifecycle`.** Each call is one UPDATE or INSERT; it is enabled while no transaction
has the row, which is how Postgres makes it wait. A call whose WHERE matches nothing
returns an error and is no step.

**`InboundIngest`.** `pc[c]` is the await a call stands at.

| step (`pc`) | code |
|---|---|
| `Receive` | `InboundIncomplete` tests on id and body |
| `FastPathHit`, `FastPathMiss` | `find_by_external_id` and the early return |
| `Begin` | `pool.begin()`; `started` is the transaction's `now()` |
| `RouteByRef`, `NoRefMatch`, `RouteByParty`, `OpenRouted`, `OpenRefused` | `resolve_or_open_thread` |
| `ClaimWon`, `ClaimLost`, `ClaimRefused` | `claim_inbound` (ON CONFLICT DO NOTHING), the rollback |
| `RereadWinner`, `RereadMissing` | `fetch_by_external_id` after a lost race |
| `Touch` | `touch_last_message_on` |
| `StageEvent`, `NoCompanyScope` | the company key, `OutboxRecord::new`, `stage` |
| `Commit` | `tx.commit()`: thread, message and event become visible at once |
| `Publish` | `sink.publish`, the `Ok` |
| `Crash` | any await: the process dies or the statement fails; rollback |

What a transaction has written before it commits is read off the call itself (the thread it
opened is `route[c].thread_id = c`), so the tables only ever hold committed rows. The claim
waits (is not enabled) while another transaction holds the key, as an INSERT does.

**`ExactlyOnceInbox`** is the promise without threads, transactions or locks: `Record`,
`Deliver`, `AnswerDuplicate`. The mapping takes recorded messages, durable events, published
events and outcomes.

**`OutboundSend`.** `sendPc` and `receiptPc` are the awaits; every statement commits at once.
`ProviderAccepts` / `ProviderRejects` are the provider (external): an id is never issued twice
on a channel; a receipt can come from the moment the provider has accepted. `deliveries`
and `failures` are what the sink was given.

**`ChannelGateway`** extends both and runs them over one store: a step of a call of one direction is
that component's own, beside which the other direction's calls stand still. A sent message can be given the id an inbound
one holds or is about to hold: `mark_sent` then waits for the inbound transaction, and fails
if it commits.

**`ChannelLedger`** is the promise of both directions without threads, transactions, locks or places:
a ledger of provider ids that a message of either direction enters once, what the provider said of each
send beside what is stored of it, and the events that were published. The mapping, `Ledger` in
`ChannelGateway`, reads the entries off the rows that have a key, received or sent, and the
provider's answers off `verdict` and `ack`; what an open transaction has written is in none of them. A
duplicate may be answered with the row of a send, since the index is one.

**`SchemaUpgrade`** is a database with data that two files of the chain go over. A row is its
table, which of its tenancy keys are not NULL and which declared rules its columns break.

| action | code |
|---|---|
| `ServiceInsert`, `ServiceUpdate` | `claim_inbound`, `insert_outbound`, `open_thread`; `mark_sent`, `mark_failed`, `set_subject`: a CHECK may refuse them, no row rule is asked |
| `Decorate` | the composing service's decorator on one table (external): `org_unit_id`, filled from `company_id` |
| `SubmitCreate`, `SubmitUpdate` | the generated POST and PUT: the entity is built, `MessageRowRules` / `ThreadRowRules` say yes or no |
| `StoreCreate`, `StoreUpdate` | the INSERT or whole-row UPDATE, and what a CHECK says of it |
| `BeginUpgrade`, `StopBetweenFiles` | a run of the chain (external runner) |
| `CountRows`, `RefuseStrip`, `StripTenancy` | `strip_tenancy`: the guard, its RAISE, the DROPs |
| `SkipCheck`, `AddCheck`, `CommitChecks` | `add_declared_checks`: NOTICE or ADD CONSTRAINT, rule by rule |

`pc` is the file that runs; a file is one transaction, and the service is stopped while it runs.
Before the strip the old release serves (it writes `company_id`), after it the present one. `Seen`
is row security: both tables FORCE it, so a SELECT of the chain sees all rows or none, by
`bypassesRls`, which Init chooses: a role it binds, or one it does not. A rule is one predicate for Rust and SQL; where they differ (`trim` strips more
than `btrim`) Rust is the stricter, which is the harmless direction for `AcceptedWritesFit`. What a
request changes is the set of rules whose columns it changes. The foreign key that is added
between the two files (NOT VALID) is left out: it looks at no stored row and at no update that
leaves `thread_id` alone. The other modules take every CHECK as added, as on a database
whose rows broke none when the chain ran.

**`EntityForms`** is one row and every way to fill or change it; a column is a name, a value a
member of a small set of its type, and the tables that say which form has which column under
which names are constants. `ThreadForms` and `MessageForms` are those tables, column by column
from the entity, its builder and its DTOs; `JsonFields` is what serde makes of a member that is
there, null, of another type, given twice or missing. `Forms` instantiates `EntityForms` with
either table and fills one row at a time, since the two entities share nothing; the values of the
columns and the bodies that are sent are its constants, and `MCForms` gives TLC some.

| action | code |
|---|---|
| `Post` | `From<Create..Dto>`, through the serde defaults |
| `Put` | `apply_update`: every column assigned |
| `Patch` | the Patch DTO and `has_changes`; that a `Some` replaces its column is `backbone_core`'s |
| `PatchFields` | `apply_patch`: an arm per column, a value that does not deserialize is skipped |
| `Set` | the fluent setters |

**`CrudSurface`** is the module as a composing service builds and mounts it. A step is a committed
statement or transaction: the inside of the write service's calls is told by the other modules,
here it is one effect per commit, so that it can meet the routes.

| action | code |
|---|---|
| `WithDatabase`, `Build` | the builder, `build` refuses without a pool |
| `ReceiveOnto`, `ReceiveOpening` | `receive_inbound`'s commit |
| `OpenThread`, `CloseThread`, `Queue`, `MarkSent`, `MarkFailed`, `MarkDelivered` | the autocommit statements; `sending` are the calls that wait for their provider, and their update goes by id alone, whatever has become of the row |
| `CreateMessage`, `CreateThread` | POST |
| `LoadMessage`, `LoadThread`, `SaveMessage`, `SaveThread` | PUT, PATCH, upsert: find_by_id, then the whole row written back in a later step |
| `TrashMessage`, `TrashThread` | soft delete and restore |
| `PurgeMessages`, `PurgeThreads` | one row of the trash, or `empty_trash`, which the foreign key refuses as a whole |

`Routed` and `Permitted` are `readonly_routes` / `all_crud_routes` and the `..._permissions` of the
handlers; `mount`, chosen in Init, is the surface and the permissions its callers have. `MessageExists` and `ThreadExists` are what
the query service answers.

**`EventRouting`** takes `receive_inbound` in three steps (`Route`, `Commit`, `Publish`) and follows
the event out. The relay and the consumers are not in this repository: `Deliver`,
`MarkPublished` and `RelayCrash` are a relay that delivers a row whose `published_at` is NULL and
stamps it after; `HandleRelayed` is a consumer that acts and records (consumer, event_id) in one
transaction, `Acknowledge` its answer to the bus, `HandleInProcess` a consumer behind the
`CommunicationEventSink`, whose event has no id to record. `wiring`, chosen in Init, says which of the two feed the consumers.
`LinkThread` is the call back, which a
consumer may leave out. `follows` is history: the (consumer, message) pairs where, when the message was
routed, each open thread of its conversation was linked to a work item of that consumer.

**`RequestPool`** keeps, of `receive_inbound` and `send_outbound`, where they take a connection and
where they give it back. With a request scope the statements outside the transaction ride the
request's connection (`fetch_optional_row_scoped`, `execute_scoped`), without one each takes its
own; `begin()` always takes one more. `setting`, chosen in Init, is the size of the pool, whether
there is a scope, and whether a call that waits gives up: `GiveUp` is sqlx's `acquire_timeout`.

Each module also holds a few operators marked *Mutant*: the mutated bodies that `PROJECT.json`
pairs with a property, each a bug that would be easy to write in that place. Nothing in
the specifications uses them.

## 4. Runs

| run | checks | shows |
|---|---|---|
| `ingest_dedup` | `TypeOK`, `OneMessagePerKey`, `EventIffRecorded`, `NoOrphanThread`, `AnswersNameTheRecord`, `PublishedIsDurable`, `LifecycleSurvivesTouch`, `ImplementsInbox` | Three concurrent deliveries of two provider messages, one redelivered, with the threads closed, linked and deleted in between and any call stopping anywhere: one message and one durable event per key, no empty thread, truthful answers, no lifecycle call undone; every step is one of the exactly-once inbox of ExactlyOnceInbox or invisible to it. |
| `ingest_fence` | `AnswersStayInUnit`, `LoserFindsWinner`, `RefusalLeavesNothing` | Two organisation units behind one row fence whose providers use the same message id, beside webhooks without an id, a body, a storable body, a scope or a company: an answer never names another unit's row, a lost claim finds its winner unless the fence hides it, and what is refused, at whichever step, leaves nothing behind. |
| `send_fates` | `OutTypeOK`, `StatusTellsTheTruth`, `DeliveredOnce`, `FatesAreTold`, `ClosedThreadRefuses` | Two sends on one thread, receipts that come early, late and twice, bodies that are refused, the thread closing at any time, calls stopping anywhere: an outbound row never claims a fate the provider did not give it, no fate goes unstored or untold but by a call that stopped half way, and a send called after the close never reaches the provider. |
| `gateway` | `OneRowPerKey`, `InboundStaysReceived`, `EveryDirectionReturns`, `ImplementsLedger` | Two deliveries, a send on the thread one of them opens and a receipt over one unique index and one set of locks, with a provider that may give the sent message the id of an inbound one: the index holds across both directions, all three calls return under the scheduling the runtime gives them, and every step is one of the promise of both directions, ChannelLedger, or invisible to it. |
| `upgrade_window` | `AcceptedWritesFit`, `TenancyKept`, `UpgradeCompletes` | Two rows of any history and one create or PUT, through strip_tenancy and add_declared_checks, with the chain refused, stopped and run again, by a role that row security binds or does not: no CHECK refuses what the row rules let pass, and a chain that sees the rows takes no row's only tenancy key and is never blocked by old ones. |
| `forms` | `TypeOK`, `PutBackChangesNothing`, `EveryWayBuildsTheRow`, `DefaultsAgree`, `PatchReadersAgree` | A thread and a message through constructor, setters, builder, Create, Update and Patch DTO and apply_patch, with bodies of every column in either spelling: the seven paths agree on every column, its default, its null and its names. |
| `surface` | `NoDanglingMessage`, `OneRowPerKey`, `InboundIffAnnounced`, `EventsStayReadable`, `LifecyclesAdvance` | Two threads and two messages under three mounts: whoever creates, edits, trashes, restores and purges over HTTP beside the write service, a message has its thread and a provider id one row; with the read routes alone callers of every permission break nothing that receive_inbound promises; and callers who may not update move no status the write service would not. |
| `routing` | `HandledAtMostOnce`, `HandledOnlyIfRecorded`, `FollowUpsAppend`, `RecordedIsHandled` | Two messages on their way to a consumer over outbox, relay, bus and inbox, over the in-process sink, or over both, with crashes of the call and the relay at any step: one way alone acts on each at most once, the relay on each in the end, nobody on what may roll back, and a reply to a linked thread opens nothing. |
| `pool` | `TypeOK`, `NoWaitWithTheKey`, `EveryCallEnds` | Three deliveries and a send on a pool that is short: without a request scope on one connection, inside one with a connection to spare over the calls, and inside one with two connections and acquire_timeout. All four end, and none waits for a connection with a claimed key. |

These runs check a sentence of a document or comment that the code does not keep; TLC finds the property violated:

| run | checks | asks |
|---|---|---|
| `ingest_hint` | `HintOnlyOnFirstMessage` | A follow-up on a half-linked thread: does its own subject hint stay out of the event? |
| `send_long_rejection` | `RejectionIsRecorded` | A rejection whose message is longer than failure_reason may be: is the failure recorded? |
| `send_early_receipt` | `ReceiptIsRecorded` | A receipt that comes before mark_sent: is the delivery recorded? |

### Bounds, and why they are enough

*Inbound.* Three deliveries over two provider ids, one redelivered: a winner, a loser that
waits, and a third party that shares the winner's thread. With the lifecycle calls free at
any moment, every pair of steps meets. Three calls are the least that show a thread opened by
one call, used by the second and closed before the third; the refinement is checked on the
same instance. `clock` grows by one per transaction, so calls bound it. *Fence.* Two units
with a company, one without, and no scope. One id in both units. Every reason for a refusal
is among the webhooks, so every error path fires. *Outbound.* Two sends on one thread, two
receipts (twice for one, or one each), two ids. *Gateway.* Two inbound calls with an id
each, a send that may be given one of them, and a receipt: a cycle of waits needs two holders and
two locks, and both kinds of lock are there. A receipt holds no lock while it waits and
could not close a cycle. The refinement of `ChannelLedger` is checked on the same instance: the
provider may give the send a new id or one that is claimed, and the send is delivered or rejected. *Upgrade.* Two rows, which may be of one table or of both, so
that one is covered by the decorator and the other not; a rule on each table; one request,
since requests only meet through rows; a role that row security binds or not. A request is given once,
so its names bound it; the chain may be refused and stopped any number of times.

*Forms.* All bodies of up to two members of a thread, in either spelling, with null, a value of the
column's type or of none, and whole entities; a message has bodies of one column alone and beside
those a POST requires. A form reads its columns one by one, so two members are what an alias
given twice or a pair of columns needs. *Surface.* Three mounts: the read-only one with every
permission, the full one with every permission, and one for a caller who may not update or purge. Two
threads and two messages of one key, so that every key clashes; one update is under way at a time,
which meets any number of writes of the service. *Routing.* Three wirings, two messages of one or of two
conversations: the first opens work, the second is its reply. One consumer; `HandledAtMostOnce` and
`FollowUpsAppend` are proved for any number. `MaxEffects = 2` lets a message be handled
once too often, which is all `HandledAtMostOnce` asks. *Pool.* Three deliveries of one or two keys and a
send, under three settings: one connection and no scope; five connections for four scoped calls, one
to spare; two connections for four scoped calls, which starve and give up. With none to spare
and nobody giving up, all calls can wait for ever: sqlx's timeout is what `EveryCallEnds` then rests on,
which counts giving up as an end. It bounds the mutual wait there and does not exclude it; that there is
none where a connection is to spare is `SomeoneCanGo`, proved.

`surface` and `routing` say `CHECK_DEADLOCK FALSE`: the ids in their bounds run out, when all rows are
stored and every event is handled, and there the instance is at its end. Deadlock is checked in every
other run; the one state that may stop, everyone done, is an explicit stutter (`Quiescent`, `AllEnded`).

Symmetry is taken over the inbound calls in `ingest_dedup` and `ingest_fence` (the refinement among their
properties: the inbox is as symmetric in its calls) and over the ids of the rows in `surface`: the names
are interchangeable, the code treats them so, and none of these runs checks liveness.

## 5. Fairness

`Fairness` is weak fairness of each call's own steps (`CallStep(c)`, `SendStep(s)`,
`ReceiptStep(r)`): the async runtime polls every task whose await is ready, and Postgres grants a
lock that stays free. `Crash`, the lifecycle calls and the arrival of a receipt are under no
fairness: nobody has to make them. `ProviderStep(s)` is weakly fair: the port's
`send` returns, with an id or an error; the code has no timeout of its own around it and
relies on the adapter for that. Weak fairness is enough for the waits because a lock is only
contended by finitely many calls, each of which ends. The run `gateway` assumes nothing of its receipt.

For the migration chain `Fairness` is its operator: the runner goes on with a file it has begun
and is started again after it stopped (`WF` of `UpgradeStep`, `SF` of `TestRule`, as the chain may
stop between two files any number of times), and the decorator is applied to a table
(`SF` of `Decorate`), as the RAISE of the strip asks. Writes of the service and requests are under
no fairness.

`RelaySpec` is weakly fair to `Deliver` and `HandleRelayed`: the relay polls the rows it has not
published, and the bus repeats a copy until it is acknowledged, by the at-least-once contract the
outbox migration describes. Nothing is assumed of the write service's own steps, of the in-process sink
or of `link_thread`. In `RequestPool` each call's steps are weakly fair (the runtime, the statements
and the provider go on); for a connection that comes free now and then this is enough, since a call
holds one only for finitely many steps, and `GiveUp` is among the steps that must come when the wait does
not end.

## 6. Proofs

`InboundIngest_proofs` proves, for any sets of calls, keys, threads, parties, handles and units,
fenced or not:

| theorem | of |
|---|---|
| `TypeCorrect` | `TypeOK` |
| `Deduplication` | `OneMessagePerKey` |
| `EventAtomicity` | `EventIffRecorded` |
| `NoOrphans` | `NoOrphanThread` |
| `RefusalIsTotal` | `RefusalLeavesNothing` |
| `TruthfulAnswer` | `AnswersNameTheRecord` |
| `DurableBeforePublished` | `PublishedIsDurable` |
| `LosersFindWinners` | `LoserFindsWinner` |
| `UnitsStayApart` | `AnswersStayInUnit` |
| `LifecycleKept` | the action property `LifecycleSurvivesTouch` |
| `Refinement` | `ImplementsInbox`: every step of `Spec` is a step of `ExactlyOnceInbox` or a stutter |

None of the invariants is inductive alone: that no second message is recorded for a key follows
only from who holds its index entry, and that the holder's commit may record it only from the key
having been free when it was claimed. `IInv`, proved by `InvariantHolds`, has five layers, each
proved inductive given the ones before it:

1. `Typed` – the type invariant, plus: a call past routing has a thread, and one past the
   lookup has an id.
2. `Durable` – a message row is its call's claimed message, present only once the call has
   committed; the outbox is exactly the events of the recorded messages.
3. `Exclusive` – a call between claim and commit holds its key, and a key that is held has no
   committed row; hence `OneMessagePerKey`.
4. `Answered` – a call that has not answered has no outcome, one that has names the record.
5. `Admitted` – a call past the claim is storable, one past the staging has a company.

`LosersFindWinners` adds `Beaten` to it: the key of a call that stands at the re-read is recorded, since
the claim fails only on a committed row and no row of the module is ever deleted, and the call's own row
was one the fence would have let in.

`UnitsStayApart` adds `UnitInv`, behind a fence: a call in its transaction is routed onto its own new
thread or onto one of its scope's unit, which is there (routing reads under the fence); a recorded
message has the unit of its thread (the commit writes both, and no lifecycle call moves a thread to another
unit); and what an answer names was read, or stamped, under the caller's scope.

The refinement uses `IInv` for each mapped step: `Commit` is `Record` because `Exclusive` says no
other call of the key is recorded; `Publish` is `Deliver` because `Durable` says the event is there;
the duplicate answers are `AnswerDuplicate`; everything else is invisible.

`SchemaUpgrade_proofs` proves, for any rows, tables, rules and requests:

| theorem | of |
|---|---|
| `UpgradeTypeCorrect` | `TypeOK` |
| `AcceptedWritesAlwaysFit` | `AcceptedWritesFit` |
| `StripKeepsTenancy` | the action property `TenancyKept` |
| `RowsNeverBlockTheChain` | when the strip may be refused, and that no constraint that is added fails |

`UpgradeInv`, proved by `UpgradeInvHolds`, is `TypeOK` with what the chain knows from one step to
the next: `GuardKnows` (a table that was counted and not found an offender is covered by
`org_unit_id` or empty, still, when the strip drops the column), `TestsKnow` (no stored row breaks
a constraint that was added), `ChecksHold` (no stored row breaks a CHECK) and `AcceptedFit`
(what the rules let pass breaks no CHECK: a changed column was checked, an unchanged one is the
stored one). `TenancyKept` speaks of a role that row security does not bind, as the chain's own
comments ask for; section 8 says what happens with another. `RowsNeverBlockTheChain` adds
`OffendersKnown` (a table the guard has found uncovered still is when it refuses), and that a rule no
row of its own table breaks is broken by no row: the safety half of `UpgradeCompletes`.


`OutboundSend_proofs` proves, for any sends, receipts, requests, channels and provider ids:

| theorem | of |
|---|---|
| `OutTypeCorrect` | `OutTypeOK` |
| `StatusIsTrue` | `StatusTellsTheTruth` |
| `OneDelivery` | `DeliveredOnce` |
| `NoFateIsLost` | `FatesAreTold` |
| `NoSendAfterClose` | the temporal property `ClosedThreadRefuses` |

The invariant `OutInv` ties a row to where its call stands: `PlaceInv` (nothing is stored before
the queued row; while the provider is driven the row is queued and has no id), `MarkInv` (a sent,
delivered or failed row agrees with the verdict, and nobody marks it again), `ReceivedFor` (the
receipt that delivered a row has arrived), and `DeliveryInv` (a receipt about to publish moved a row of
its own, whose delivery is not yet announced). A receipt can touch a row only by the id its send was
given, which is why the receipts need `MarkInv` of every send. `FatesAreTold` rests on `OutInv` and on
`TellingInv`, proved on top of it: a send's row comes without a key, so that no send takes a key from a
row that has it (`KeyedRowsStay`) and an id that was taken stays taken; and the receipt that moved a
row stays its teller until it has announced it or stopped. For `NoSendAfterClose`, `ShutOut` (the
thread is closed, the provider has said nothing, and the call stands before its read or has
ended) is kept by every step, since no call opens a closed thread again and `fetch_for_send` refuses one.

`ChannelGateway_proofs` proves, for any calls of both directions over one database, fenced or not:

| theorem | of |
|---|---|
| `OneKeyOneRow` | `OneRowPerKey`, across both directions |
| `GatewayTruthfulAnswer` | `AnswersNameTheRecord` |
| `ReceiptsLeaveInbound` | `InboundStaysReceived` |
| `GatewayTypeCorrect` | `GatewayTypeOK` |
| `InboundPromisesHold` | `OneMessagePerKey`, `EventIffRecorded`, `NoOrphanThread`, `PublishedIsDurable`, `RefusalLeavesNothing` |
| `OutboundPromisesHold` | `StatusTellsTheTruth`, `DeliveredOnce` |
| `GatewayLosesNoFate` | `FatesAreTold`, also where an inbound row takes the id of a sent message |
| `GatewayLosersFindWinners` | `LoserFindsWinner` |
| `GatewayUnitsStayApart` | `AnswersStayInUnit` |
| `GatewayLifecycleKept` | the action property `LifecycleSurvivesTouch` |
| `GatewayNoSendAfterClose` | the temporal property `ClosedThreadRefuses` |
| `GatewayRefinement` | `ImplementsLedger`: every step is a step of `ChannelLedger` or a stutter |
| `GatewayWaitsAreOrdered` | no call waits in a circle |

A step of an inbound or a lifecycle call is a step of `InboundIngest`, one of an outbound call or a
lifecycle call a step of `OutboundSend`, so each component's lemmas carry its own invariant over its own
steps; the module extends both proof modules and cites them. `GatewayInv` is `IInv`, `OutTypeOK`, `OutInv`
and `OneRowPerKey` together. New is what each direction does to the other's part. `OutboundEffect` is all
that an inbound call can see of an outbound step: rows stay, with the key, thread and unit they
have; a thread is touched at most; and one send may gain a key that no row has and no open
transaction holds. So `Exclusive` survives a send (`mark_sent` waits for a claim and fails on its
commit), and so do the answers. The other way, an inbound step writes no row but its own, which is
no send's and never `sent`, hence `OutInv` survives it and no receipt finds it. `OneRowPerKey` needs
both: a commit records the key its claim has kept free of rows of either direction. The proofs of
`InboundIngest` say "recorded", where a key is taken, of rows of either direction for this reason;
that `InboundIngest` alone records received rows only is `NothingElseRecorded`. `GatewayUnitInv` adds to
`UnitInv` that a send's row has the unit of the thread it was read from.

The refinement has one lemma per action that the ledger sees, and one for all the others. What a
lemma must show is that no other part of the ledger moves: `Commit` is `Record` since the entries
are those it had and its own, whose key `Exclusive` has kept free; `MarkSent` is the ledger's since
`SentKeyIsTaken` guards the same index; a receipt is `MarkDelivered` of the one send that has its
id. `LedgerInv` adds to `GatewayInv` what the mapping of the provider's answers needs: threads are on a
channel, a send that has read its thread has that channel, no send has a verdict before the
provider's.

For the waits, `LocksInv` says that a lock is held by a call that stands between taking it and the end
of its transaction: a key from the claim, a thread row from the touch. A call waits at its claim
or its touch only, so whoever it waits for has fewer locks to come (`LocksToCome`) and any chain of
waits ends with a call that waits for none. A send holds nothing. This is the safety half of
`EveryDirectionReturns`; a transaction that took the row before the key would break it.

`CrudSurface_proofs` proves, for any rows, keys, mounts and request bodies:

| theorem | of |
|---|---|
| `SurfaceTypeCorrect` | `TypeOK` |
| `ForeignKeyHolds` | `NoDanglingMessage` |
| `UniqueKeyHolds` | `OneRowPerKey` |
| `AnnouncedIffStored` | `InboundIffAnnounced` |
| `EventsAlwaysReadable` | `EventsStayReadable` |
| `LifecyclesOnlyAdvance` | the action property `LifecyclesAdvance` |

The first three go over every write, by what `FittingWrite` asks of a row before it is stored. The
last two are about a read-only mount (`mount.surface = "readonly"` is their hypothesis). Their invariant
is `ReadonlyInv`: on such a mount no row is in the trash and no update is under way (`NoRouteWrites`: no
route is enabled), and a message that is being sent or was sent is outbound, so that no mark of the write
service ever meets an inbound row. On a full mount both are false, and no comment says otherwise: the
mutants of the run `surface` give the read-only base one entity's write routes and break them.
`LifecyclesOnlyAdvance` is about any mount where the caller may not update: `Settled` says that no
update is under way there and that a message that waits for the provider, if it is stored, is still queued
(a row purged meanwhile cannot come back under its id), so a mark, whenever it comes, moves a row forward.

`EventRouting_proofs` proves, for any messages, conversations and consumers:

| theorem | of |
|---|---|
| `RoutingTypeCorrect` | `TypeOK` |
| `ActsOnTheRecorded` | `HandledOnlyIfRecorded` |
| `InboxMakesItOnce` | `HandledAtMostOnce` |
| `RepliesAppend` | `FollowUpsAppend` |
| `NothingIsForgotten` | the safety half of `RecordedIsHandled` |

`RecordInv` says that what is on the bus, with the relay, handled or waiting to be linked is recorded,
and that the thread of a recorded message is stored. `HandledAtMostOnce` is about consumers fed by the
relay or by the sink and not by both: behind the relay `InboxInv` says that every copy has an event id and
that what was handled is in the inbox, behind the sink `SinkInv` that a message is handed over once, before
its call returns. `FollowInv` says that a follow-up's event names a work item of that consumer from the
lookup on, whatever the other consumers link meanwhile. `KeptInv` says that what the relay has taken
off the outbox is acted on or on the bus, and that what the inbox knows was acted on, so a copy that is
acknowledged away is not missed.

`RequestPool_proofs` proves, for any finite number of calls, any keys and any size of the pool:

| theorem | of |
|---|---|
| `PoolNeverOverdrawn` | `TypeOK`: never more connections taken than there are |
| `KeyIsNotHeldInTheQueue` | `NoWaitWithTheKey` |
| `NothingLeaks` | when every call has ended, the whole pool is free |
| `SomeoneCanGo` | where there is room, some call waits for nothing |

`PoolInv` says of each call exactly which connections it holds at the place where it stands: its
request's while it is in a scope, its transaction's from the begin to the commit or the rollback. The rest
is counting: a step gives connections back or takes one that was free (`FiniteSetTheorems`).
`SomeoneCanGo` is about pools that are `Roomy`: no request scope, or a connection more than there are
calls. A call that waits for a key waits for a transaction about to commit, which waits for nothing; and
where no call is in a transaction, the requests leave a connection for whoever asks next. The bound
is tight: as many scoped calls as connections, each at its `begin()`, wait for one another until sqlx
gives up.

`Forms_proofs` proves, for any values of the columns and any bodies:

| theorem | of |
|---|---|
| `FormsTypeCorrect` | `TypeOK` |
| `PutBackIsIdle` | `PutBackChangesNothing` |
| `WaysAgree` | `EveryWayBuildsTheRow` |
| `SameDefaults` | `DefaultsAgree` |
| `PatchesAgree` | `PatchReadersAgree` |

It goes in three layers. What a form reads from a body, for any form: `ReadsAny`, `ReadsColumn` (a body in
the schema's names) and `ReadsAnswer` (a body in the API's, or mixed) need only that no name belongs
to two columns. What the tables say, `ThreadTable` and `MessageTable`, one line per column. The
properties then use the first two alone. The tables are the code's, so a new column is a new
line in them and in two lemmas.

Assumptions: `SchemaAssumption` (a rule has a table, None is none); for inbound `NoneAssumption`
(None is no value), `FenceAssumption` (companies are units; the fence is mounted or not),
`UuidAssumption` (v4 uuids do not repeat), `WebhooksAssumption` (the arguments have their Rust
types); for outbound `SendArgsAssumption` and `AckIdsAssumption` (so have the requests and the
provider's ids); `SurfaceAssumption` and
`RoutingAssumption` (None is no row, key or message; mounts and wirings are what they are);
`PoolAssumption` (finitely many calls; a pool has a connection), for `RequestPool`; `MarksAssumption`
(null and the refusals are the value of no column) and `NowAssumption` (the clock tells a time), for
`Forms`. TLC evaluates each of them in the runs.

Every invariant, action property and refinement that a passing run checks is proved. Only model-checked is
liveness (`EveryDirectionReturns`, `UpgradeCompletes`, `RecordedIsHandled`, `EveryCallEnds`), which like
ENABLED is out of the prover's reach; what can be said of it without fairness is proved of each of the
four (`GatewayWaitsAreOrdered`, `RowsNeverBlockTheChain`, `NothingIsForgotten`, `SomeoneCanGo`), though not that
the step that may be taken is taken. These four, `NothingLeaks` and the type invariants of `SchemaUpgrade`,
`CrudSurface`, `EventRouting` and `ChannelGateway` are proved and in no run. There are two refinements:
`InboundIngest` alone implements `ExactlyOnceInbox`, which knows received messages only, and the gateway, where a
duplicate's answer may name the row of a send, implements `ChannelLedger`. Induction over data and
RECURSIVE operators are out of the prover's reach too; the modules need neither.

## 7. Findings

- **HintOnlyOnFirstMessage** (doc code divergence, `src/application/service/communication_write_service.rs:179`, run `ingest_hint`). Each half of the subject falls back to the webhook's hint on its own, on every message of a thread whose half is NULL: a follow-up's hint goes into its event, also paired with the other half of the thread's. The comment at src/application/service/communication_write_service.rs:169-172 says "falling back to the webhook hint only for a thread's first message" (docs/BRD.md:34: "webhook hint is a fallback for the first message"). The run sends a follow-up with a hint of its own onto a thread whose opener hinted the type only.
- **RejectionIsRecorded** (code bug, `src/application/service/communication_write_service.rs:318`, run `send_long_rejection`). mark_failed writes the provider's message as it comes, and ck_messages_failure_reason_max_length__max_length (migrations/20260909113001_add_declared_checks_1f7949d7.up.sql:95-107) refuses more than 300 characters: the UPDATE fails, the row stays `queued`, MessageFailed is not published and the caller gets a database error. docs/BRD.md:22-24 says "on rejection it becomes `failed` with the reason (the failure is **recorded, not swallowed**)". The run rejects with such a message.
- **ReceiptIsRecorded** (code bug, `src/infrastructure/persistence/message_repository.rs:232`, run `send_early_receipt`). mark_delivered matches `sent` rows only. A receipt that comes after the provider accepted and before mark_sent committed matches none, is answered Ok and is not kept, so the message stays `sent`. The doc comment at src/application/service/communication_write_service.rs:329-330 says "Record a provider delivery receipt for an outbound message (idempotent — a redelivered receipt is a no-op)". The run delivers the only receipt of a message that early.

## 8. What is not modelled, and what is not covered

Not modelled: see `components` in `PROJECT.json` for each part and its reason. In short: the
pagination and filter types have no caller, the list, search and bulk endpoints are handlers of
`backbone_core` over the statements that are modelled, the example files are declared by no module, and
the permission seed is reference data. The seeder binary is a tool for development data: it runs two SQL
files, and those in the repository are templates without a row. The relay, the consumers, the pool, the request scope and the fence's
own policies are outside the repository and enter only through what the code here relies on.
Abstracted away everywhere: addresses, bodies beyond what a CHECK can tell, audit metadata but for the
deletion stamp, the words of errors, the fields of the read contract's summaries.

Hazards that no property covers:

- A retried send drives the provider twice: parked by ADR-001; nothing in the service's state tells a
  retry from a new message. The queued row that is stranded is bounded: `FatesAreTold` allows it where
  the call stopped half way or another row has the id.
- Two first messages of one party open two threads: parked by ADR-001 as cosmetic.
- A process that dies after the autocommit of a status never announces it
  (`MessageDelivered`, `MessageFailed` are in process only). `DeliveredOnce` says at most once, and
  `FatesAreTold` that nothing but such a stop loses the announcement; no document promises more.
- A consumer fed in process and by the relay acts twice on a message: the in-process event carries no
  outbox id. `HandledAtMostOnce` is about a consumer fed by one of the two.
- Two consumers that each link the thread of a first message overwrite each other's link: the last wins.
- On the mount with every route, a PUT of a row that was loaded earlier may reopen a closed thread or move
  a status back. `OneRowPerKey` and `NoDanglingMessage` hold of it all the same; `LifecyclesAdvance` is
  stated without the update permission.
- A consumer that dies between its own commit and `link_thread` leaves the thread unlinked, and the
  next reply opens a second work item (`LeaveUnlinked`): the call is optional by docs/extension-guide.md,
  so `FollowUpsAppend` speaks of linked threads.
- `last_message_at` is `now()`, the start of the transaction: commits in the other order move it
  back, and routing prefers the thread that was quiet (src/infrastructure/persistence/thread_repository.rs:234).
- Rows inserted between the strip's count and its DROP, if the service is left running while the
  chain is applied: the model stops it.

Where a comment, a document or a test says more than the code does, besides the findings. These were met
while modelling; where a model reaches it, the model behaves as the code does, and no run asks about it:

- The re-read of a lost claim is said to find the winner (src/infrastructure/persistence/message_repository.rs:104-105);
  behind a fence the winner may be another unit's row, the re-read matches none and each redelivery fails
  the same way. `LoserFindsWinner` says it for rows the fence shows.
- "a closed thread sends nothing" (docs/extension-guide.md:34): the status is tested at
  src/application/service/communication_write_service.rs:280 and the provider driven after, so a close in
  between does not stop the send. `ClosedThreadRefuses` is what holds.
- The strip says it never takes the only key of a row (migrations/20260909112958_strip_tenancy.up.sql:16-17);
  a role that FORCE ROW LEVEL SECURITY binds counts no rows and drops the column.
- The subject of an event is said to be the thread's link (docs/BRD.md:33-36); it is the one the lookup
  read, and a `link_thread` that commits between lookup and commit is missed.
- `last_message_at` is the time of the last message (schema/models/thread.model.yaml:45); see above.
- PUT says that it replaces the whole entity (src/presentation/dto/thread_dto.rs:64): a nullable field
  that is left out is cleared, which a client that sends back what it wants to change will not expect.
- A POST of `{}` creates a thread (src/presentation/dto/thread_dto.rs:33 fills every required column with a
  default); the generated test expects a refusal (tests/integration/tests/thread_api_test.rs:52-56).
- With the in-process sink and the relay both wired, a consumer acts twice
  (src/application/service/communication_write_service.rs:205): only the relay's copy has an id.
- Two consumers of one first message each link its thread, and the later link stays
  (src/infrastructure/persistence/thread_repository.rs:194; docs/extension-guide.md:6-7 and :22).
- migrations/seeds/seed_order.yml lists messages before threads (line 10) under "This ensures foreign key
  dependencies are satisfied" (line 3); the binary does not read the file.
