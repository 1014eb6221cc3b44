---------------------------- MODULE EventRouting ----------------------------
(***************************************************************************)
(* How a recorded message becomes work: receive_inbound stages a            *)
(* MessageReceived with the message (its claim and dedup are InboundIngest),  *)
(* the composing service's relay drains communication.outbox_events at       *)
(* least once, consumers dedup on communication.inbox_consumed, open or      *)
(* append to their work item, and call link_thread so that the next reply    *)
(* names it.  The in-process sink hands over the same event a second way,     *)
(* without the outbox row's id.                                              *)
(***************************************************************************)
EXTENDS Naturals, FiniteSets

CONSTANTS
  Messages,       \* provider messages; the call that records m may open thread m
  Conversations,  \* the routing keys: an external_ref or a party
  Consumers,      \* services that handle MessageReceived: crm, support
  Wirings,        \* what a composing service may run: the relay, a sink that hands
                  \* events to the consumers
  MaxEffects,     \* bound: how often one message is handled by one consumer
  None

\* A work item is named by its owner (subject_type) and the message it was
\* opened for (subject_id).
WorkItems == Consumers \X Messages

ASSUME RoutingAssumption ==
  /\ None \notin Messages \cup Conversations \cup WorkItems
  /\ Wirings \subseteq SUBSET {"relay", "sink"}
  /\ MaxEffects \in Nat \ {0}

VARIABLES
  wiring,    \* what the composing service runs; it never changes
  of,        \* the conversation each message belongs to; it never changes
  call,      \* where the receive_inbound call of a message stands
  thread,    \* the thread a message was routed to
  subject,   \* the work item its MessageReceived names
  status,    \* communication.threads.status
  link,      \* communication.threads.subject_type and subject_id
  outbox,    \* communication.outbox_events, by message
  relayed,   \* events the running relay has delivered and not yet marked
  bus,       \* copies on their way: consumer, message, and whether an event id
  consumed,  \* communication.inbox_consumed: (consumer, event)
  handled,   \* how often each consumer has acted on each message
  linking,   \* work items opened whose link_thread call is still to come
  follows    \* history: (consumer, message) where each open thread that the message
             \* could be routed to was linked to a work item of the consumer

given == <<wiring, of>>
vars == <<given, call, thread, subject, status, link, outbox, relayed, bus,
          consumed, handled, linking, follows>>

recording == <<given, call, thread, subject, status, outbox, follows>>
consuming == <<consumed, handled, linking>>

TypeOK ==
  /\ wiring   \in Wirings
  /\ of       \in [Messages -> Conversations]
  /\ call     \in [Messages -> {"new", "routed", "committed", "done"}]
  /\ thread   \in [Messages -> Messages \cup {None}]
  /\ subject  \in [Messages -> WorkItems \cup {None}]
  /\ status   \in [Messages -> {"absent", "open", "closed"}]
  /\ link     \in [Messages -> WorkItems \cup {None}]
  /\ outbox   \in [Messages -> {"none", "staged", "published"}]
  /\ relayed  \subseteq Messages
  /\ bus      \subseteq [to : Consumers, event : Messages, id : BOOLEAN]
  /\ consumed \subseteq WorkItems
  /\ handled  \in [WorkItems -> 0..MaxEffects]
  /\ linking  \subseteq WorkItems
  /\ follows  \subseteq WorkItems

Init ==
  /\ wiring   \in Wirings
  /\ of       \in [Messages -> Conversations]
  /\ call     = [m \in Messages |-> "new"]
  /\ thread   = [m \in Messages |-> None]
  /\ subject  = [m \in Messages |-> None]
  /\ status   = [m \in Messages |-> "absent"]
  /\ link     = [m \in Messages |-> None]
  /\ outbox   = [m \in Messages |-> "none"]
  /\ relayed  = {}
  /\ bus      = {}
  /\ consumed = {}
  /\ handled  = [w \in WorkItems |-> 0]
  /\ linking  = {}
  /\ follows  = {}

OpenThreads(m) ==
  {t \in Messages : status[t] = "open" /\ of[t] = of[m]}

\* Mutant: the event is built from the webhook, which carries no subject.
SubjectOfWebhook(t) == None

\* The thread's persisted link_thread value.
SubjectOf(t) == link[t]

\* The consumers that the conversation is already linked to, whichever thread is taken.
Followed(m) ==
  {c \in Consumers : /\ OpenThreads(m) # {}
                     /\ \A t \in OpenThreads(m) : link[t] # None /\ link[t][1] = c}

\* The lookups of the receive transaction: an open thread of the conversation
\* and its subject, or a new thread, which no other transaction sees yet.
Route(m) ==
  /\ call[m] = "new"
  /\ IF OpenThreads(m) # {}
       THEN \E t \in OpenThreads(m) :
              /\ thread'  = [thread  EXCEPT ![m] = t]
              /\ subject' = [subject EXCEPT ![m] = SubjectOf(t)]
       ELSE /\ thread'  = [thread  EXCEPT ![m] = m]
            /\ subject' = [subject EXCEPT ![m] = None]
  /\ follows' = follows \cup (Followed(m) \X {m})
  /\ call' = [call EXCEPT ![m] = "routed"]
  /\ UNCHANGED <<given, status, link, outbox, relayed, bus, consuming>>

\* Mutant: the event is left to the in-process sink, as before the outbox.
CommitUnstaged(m) ==
  /\ call[m] = "routed"
  /\ call'   = [call EXCEPT ![m] = "committed"]
  /\ status' = IF thread[m] = m THEN [status EXCEPT ![m] = "open"] ELSE status
  /\ UNCHANGED <<given, thread, subject, link, outbox, relayed, bus, consuming, follows>>

\* One transaction: the thread it opened, the message, the staged event.
Commit(m) ==
  /\ call[m] = "routed"
  /\ call'   = [call EXCEPT ![m] = "committed"]
  /\ status' = IF thread[m] = m THEN [status EXCEPT ![m] = "open"] ELSE status
  /\ outbox' = [outbox EXCEPT ![m] = "staged"]
  /\ UNCHANGED <<given, thread, subject, link, relayed, bus, consuming, follows>>

\* The process dies.  Before the commit everything rolls back and the provider
\* delivers again; after it the publish is lost, and the redelivery is answered
\* by the fast path, which publishes nothing.
Crash(m) ==
  /\ call[m] \in {"routed", "committed"}
  /\ IF call[m] = "routed"
       THEN /\ call'    = [call EXCEPT ![m] = "new"]
            /\ thread'  = [thread EXCEPT ![m] = None]
            /\ subject' = [subject EXCEPT ![m] = None]
            /\ follows' = follows \ (Consumers \X {m})
       ELSE /\ call' = [call EXCEPT ![m] = "done"]
            /\ UNCHANGED <<thread, subject, follows>>
  /\ UNCHANGED <<given, status, link, outbox, relayed, bus, consuming>>

Copies(m, id) == [to : Consumers, event : {m}, id : {id}]

\* Mutant: the sink is called as soon as the event is built.
PublishEarly(m) ==
  /\ call[m] \in {"routed", "committed"}
  /\ call' = [call EXCEPT ![m] = "done"]
  /\ bus'  = IF "sink" \in wiring THEN bus \cup Copies(m, FALSE) ELSE bus
  /\ UNCHANGED <<given, thread, subject, status, link, outbox, relayed, consuming, follows>>

\* In-process delivery, once, of the event value alone.
Publish(m) ==
  /\ call[m] = "committed"
  /\ call' = [call EXCEPT ![m] = "done"]
  /\ bus'  = IF "sink" \in wiring THEN bus \cup Copies(m, FALSE) ELSE bus
  /\ UNCHANGED <<given, thread, subject, status, link, outbox, relayed, consuming, follows>>

\* The relay delivers a row that published_at does not mark, and marks it after.
Deliver(m) ==
  /\ "relay" \in wiring
  /\ outbox[m] = "staged"
  /\ m \notin relayed
  /\ bus'     = bus \cup Copies(m, TRUE)
  /\ relayed' = relayed \cup {m}
  /\ UNCHANGED <<recording, link, consuming>>

MarkPublished(m) ==
  /\ m \in relayed
  /\ outbox'  = [outbox EXCEPT ![m] = "published"]
  /\ relayed' = relayed \ {m}
  /\ UNCHANGED <<given, call, thread, subject, status, link, bus, consuming, follows>>

RelayCrash ==
  /\ relayed # {}
  /\ relayed' = {}
  /\ UNCHANGED <<recording, link, bus, consuming>>

\* Mutant: no primary key on inbox_consumed.
AlwaysFree(c, m) == TRUE

\* inbox_consumed has no row for the consumer and the event.
InboxFree(c, m) == <<c, m>> \notin consumed

\* The consumer's transaction: append when the event names a work item of its
\* own, else open one and remember to link it.
Act(c, m) ==
  /\ handled[<<c, m>>] < MaxEffects
  /\ handled' = [handled EXCEPT ![<<c, m>>] = @ + 1]
  /\ linking' = IF subject[m] # None /\ subject[m][1] = c
                  THEN linking ELSE linking \cup {<<c, m>>}

HandleRelayed(c, m) ==
  /\ [to |-> c, event |-> m, id |-> TRUE] \in bus
  /\ InboxFree(c, m)
  /\ Act(c, m)
  /\ consumed' = consumed \cup {<<c, m>>}
  /\ UNCHANGED <<recording, link, relayed, bus>>

\* Acknowledged apart from the transaction: until then the copy comes again.
Acknowledge(c, m) ==
  /\ [to |-> c, event |-> m, id |-> TRUE] \in bus
  /\ <<c, m>> \in consumed
  /\ bus' = bus \ {[to |-> c, event |-> m, id |-> TRUE]}
  /\ UNCHANGED <<recording, link, relayed, consuming>>

\* The in-process copy names no outbox row: there is no event_id to consume.
HandleInProcess(c, m) ==
  /\ [to |-> c, event |-> m, id |-> FALSE] \in bus
  /\ Act(c, m)
  /\ bus' = bus \ {[to |-> c, event |-> m, id |-> FALSE]}
  /\ UNCHANGED <<recording, link, relayed, consumed>>

\* link_thread: an unconditional overwrite of the thread's subject.
LinkThread(c, m) ==
  /\ <<c, m>> \in linking
  /\ link'    = [link EXCEPT ![thread[m]] = <<c, m>>]
  /\ linking' = linking \ {<<c, m>>}
  /\ UNCHANGED <<recording, relayed, bus, consumed, handled>>

\* A consumer that dies between its commit and link_thread never links; the call
\* is optional, so this is also one that does not make it.
LeaveUnlinked(c, m) ==
  /\ <<c, m>> \in linking
  /\ linking' = linking \ {<<c, m>>}
  /\ UNCHANGED <<recording, link, relayed, bus, consumed, handled>>

CloseThread(t) ==
  /\ status[t] = "open"
  /\ status' = [status EXCEPT ![t] = "closed"]
  /\ UNCHANGED <<given, call, thread, subject, link, outbox, relayed, bus, consuming, follows>>

Next ==
  \/ \E m \in Messages :
       \/ Route(m) \/ Commit(m) \/ Crash(m) \/ Publish(m)
       \/ Deliver(m) \/ MarkPublished(m) \/ CloseThread(m)
  \/ RelayCrash
  \/ \E c \in Consumers, m \in Messages :
       \/ HandleRelayed(c, m) \/ Acknowledge(c, m) \/ HandleInProcess(c, m)
       \/ LinkThread(c, m) \/ LeaveUnlinked(c, m)

Spec == Init /\ [][Next]_vars

\* The relay keeps draining, the bus keeps delivering; nothing is assumed of the
\* write service, the sink or link_thread.
RelaySpec ==
  /\ Spec
  /\ \A m \in Messages : WF_vars(Deliver(m))
  /\ \A c \in Consumers, m \in Messages : WF_vars(HandleRelayed(c, m))

(***************************************************************************)
(* Properties                                                              *)
(***************************************************************************)

\* However often the relay delivers an event and wherever relay or consumer die
\* in between, each consumer acts on a message at most once, if it is wired to the
\* relay or to the sink and not to both: the inbox makes the effect exactly-once
\* (communication_outbox.up.sql, receive_inbound's comment).
HandledAtMostOnce ==
  wiring # {"relay", "sink"} => \A w \in WorkItems : handled[w] <= 1

\* No consumer acts on a message that could still roll back: the event leaves
\* only after tx.commit, on either way.
HandledOnlyIfRecorded ==
  \A c \in Consumers, m \in Messages :
    handled[<<c, m>>] > 0 => outbox[m] # "none" /\ status[thread[m]] # "absent"

\* A reply that arrives on a conversation already linked to a consumer's work item
\* opens no second one there: the event's subject is hydrated from the thread
\* (CGC-5), whatever other consumers do with the message.
FollowUpsAppend == follows \cap linking = {}

\* A crash between commit and publish loses nothing: the event of every recorded
\* message reaches every consumer in the end, where the relay runs (CIP-6).
RecordedIsHandled ==
  \A c \in Consumers, m \in Messages :
    "relay" \in wiring /\ call[m] = "committed" ~> handled[<<c, m>>] > 0
=============================================================================
