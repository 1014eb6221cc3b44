--------------------------- MODULE ChannelLedger ---------------------------
(***************************************************************************)
(* What the whole CommunicationWriteService promises of its messages: one    *)
(* ledger of provider message ids for both directions.  An id is entered     *)
(* once, by the first inbound call to record it or by the send the provider  *)
(* gave it to; the provider is driven only for a send that is written down;   *)
(* what is stored of a send is what the provider said of it; events are      *)
(* published of what is stored, a delivery once; an Ok names the entry.      *)
(* (BRD BR-1, BR-3 and BR-4, ADR-001 decisions 1, 3 and 4.)                  *)
(***************************************************************************)
EXTENDS Naturals

CONSTANTS Calls, Sends, Keys, None

VARIABLES
  asked,       \* the (channel, external_id) each inbound call delivers; it never changes
  entries,     \* <<message, key>>: the messages of either direction that have a key
  routed,      \* the calls whose MessageReceived is durable
  delivered,   \* the calls whose MessageReceived the in-process sink has seen
  answer,      \* the message each inbound call was answered with
  fate,        \* the stored status of each send
  given,       \* <<send, key>>: the sends the provider has accepted, and under which key
  rejected,    \* the sends it has rejected
  failures,    \* the sends whose MessageFailed the sink has seen
  deliveries   \* per send, how many MessageDelivered it has seen

inboxVars  == <<asked, routed, delivered, answer>>
outboxVars == <<fate, given, rejected, failures, deliveries>>
ledgerVars == <<entries, inboxVars, outboxVars>>

Init ==
  /\ entries    = {}
  /\ routed     = {}
  /\ delivered  = {}
  /\ answer     = [c \in Calls |-> None]
  /\ fate       = [s \in Sends |-> "absent"]
  /\ given      = {}
  /\ rejected   = {}
  /\ failures   = {}
  /\ deliveries = [s \in Sends |-> 0]

\* Message m has no key among pairs, and k no message.
Fresh(pairs, m, k) == \A e \in pairs : e[1] # m /\ e[2] # k

Enter(m, k) == Fresh(entries, m, k) /\ entries' = entries \cup {<<m, k>>}

----------------------------------------------------------------------------
(* Inbound *)

Record(c) ==
  /\ Enter(c, asked[c])
  /\ routed' = routed \cup {c}
  /\ UNCHANGED <<asked, delivered, answer, outboxVars>>

Deliver(c) ==
  /\ c \in routed
  /\ answer[c] = None
  /\ delivered' = delivered \cup {c}
  /\ answer'    = [answer EXCEPT ![c] = c]
  /\ UNCHANGED <<entries, asked, routed, outboxVars>>

\* The message a repeated id belongs to may be one that was sent.
AnswerDuplicate(c) ==
  /\ answer[c] = None
  /\ \E e \in entries : /\ e[2] = asked[c] /\ e[1] # c
                        /\ answer' = [answer EXCEPT ![c] = e[1]]
  /\ UNCHANGED <<entries, asked, routed, delivered, outboxVars>>

----------------------------------------------------------------------------
(* Outbound *)

Move(s, from, to) ==
  /\ fate[s] = from
  /\ fate' = [fate EXCEPT ![s] = to]

Queue(s) ==
  /\ Move(s, "absent", "queued")
  /\ UNCHANGED <<entries, inboxVars, given, rejected, failures, deliveries>>

\* The provider is driven for a send that is stored, and answers it once.
Accept(s, k) ==
  /\ fate[s] = "queued" /\ s \notin rejected
  /\ Fresh(given, s, k)
  /\ given' = given \cup {<<s, k>>}
  /\ UNCHANGED <<entries, inboxVars, fate, rejected, failures, deliveries>>

Reject(s) ==
  /\ fate[s] = "queued" /\ s \notin rejected
  /\ \A g \in given : g[1] # s
  /\ rejected' = rejected \cup {s}
  /\ UNCHANGED <<entries, inboxVars, fate, given, failures, deliveries>>

MarkSent(s, k) ==
  /\ <<s, k>> \in given
  /\ Enter(s, k)
  /\ Move(s, "queued", "sent")
  /\ UNCHANGED <<inboxVars, given, rejected, failures, deliveries>>

MarkFailed(s) ==
  /\ s \in rejected
  /\ Move(s, "queued", "failed")
  /\ UNCHANGED <<entries, inboxVars, given, rejected, failures, deliveries>>

AnnounceFailure(s) ==
  /\ fate[s] = "failed"
  /\ failures' = failures \cup {s}
  /\ UNCHANGED <<entries, inboxVars, fate, given, rejected, deliveries>>

MarkDelivered(s) ==
  /\ Move(s, "sent", "delivered")
  /\ UNCHANGED <<entries, inboxVars, given, rejected, failures, deliveries>>

AnnounceDelivery(s) ==
  /\ fate[s] = "delivered"
  /\ deliveries[s] = 0
  /\ deliveries' = [deliveries EXCEPT ![s] = 1]
  /\ UNCHANGED <<entries, inboxVars, fate, given, rejected, failures>>

----------------------------------------------------------------------------
Next ==
  \/ \E c \in Calls : Record(c) \/ Deliver(c) \/ AnswerDuplicate(c)
  \/ \E s \in Sends, k \in Keys : Accept(s, k) \/ MarkSent(s, k)
  \/ \E s \in Sends : \/ Queue(s) \/ Reject(s)
                       \/ MarkFailed(s) \/ AnnounceFailure(s)
                       \/ MarkDelivered(s) \/ AnnounceDelivery(s)

Spec == Init /\ [][Next]_ledgerVars
=============================================================================
