---------------------------- MODULE OutboundSend ----------------------------
(***************************************************************************)
(* CommunicationWriteService::send_outbound and ::mark_delivered, as many   *)
(* concurrent calls as Sends and Receipts have members, one step per await.  *)
(* No transaction spans two of the steps: every statement commits alone, and *)
(* the provider is driven in the middle.  The provider behind ChannelPort    *)
(* (external) accepts with a message id it never gives twice on a channel,   *)
(* or rejects; once it has accepted, its receipts come at any time, also     *)
(* before the acceptance is written down, and more than once.                *)
(***************************************************************************)
EXTENDS ThreadLifecycle

CONSTANTS
  Receipts,    \* mark_delivered calls
  AckIds,      \* the message ids the provider gives to what it accepts
  SendArgs     \* the arguments of send_outbound in this instance

\* An unstorable body passes is_empty() and breaks the body's CHECK.
SendRequest ==
  [thread_id : ThreadIds, body : {"empty", "unstorable", "text"}, scope : Optional(Units)]

ASSUME SendArgsAssumption == SendArgs \subseteq SendRequest
ASSUME AckIdsAssumption   == AckIds \subseteq ExternalIds

VARIABLES
  sendPc,      \* where each send_outbound call stands
  sendReq,     \* its arguments
  sendChannel, \* the thread's channel, as fetch_for_send read it
  verdict,     \* what the provider answered
  ack,         \* the provider's id of an accepted message
  receiptPc,   \* where each mark_delivered call stands
  receipt,     \* its (channel, external_id) and scope
  failures,    \* messages whose MessageFailed the sink has seen
  deliveries   \* per message, how many MessageDelivered the sink has seen

sendVars    == <<sendPc, sendReq, sendChannel, verdict, ack, failures>>
receiptVars == <<receiptPc, receipt, deliveries>>
outVars     == <<storeVars, sendVars, receiptVars>>

SendSteps == {"idle", "fetch", "queue", "drive", "mark", "touch", "publish",
              "sent", "refused", "crashed"}
SendEnded == {"sent", "refused", "crashed"}
ReceiptSteps == {"idle", "update", "publish", "done", "crashed"}
ReceiptEnded == {"done", "crashed"}

\* A rejection's message fits the failure_reason column (300) or does not.
Verdicts == {"none", "accepted", "rejected", "rejected_at_length"}

ReceiptArgs ==
  [channel : Optional(Channels), external_id : Optional(ExternalIds),
   scope : Optional(Units), moved : Optional(MessageIds)]

NoReceipt == [channel |-> None, external_id |-> None, scope |-> None, moved |-> None]

OutTypeOK ==
  /\ StoreTypeOK
  /\ sendPc      \in [Sends -> SendSteps]
  /\ sendReq     \in [Sends -> SendArgs]
  /\ sendChannel \in [Sends -> Optional(Channels)]
  /\ verdict     \in [Sends -> Verdicts]
  /\ ack         \in [Sends -> Optional(ExternalIds)]
  /\ receiptPc   \in [Receipts -> ReceiptSteps]
  /\ receipt     \in [Receipts -> ReceiptArgs]
  /\ failures    \subseteq Sends
  /\ deliveries  \in [MessageIds -> Nat]

OutCallsInit ==
  /\ sendPc      = [s \in Sends |-> "idle"]
  /\ sendReq     \in [Sends -> SendArgs]
  /\ sendChannel = [s \in Sends |-> None]
  /\ verdict     = [s \in Sends |-> "none"]
  /\ ack         = [s \in Sends |-> None]
  /\ receiptPc   = [r \in Receipts |-> "idle"]
  /\ receipt     = [r \in Receipts |-> NoReceipt]
  /\ failures    = {}
  /\ deliveries  = [m \in MessageIds |-> 0]

OutInit == StoreInit /\ OutCallsInit

----------------------------------------------------------------------------
(* send_outbound *)

SendGoto(s, from, to) == /\ sendPc[s] = from
                         /\ sendPc' = [sendPc EXCEPT ![s] = to]

Target(s) == sendReq[s].thread_id

StartSend(s) ==
  /\ SendGoto(s, "idle", IF sendReq[s].body = "empty" THEN "refused" ELSE "fetch")
  /\ UNCHANGED <<storeVars, receiptVars, sendReq, sendChannel, verdict, ack, failures>>

\* fetch_for_send, then the status test: NotFound and InvalidState end the call.
FoundForSend(s) ==
  LET row == threads[Target(s)] IN
  row.status # "absent" /\ ~row.deleted /\ Visible(row, sendReq[s].scope)

\* Mutant: the status of the fetched thread is not looked at.
SendableWhateverStatus(s) == FoundForSend(s)

Sendable(s) == FoundForSend(s) /\ threads[Target(s)].status = "open"

\* Mutant: the two columns of ThreadSendRow are read the other way round.
FetchedColumnsSwapped(s) == threads[Target(s)].status

FetchedChannel(s) == threads[Target(s)].channel

FetchThread(s) ==
  /\ SendGoto(s, "fetch", IF Sendable(s) THEN "queue" ELSE "refused")
  /\ sendChannel' = IF Sendable(s) THEN [sendChannel EXCEPT ![s] = FetchedChannel(s)]
                    ELSE sendChannel
  /\ UNCHANGED <<storeVars, receiptVars, sendReq, verdict, ack, failures>>

SendStorable(s) == sendReq[s].body = "text" /\ Insertable(sendReq[s].scope)

\* The row insert_outbound writes.
QueuedMessage(s) ==
  [status |-> "queued", thread_id |-> Target(s), channel |-> sendChannel[s],
   external_id |-> None, unit |-> sendReq[s].scope]

\* The queued row commits before the provider is driven.
QueueOutbound(s) ==
  /\ SendGoto(s, "queue", IF SendStorable(s) THEN "drive" ELSE "refused")
  /\ messages' = IF ~SendStorable(s) THEN messages
                 ELSE [messages EXCEPT ![s] = QueuedMessage(s)]
  /\ UNCHANGED <<threads, outbox, keyHolder, rowHolder, clock, receiptVars,
                 sendReq, sendChannel, verdict, ack, failures>>

\* Ids the provider has given out on channel ch.
Issued(ch) == {ack[s] : s \in {r \in Sends : sendChannel[r] = ch}}

ProviderAccepts(s, x) ==
  /\ SendGoto(s, "drive", "mark")
  /\ x \notin Issued(sendChannel[s])
  /\ verdict' = [verdict EXCEPT ![s] = "accepted"]
  /\ ack'     = [ack EXCEPT ![s] = x]
  /\ UNCHANGED <<storeVars, receiptVars, sendReq, sendChannel, failures>>

ProviderRejects(s, v) ==
  /\ SendGoto(s, "drive", "mark")
  /\ verdict' = [verdict EXCEPT ![s] = v]
  /\ UNCHANGED <<storeVars, receiptVars, sendReq, sendChannel, ack, failures>>

\* Mutant: no unique index over the sent ids.
NoSendGuard(s) == FALSE

\* mark_sent: an UPDATE by id alone, subject to the unique index: it waits for
\* an uncommitted insert of the same key, and fails on a committed one.
SentKeyIsTaken(s) == KeyRows(sendChannel[s], ack[s]) # {}
WithSent(s) == [messages EXCEPT ![s].status = "sent", ![s].external_id = ack[s]]

MarkSent(s) ==
  /\ verdict[s] = "accepted"
  /\ keyHolder[<<sendChannel[s], ack[s]>>] = None
  /\ SendGoto(s, "mark", IF SentKeyIsTaken(s) THEN "refused" ELSE "touch")
  /\ messages' = IF SentKeyIsTaken(s) THEN messages
                 ELSE WithSent(s)
  /\ UNCHANGED <<threads, outbox, keyHolder, rowHolder, clock, receiptVars,
                 sendReq, sendChannel, verdict, ack, failures>>

\* touch_last_message: its own autocommit transaction, so its own now().
TouchSent(s) ==
  /\ SendGoto(s, "touch", "sent")
  /\ rowHolder[Target(s)] = None
  /\ clock' = clock + 1
  /\ threads' = [threads EXCEPT ![Target(s)].last_message_at = clock + 1]
  /\ UNCHANGED <<messages, outbox, keyHolder, rowHolder, receiptVars,
                 sendReq, sendChannel, verdict, ack, failures>>

\* mark_failed, also by id alone; a longer message than the failure_reason column
\* holds fails the UPDATE.
WithFailure(s) == [messages EXCEPT ![s].status = "failed"]
ReasonFits(s)  == verdict[s] = "rejected"
WasRejected(s) == verdict[s] \in {"rejected", "rejected_at_length"}

\* Mutant: MessageFailed is published before the failure is written down.
PublishBeforeMarking(s) ==
  /\ WasRejected(s)
  /\ SendGoto(s, "mark", "refused")
  /\ failures' = failures \cup {s}
  /\ messages' = IF ReasonFits(s) THEN WithFailure(s) ELSE messages
  /\ UNCHANGED <<threads, outbox, keyHolder, rowHolder, clock, receiptVars,
                 sendReq, sendChannel, verdict, ack>>

\* Mutant: the error of the rejection is returned before MessageFailed is published.
RejectedAtOnce(s) ==
  /\ WasRejected(s)
  /\ SendGoto(s, "mark", "refused")
  /\ messages' = IF ReasonFits(s) THEN WithFailure(s) ELSE messages
  /\ UNCHANGED <<threads, outbox, keyHolder, rowHolder, clock, receiptVars,
                 sendReq, sendChannel, verdict, ack, failures>>

MarkFailed(s) ==
  /\ WasRejected(s)
  /\ SendGoto(s, "mark", IF ReasonFits(s) THEN "publish" ELSE "refused")
  /\ messages' = IF ReasonFits(s) THEN WithFailure(s) ELSE messages
  /\ UNCHANGED <<threads, outbox, keyHolder, rowHolder, clock, receiptVars,
                 sendReq, sendChannel, verdict, ack, failures>>

PublishFailed(s) ==
  /\ SendGoto(s, "publish", "refused")
  /\ failures' = failures \cup {s}
  /\ UNCHANGED <<storeVars, receiptVars, sendReq, sendChannel, verdict, ack>>

\* The process dies or a statement fails; what has committed stays.
CrashSend(s) ==
  /\ sendPc[s] \notin SendEnded \cup {"idle"}
  /\ sendPc' = [sendPc EXCEPT ![s] = "crashed"]
  /\ UNCHANGED <<storeVars, receiptVars, sendReq, sendChannel, verdict, ack, failures>>

SendStep(s) ==
  \/ StartSend(s) \/ FetchThread(s) \/ QueueOutbound(s)
  \/ MarkSent(s)  \/ TouchSent(s)
  \/ MarkFailed(s) \/ PublishFailed(s)

\* The provider (external) answers every send.
ProviderStep(s) ==
  \/ \E x \in AckIds : ProviderAccepts(s, x)
  \/ \E v \in {"rejected", "rejected_at_length"} : ProviderRejects(s, v)

----------------------------------------------------------------------------
(* mark_delivered *)

ReceiptGoto(r, from, to) == /\ receiptPc[r] = from
                            /\ receiptPc' = [receiptPc EXCEPT ![r] = to]

\* A receipt names a message the provider has accepted.
ReceiptArrives(r, s) ==
  /\ ReceiptGoto(r, "idle", "update")
  /\ ack[s] # None
  /\ receipt' = [receipt EXCEPT ![r] = [NoReceipt EXCEPT !.channel = sendChannel[s],
                                          !.external_id = ack[s], !.scope = sendReq[s].scope]]
  /\ UNCHANGED <<storeVars, sendVars, deliveries>>

KeyOf(r) == <<receipt[r].channel, receipt[r].external_id>>

\* Mutants: the UPDATE is not gated on `sent`; it matches by channel alone.
DeliverableAgain(r) == FoundByExternalId(KeyOf(r)[1], KeyOf(r)[2], receipt[r].scope)
DeliverableOnChannel(r) ==
  {m \in MessageIds : messages[m].channel = KeyOf(r)[1] /\ messages[m].status = "sent"}

\* The WHERE clause of mark_delivered, a compare-and-set on `sent`.
Deliverable(r) ==
  {m \in FoundByExternalId(KeyOf(r)[1], KeyOf(r)[2], receipt[r].scope) :
     messages[m].status = "sent"}

MarkDelivered(r) ==
  /\ ReceiptGoto(r, "update", "publish")
  /\ \E m \in Deliverable(r) :
       /\ messages' = [messages EXCEPT ![m].status = "delivered"]
       /\ receipt'  = [receipt EXCEPT ![r].moved = m]
  /\ UNCHANGED <<threads, outbox, keyHolder, rowHolder, clock, sendVars, deliveries>>

ReceiptIgnored(r) ==
  /\ ReceiptGoto(r, "update", "done")
  /\ Deliverable(r) = {}
  /\ UNCHANGED <<storeVars, sendVars, receipt, deliveries>>

PublishDelivered(r) ==
  /\ ReceiptGoto(r, "publish", "done")
  /\ deliveries' = [deliveries EXCEPT ![receipt[r].moved] = @ + 1]
  /\ UNCHANGED <<storeVars, sendVars, receipt>>

CrashReceipt(r) ==
  /\ receiptPc[r] \in {"update", "publish"}
  /\ receiptPc' = [receiptPc EXCEPT ![r] = "crashed"]
  /\ UNCHANGED <<storeVars, sendVars, receipt, deliveries>>

ReceiptStep(r) == MarkDelivered(r) \/ ReceiptIgnored(r) \/ PublishDelivered(r)

----------------------------------------------------------------------------
OutCalls ==
  \/ \E s \in Sends : SendStep(s) \/ ProviderStep(s)
  \/ \E s \in Sends : CrashSend(s)
  \/ \E r \in Receipts, s \in Sends : ReceiptArrives(r, s)
  \/ \E r \in Receipts : ReceiptStep(r)
  \/ \E r \in Receipts : CrashReceipt(r)

OutEnvironment == LifecycleStep /\ UNCHANGED <<sendVars, receiptVars>>

\* Every send has returned and no receipt is being handled.
OutQuiescent ==
  /\ \A s \in Sends : sendPc[s] \in SendEnded
  /\ \A r \in Receipts : receiptPc[r] \in ReceiptEnded \cup {"idle"}
  /\ UNCHANGED outVars

OutNext == OutCalls \/ OutEnvironment \/ OutQuiescent

\* The runtime polls every task, the provider answers every send.
OutFairness ==
  /\ \A s \in Sends : WF_outVars(SendStep(s)) /\ WF_outVars(ProviderStep(s))
  /\ \A r \in Receipts : WF_outVars(ReceiptStep(r))

OutSpec     == OutInit /\ [][OutNext]_outVars
OutLiveSpec == OutSpec /\ OutFairness

----------------------------------------------------------------------------
(* Safety. *)

\* The status of an outbound row is what the provider said of that message, and
\* of no other: sent and delivered rows carry the id it was accepted under,
\* delivered rows had a receipt, failed rows were rejected, and a call that
\* returns Ok has left its row sent or delivered.
StatusTellsTheTruth ==
  \A s \in Sends :
    LET row == messages[s] IN
    /\ row.status \in {"sent", "delivered"} =>
         verdict[s] = "accepted" /\ row.external_id = ack[s] /\ row.channel = sendChannel[s]
    /\ row.status = "delivered" =>
         \E r \in Receipts : KeyOf(r) = <<row.channel, row.external_id>>
    /\ row.status = "failed" => verdict[s] = "rejected" /\ row.external_id = None
    /\ sendPc[s] = "sent" => row.status \in {"sent", "delivered"}

\* MessageDelivered is announced at most once per message, and only for a message
\* that is delivered, however often and however early its receipts come.
DeliveredOnce ==
  \A m \in MessageIds :
    deliveries[m] <= 1 /\ (deliveries[m] = 1 => messages[m].status = "delivered")

\* What the provider said of a message is written down, and what is written down is
\* told to the sink; only a call that stopped half way leaves either undone.  An
\* accepted message stays queued where another row has its id, a failure is told
\* once it is stored, and a delivery by the receipt that moved the row.
FatesAreTold ==
  \A s \in Sends :
    LET row == messages[s] IN
    /\ row.status = "queued" /\ verdict[s] = "accepted" =>
         sendPc[s] \in {"mark", "crashed"} \/ KeyRows(sendChannel[s], ack[s]) # {}
    /\ row.status = "failed" => s \in failures \/ sendPc[s] \in {"publish", "crashed"}
    /\ s \in failures => row.status = "failed"
    /\ row.status = "delivered" =>
         \/ deliveries[s] = 1
         \/ \E r \in Receipts :
              receipt[r].moved = s /\ receiptPc[r] \in {"publish", "crashed"}

\* A send that is called once close_thread has returned never reaches the provider.
ClosedThreadRefuses ==
  \A s \in Sends :
    [](sendPc[s] \in {"idle", "fetch"} /\ threads[Target(s)].status = "closed"
       => [](verdict[s] = "none"))

----------------------------------------------------------------------------
(* Liveness. *)

\* Every send returns: no lock it waits for is held for ever.
EverySendReturns == \A s \in Sends : <>(sendPc[s] \in SendEnded)

----------------------------------------------------------------------------
(* What the documents say and the code does not do. *)

\* BRD BR-3: on rejection the message becomes failed; recorded, not swallowed.
RejectionIsRecorded ==
  \A s \in Sends :
    sendPc[s] = "refused" /\ WasRejected(s)
      => messages[s].status = "failed"

\* mark_delivered records the receipt; only a redelivered one is a no-op.
ReceiptIsRecorded ==
  \A r \in Receipts, s \in Sends :
    receiptPc[r] = "done" /\ ack[s] # None /\ sendPc[s] = "sent"
      /\ KeyOf(r) = <<sendChannel[s], ack[s]>> => messages[s].status = "delivered"
=============================================================================
