------------------------ MODULE OutboundSend_proofs ------------------------
(***************************************************************************)
(* send_outbound and mark_delivered for any number of calls, threads,        *)
(* channels, provider ids and units, with and without a fence.               *)
(***************************************************************************)
EXTENDS OutboundSend, TLAPS

(***************************************************************************)
(* The types                                                               *)
(***************************************************************************)

LEMMA OutInitTypes == OutInit => OutTypeOK
BY DEF OutInit, StoreInit, OutCallsInit, OutTypeOK, StoreTypeOK, NoThread, NoMessage, NoReceipt,
       ThreadRow, MessageRow, ReceiptArgs, Optional, SendSteps, Verdicts, ReceiptSteps

\* The statements of ThreadLifecycle keep the rows well typed.
LEMMA LifecycleTypes ==
  ASSUME StoreTypeOK, LifecycleStep
  PROVE  StoreTypeOK'
<1> USE DEF StoreTypeOK
<1>1. ASSUME NEW t \in ThreadIds, NEW row \in ThreadRow, UpdateThread(t, row)
      PROVE  StoreTypeOK'
  BY <1>1 DEF UpdateThread
<1>2. ASSUME NEW t \in Opens, NEW ch \in Channels, NEW p \in Optional(Parties),
             NEW ref \in Optional(Handles), NEW u \in Stampable, OpenThread(t, ch, p, ref, u)
      PROVE  StoreTypeOK'
  <2>1. t \in ThreadIds
    BY DEF ThreadIds
  <2>2. OpenedThread(ch, p, ref, None, None, u) \in ThreadRow
    BY DEF OpenedThread, ThreadRow, Optional, Stampable
  <2> QED BY <1>1, <1>2, <2>1, <2>2 DEF OpenThread
<1>3. ASSUME NEW t \in ThreadIds, NEW st \in SubjectTypes, NEW sid \in SubjectIds,
             LinkThread(t, st, sid)
      PROVE  StoreTypeOK'
  <2>1. [threads[t] EXCEPT !.subject_type = st, !.subject_id = sid] \in ThreadRow
    BY DEF ThreadRow, Optional
  <2> QED BY <1>1, <1>3, <2>1 DEF LinkThread
<1>4. ASSUME NEW t \in ThreadIds, CloseThread(t) PROVE StoreTypeOK'
  <2>1. [threads[t] EXCEPT !.status = "closed"] \in ThreadRow
    BY DEF ThreadRow
  <2> QED BY <1>1, <1>4, <2>1 DEF CloseThread
<1>5. ASSUME NEW t \in ThreadIds, SoftDeleteThread(t) PROVE StoreTypeOK'
  <2>1. [threads[t] EXCEPT !.deleted = TRUE] \in ThreadRow
    BY DEF ThreadRow
  <2> QED BY <1>1, <1>5, <2>1 DEF SoftDeleteThread
<1> QED BY <1>2, <1>3, <1>4, <1>5 DEF LifecycleStep

\* An action that writes one message row well, and nothing else of the store.
LEMMA MessageWritten ==
  ASSUME StoreTypeOK, NEW m \in MessageIds, NEW row \in MessageRow,
         messages' = [messages EXCEPT ![m] = row],
         UNCHANGED <<threads, outbox, keyHolder, rowHolder, clock>>
  PROVE  StoreTypeOK'
BY DEF StoreTypeOK

LEMMA StoreKept == ASSUME StoreTypeOK, UNCHANGED storeVars PROVE StoreTypeOK'
BY DEF StoreTypeOK, storeVars

(* OutTypeOK without the store. *)
CallTypes ==
  /\ sendPc      \in [Sends -> SendSteps]
  /\ sendReq     \in [Sends -> SendArgs]
  /\ sendChannel \in [Sends -> Optional(Channels)]
  /\ verdict     \in [Sends -> Verdicts]
  /\ ack         \in [Sends -> Optional(ExternalIds)]
  /\ receiptPc   \in [Receipts -> ReceiptSteps]
  /\ receipt     \in [Receipts -> ReceiptArgs]
  /\ failures    \subseteq Sends
  /\ deliveries  \in [MessageIds -> Nat]

LEMMA RequestOf ==
  ASSUME CallTypes, NEW s \in Sends
  PROVE  Target(s) \in ThreadIds /\ sendReq[s].scope \in Optional(Units) /\ s \in MessageIds
BY SendArgsAssumption DEF CallTypes, SendRequest, Target, MessageIds

LEMMA SendTypes ==
  ASSUME StoreTypeOK, CallTypes, NEW s \in Sends, SendStep(s) \/ ProviderStep(s) \/ CrashSend(s)
  PROVE  StoreTypeOK' /\ CallTypes'
<1> USE DEF SendGoto, SendSteps
<1>1. CASE StartSend(s)
  BY <1>1, StoreKept DEF StartSend, CallTypes, receiptVars
<1>2. CASE FetchThread(s)
  <2>1. FetchedChannel(s) \in Optional(Channels)
    BY RequestOf DEF FetchedChannel, StoreTypeOK, ThreadRow
  <2> QED BY <1>2, <2>1, StoreKept DEF FetchThread, CallTypes, receiptVars
<1>3. CASE QueueOutbound(s)
  <2>1. QueuedMessage(s) \in MessageRow
    BY RequestOf DEF QueuedMessage, MessageRow, CallTypes, Optional
  <2>2. StoreTypeOK'
    BY <1>3, <2>1, MessageWritten, RequestOf DEF QueueOutbound, StoreTypeOK
  <2> QED BY <1>3, <2>2 DEF QueueOutbound, CallTypes, receiptVars
<1>4. CASE MarkSent(s)
  <2>1. [messages[s] EXCEPT !.status = "sent", !.external_id = ack[s]] \in MessageRow
    <3>1. messages[s] \in MessageRow /\ ack[s] \in Optional(ExternalIds)
      BY RequestOf DEF StoreTypeOK, CallTypes
    <3> QED BY <3>1 DEF MessageRow
  <2>2. WithSent(s) = [messages EXCEPT ![s] = [messages[s] EXCEPT !.status = "sent",
                                                                  !.external_id = ack[s]]]
    BY RequestOf DEF WithSent, StoreTypeOK, MessageRow
  <2>3. StoreTypeOK'
    BY <1>4, <2>1, <2>2, MessageWritten, RequestOf DEF MarkSent, StoreTypeOK
  <2> QED BY <1>4, <2>3 DEF MarkSent, CallTypes, receiptVars
<1>5. CASE TouchSent(s)
  <2>1. threads' \in [ThreadIds -> ThreadRow] /\ clock' \in Nat
    BY <1>5, RequestOf DEF TouchSent, StoreTypeOK, ThreadRow
  <2> QED BY <1>5, <2>1 DEF TouchSent, StoreTypeOK, CallTypes, receiptVars
<1>6. CASE MarkFailed(s)
  <2>1. [messages[s] EXCEPT !.status = "failed"] \in MessageRow
    BY RequestOf DEF StoreTypeOK, MessageRow
  <2>2. StoreTypeOK'
    BY <1>6, <2>1, MessageWritten, RequestOf DEF MarkFailed, WithFailure, StoreTypeOK
  <2> QED BY <1>6, <2>2 DEF MarkFailed, CallTypes, receiptVars
<1>7. CASE PublishFailed(s)
  BY <1>7, StoreKept DEF PublishFailed, CallTypes, receiptVars
<1>8. ASSUME NEW x \in AckIds, ProviderAccepts(s, x) PROVE StoreTypeOK' /\ CallTypes'
  BY <1>8, StoreKept, AckIdsAssumption DEF ProviderAccepts, CallTypes, receiptVars, Optional, Verdicts
<1>9. ASSUME NEW v \in {"rejected", "rejected_at_length"}, ProviderRejects(s, v)
      PROVE  StoreTypeOK' /\ CallTypes'
  BY <1>9, StoreKept DEF ProviderRejects, CallTypes, receiptVars, Verdicts
<1>10. CASE CrashSend(s)
  BY <1>10, StoreKept DEF CrashSend, CallTypes, receiptVars
<1> QED BY <1>1, <1>2, <1>3, <1>4, <1>5, <1>6, <1>7, <1>8, <1>9, <1>10 DEF SendStep, ProviderStep

LEMMA ReceiptTypes ==
  ASSUME StoreTypeOK, CallTypes, NEW r \in Receipts,
         (\E s \in Sends : ReceiptArrives(r, s)) \/ ReceiptStep(r) \/ CrashReceipt(r)
  PROVE  StoreTypeOK' /\ CallTypes'
<1> USE DEF ReceiptGoto, ReceiptSteps
<1>1. ASSUME NEW s \in Sends, ReceiptArrives(r, s) PROVE StoreTypeOK' /\ CallTypes'
  <2>1. [NoReceipt EXCEPT !.channel = sendChannel[s], !.external_id = ack[s],
                          !.scope = sendReq[s].scope] \in ReceiptArgs
    BY RequestOf DEF NoReceipt, ReceiptArgs, CallTypes, Optional
  <2> QED BY <1>1, <2>1, StoreKept DEF ReceiptArrives, CallTypes, sendVars
<1>2. CASE MarkDelivered(r)
  <2>1. PICK m \in Deliverable(r) : /\ messages' = [messages EXCEPT ![m].status = "delivered"]
                                    /\ receipt'  = [receipt EXCEPT ![r].moved = m]
    BY <1>2 DEF MarkDelivered
  <2>2. m \in MessageIds
    BY DEF Deliverable, FoundByExternalId, KeyRows
  <2>3. [messages[m] EXCEPT !.status = "delivered"] \in MessageRow
    BY <2>2 DEF StoreTypeOK, MessageRow
  <2>4. StoreTypeOK'
    BY <1>2, <2>1, <2>2, <2>3, MessageWritten DEF MarkDelivered
  <2>5. [receipt[r] EXCEPT !.moved = m] \in ReceiptArgs
    BY <2>2 DEF CallTypes, ReceiptArgs, Optional
  <2> QED BY <1>2, <2>1, <2>4, <2>5 DEF MarkDelivered, CallTypes, sendVars
<1>3. CASE ReceiptIgnored(r)
  BY <1>3, StoreKept DEF ReceiptIgnored, CallTypes, sendVars
<1>4. CASE PublishDelivered(r)
  <2>1. deliveries' \in [MessageIds -> Nat]
    <3> DEFINE n == deliveries[receipt[r].moved] + 1
    <3>1. deliveries' = [deliveries EXCEPT ![receipt[r].moved] = n]
      BY <1>4 DEF PublishDelivered
    <3>2. receipt[r].moved \in MessageIds => n \in Nat
      BY DEF CallTypes
    <3> HIDE DEF n
    <3> QED BY <3>1, <3>2 DEF CallTypes
  <2> QED BY <1>4, <2>1, StoreKept DEF PublishDelivered, CallTypes, sendVars
<1>5. CASE CrashReceipt(r)
  BY <1>5, StoreKept DEF CrashReceipt, CallTypes, sendVars
<1> QED BY <1>1, <1>2, <1>3, <1>4, <1>5 DEF ReceiptStep

LEMMA OutStepTypes ==
  ASSUME OutTypeOK, [OutNext]_outVars
  PROVE  OutTypeOK'
<1>1. StoreTypeOK /\ CallTypes
  BY DEF OutTypeOK, CallTypes
<1>2. ASSUME StoreTypeOK', CallTypes' PROVE OutTypeOK'
  BY <1>2 DEF OutTypeOK, CallTypes
<1>3. CASE OutCalls
  BY <1>1, <1>2, <1>3, SendTypes, ReceiptTypes DEF OutCalls
<1>4. CASE OutEnvironment
  <2>1. CallTypes'
    BY <1>1, <1>4 DEF OutEnvironment, CallTypes, sendVars, receiptVars
  <2> QED BY <1>1, <1>2, <1>4, <2>1, LifecycleTypes DEF OutEnvironment
<1>5. CASE UNCHANGED outVars
  <2>1. CallTypes'
    BY <1>1, <1>5 DEF outVars, CallTypes, sendVars, receiptVars
  <2> QED BY <1>1, <1>2, <1>5, <2>1, StoreKept DEF outVars
<1> QED BY <1>3, <1>4, <1>5 DEF OutNext, OutQuiescent

\* Every reachable state has its types.
THEOREM OutTypeCorrect == OutSpec => []OutTypeOK
<1>1. OutTypeOK /\ [OutNext]_outVars => OutTypeOK'
  BY OutStepTypes
<1> QED BY OutInitTypes, <1>1, PTL DEF OutSpec

(***************************************************************************)
(* The status of a row and where its call stands                           *)
(***************************************************************************)

\* Before the queued row there is nothing; while the provider is driven the row
\* is queued; what has been marked agrees with the verdict and is final for the
\* call.
PlaceInv(s) ==
  /\ sendPc[s] \in {"idle", "fetch", "queue"} => messages[s].status = "absent"
  /\ sendPc[s] \in {"drive", "mark"} =>
       /\ messages[s].status = "queued" /\ messages[s].external_id = None
       /\ messages[s].channel = sendChannel[s]
  /\ sendPc[s] \in {"touch", "sent"} => messages[s].status \in {"sent", "delivered"}
  /\ sendPc[s] = "publish" => messages[s].status = "failed"

MarkInv(s) ==
  /\ messages[s].status \in {"sent", "delivered"} =>
       /\ verdict[s] = "accepted" /\ messages[s].external_id = ack[s]
       /\ messages[s].channel = sendChannel[s]
       /\ sendPc[s] \in {"touch", "sent", "crashed"}
  /\ messages[s].status = "failed" =>
       /\ verdict[s] = "rejected" /\ messages[s].external_id = None
       /\ sendPc[s] \in {"publish", "refused", "crashed"}
  /\ s \in failures => messages[s].status = "failed"

\* The receipt that delivered a row has arrived, and keeps its key.
ReceivedFor(s) ==
  messages[s].status = "delivered" =>
    \E r \in Receipts :
      /\ receiptPc[r] # "idle"
      /\ KeyOf(r) = <<messages[s].channel, messages[s].external_id>>

SendInv(s) == PlaceInv(s) /\ MarkInv(s) /\ ReceivedFor(s)

\* MessageDelivered is announced by the one receipt that moved the row.
DeliveryInv ==
  /\ DeliveredOnce
  /\ \A r \in Receipts :
       receiptPc[r] = "publish" =>
         /\ receipt[r].moved \in MessageIds
         /\ messages[receipt[r].moved].status = "delivered"
         /\ deliveries[receipt[r].moved] = 0
  /\ \A r, q \in Receipts :
       receiptPc[r] = "publish" /\ receiptPc[q] = "publish" /\ r # q
         => receipt[r].moved # receipt[q].moved

OutInv == (\A s \in Sends : SendInv(s)) /\ DeliveryInv

LEMMA OutInitInv == OutInit => OutInv
BY DEF OutInit, StoreInit, OutCallsInit, OutInv, SendInv, PlaceInv, MarkInv, ReceivedFor,
       DeliveryInv, DeliveredOnce, NoMessage, MessageIds

\* A step of one call leaves the rows of the others, and every receipt, alone.
LEMMA OthersAreKept ==
  ASSUME OutTypeOK, NEW s \in Sends, NEW t \in Sends, t # s,
         SendStep(s) \/ ProviderStep(s) \/ CrashSend(s)
  PROVE  /\ messages'[t] = messages[t] /\ sendPc'[t] = sendPc[t] /\ verdict'[t] = verdict[t]
         /\ ack'[t] = ack[t] /\ sendChannel'[t] = sendChannel[t]
         /\ (t \in failures' <=> t \in failures)
         /\ UNCHANGED receiptVars
<1>1. t \in MessageIds /\ s \in MessageIds
  BY DEF MessageIds
<1> USE <1>1 DEF OutTypeOK, StoreTypeOK, SendGoto, storeVars
<1>2. CASE StartSend(s)
  BY <1>2 DEF StartSend
<1>3. CASE FetchThread(s)
  BY <1>3 DEF FetchThread
<1>4. CASE QueueOutbound(s)
  BY <1>4 DEF QueueOutbound
<1>5. CASE MarkSent(s)
  BY <1>5 DEF MarkSent, WithSent
<1>6. CASE TouchSent(s)
  BY <1>6 DEF TouchSent
<1>7. CASE MarkFailed(s)
  BY <1>7 DEF MarkFailed, WithFailure
<1>8. CASE PublishFailed(s)
  BY <1>8 DEF PublishFailed
<1>9. CASE ProviderStep(s)
  BY <1>9 DEF ProviderStep, ProviderAccepts, ProviderRejects
<1>10. CASE CrashSend(s)
  BY <1>10 DEF CrashSend
<1> QED BY <1>2, <1>3, <1>4, <1>5, <1>6, <1>7, <1>8, <1>9, <1>10 DEF SendStep

LEMMA OtherSends ==
  ASSUME OutTypeOK, NEW s \in Sends, NEW t \in Sends, t # s, SendInv(t),
         SendStep(s) \/ ProviderStep(s) \/ CrashSend(s)
  PROVE  SendInv(t)'
BY OthersAreKept DEF SendInv, PlaceInv, MarkInv, ReceivedFor, receiptVars, KeyOf

LEMMA OwnSend ==
  ASSUME OutTypeOK, NEW s \in Sends, SendInv(s),
         SendStep(s) \/ ProviderStep(s) \/ CrashSend(s)
  PROVE  SendInv(s)'
<1>1. s \in MessageIds /\ messages[s] \in MessageRow /\ ack[s] \in Optional(ExternalIds)
  BY DEF OutTypeOK, StoreTypeOK, MessageIds
<1>2. messages \in [MessageIds -> MessageRow] /\ sendPc \in [Sends -> SendSteps]
      /\ sendChannel \in [Sends -> Optional(Channels)] /\ verdict \in [Sends -> Verdicts]
      /\ ack \in [Sends -> Optional(ExternalIds)]
  BY DEF OutTypeOK, StoreTypeOK
<1>3. ASSUME messages'[s] = messages[s], UNCHANGED receiptVars PROVE ReceivedFor(s)'
  BY <1>3 DEF SendInv, ReceivedFor, receiptVars, KeyOf
<1>4. ASSUME messages'[s].status # "delivered" PROVE ReceivedFor(s)'
  BY <1>4 DEF ReceivedFor
<1> USE <1>1, <1>2 DEF SendGoto, SendInv, PlaceInv, MarkInv, SendSteps
<1>5. CASE StartSend(s)
  BY <1>3, <1>5 DEF StartSend, storeVars
<1>6. CASE FetchThread(s)
  BY <1>3, <1>6 DEF FetchThread, storeVars
<1>7. CASE QueueOutbound(s)
  <2>1. CASE SendStorable(s)
    <3>1. messages'[s] = QueuedMessage(s)
      BY <1>7, <2>1 DEF QueueOutbound
    <3>2. messages'[s].status = "queued" /\ messages'[s].external_id = None
          /\ messages'[s].channel = sendChannel[s]
      BY <3>1 DEF QueuedMessage
    <3> QED BY <1>4, <1>7, <2>1, <3>2 DEF QueueOutbound
  <2>2. CASE ~SendStorable(s)
    BY <1>3, <1>7, <2>2 DEF QueueOutbound
  <2> QED BY <2>1, <2>2
<1>8. CASE MarkSent(s)
  <2>1. CASE SentKeyIsTaken(s)
    BY <1>3, <1>8, <2>1 DEF MarkSent
  <2>2. CASE ~SentKeyIsTaken(s)
    <3>1. messages'[s].status = "sent" /\ messages'[s].external_id = ack[s]
          /\ messages'[s].channel = messages[s].channel
      BY <1>8, <2>2 DEF MarkSent, WithSent, MessageRow
    <3>2. messages[s].channel = sendChannel[s]
      BY <1>8 DEF MarkSent
    <3> QED BY <1>4, <1>8, <2>2, <3>1, <3>2 DEF MarkSent
  <2> QED BY <2>1, <2>2
<1>9. CASE TouchSent(s)
  BY <1>3, <1>9 DEF TouchSent
<1>10. CASE MarkFailed(s)
  <2>1. CASE ~ReasonFits(s)
    BY <1>3, <1>10, <2>1 DEF MarkFailed
  <2>2. CASE ReasonFits(s)
    <3>1. messages'[s].status = "failed" /\ messages'[s].external_id = messages[s].external_id
      BY <1>10, <2>2 DEF MarkFailed, WithFailure, MessageRow
    <3> QED BY <1>4, <1>10, <2>2, <3>1 DEF MarkFailed, ReasonFits
  <2> QED BY <2>1, <2>2
<1>11. CASE PublishFailed(s)
  BY <1>3, <1>11 DEF PublishFailed, storeVars
<1>12. CASE ProviderStep(s)
  BY <1>3, <1>12 DEF ProviderStep, ProviderAccepts, ProviderRejects, storeVars
<1>13. CASE CrashSend(s)
  BY <1>3, <1>13 DEF CrashSend, storeVars, SendEnded
<1> QED BY <1>5, <1>6, <1>7, <1>8, <1>9, <1>10, <1>11, <1>12, <1>13 DEF SendStep

\* No send writes a delivered row.
LEMMA DeliveredStays ==
  ASSUME OutTypeOK, NEW s \in Sends, SendInv(s),
         SendStep(s) \/ ProviderStep(s) \/ CrashSend(s),
         NEW m \in MessageIds, messages[m].status = "delivered"
  PROVE  messages'[m].status = "delivered" /\ UNCHANGED receiptVars
<1>1. s = m => sendPc[s] \in {"touch", "sent", "crashed"}
  BY DEF SendInv, MarkInv
<1>2. messages \in [MessageIds -> MessageRow]
  BY DEF OutTypeOK, StoreTypeOK
<1> USE <1>1, <1>2 DEF SendGoto, storeVars
<1>3. CASE StartSend(s) \/ FetchThread(s) \/ TouchSent(s) \/ PublishFailed(s) \/ CrashSend(s)
           \/ ProviderStep(s)
  BY <1>3 DEF StartSend, FetchThread, TouchSent, PublishFailed, CrashSend, ProviderStep,
              ProviderAccepts, ProviderRejects
<1>4. CASE QueueOutbound(s)
  BY <1>4 DEF QueueOutbound
<1>5. CASE MarkSent(s)
  BY <1>5 DEF MarkSent, WithSent
<1>6. CASE MarkFailed(s)
  BY <1>6 DEF MarkFailed, WithFailure
<1> QED BY <1>3, <1>4, <1>5, <1>6 DEF SendStep

LEMMA SendKeepsDelivery ==
  ASSUME OutTypeOK, NEW s \in Sends, SendInv(s), DeliveryInv,
         SendStep(s) \/ ProviderStep(s) \/ CrashSend(s)
  PROVE  DeliveryInv'
<1>1. UNCHANGED receiptVars
  BY DEF SendStep, ProviderStep, CrashSend, StartSend, FetchThread, QueueOutbound, MarkSent,
         TouchSent, MarkFailed, PublishFailed, ProviderAccepts, ProviderRejects
<1> QED BY <1>1, DeliveredStays DEF DeliveryInv, DeliveredOnce, receiptVars

\* The compare-and-set of mark_delivered: only a sent row moves, so no earlier
\* receipt has moved it.
LEMMA ReceiptKeeps ==
  ASSUME OutTypeOK, OutInv, NEW r \in Receipts,
         (\E s \in Sends : ReceiptArrives(r, s)) \/ ReceiptStep(r) \/ CrashReceipt(r)
  PROVE  OutInv'
<1>1. receiptPc \in [Receipts -> ReceiptSteps] /\ receipt \in [Receipts -> ReceiptArgs]
      /\ deliveries \in [MessageIds -> Nat] /\ messages \in [MessageIds -> MessageRow]
  BY DEF OutTypeOK, StoreTypeOK
<1>2. ASSUME messages' = messages, UNCHANGED sendVars,
             \A q \in Receipts : receiptPc[q] # "idle" =>
               receiptPc'[q] # "idle" /\ receipt'[q] = receipt[q]
      PROVE  \A s \in Sends : SendInv(s)'
  BY <1>2 DEF OutInv, SendInv, PlaceInv, MarkInv, ReceivedFor, sendVars, KeyOf
<1>3. ASSUME messages' = messages, deliveries' = deliveries,
             \A q \in Receipts : receiptPc'[q] = "publish" =>
               receiptPc[q] = "publish" /\ receipt'[q] = receipt[q]
      PROVE  DeliveryInv'
  BY <1>3 DEF OutInv, DeliveryInv, DeliveredOnce
<1> USE <1>1 DEF ReceiptGoto
<1>4. ASSUME NEW s \in Sends, ReceiptArrives(r, s) PROVE OutInv'
  <2>1. messages' = messages /\ deliveries' = deliveries /\ UNCHANGED sendVars
    BY <1>4 DEF ReceiptArrives, storeVars
  <2>2. \A q \in Receipts : /\ receiptPc[q] # "idle" => receiptPc'[q] # "idle" /\ receipt'[q] = receipt[q]
                            /\ receiptPc'[q] = "publish" => receiptPc[q] = "publish" /\ receipt'[q] = receipt[q]
    BY <1>4 DEF ReceiptArrives
  <2> QED BY <1>2, <1>3, <2>1, <2>2 DEF OutInv
<1>5. CASE MarkDelivered(r)
  <2>1. PICK m \in Deliverable(r) : /\ messages' = [messages EXCEPT ![m].status = "delivered"]
                                    /\ receipt'  = [receipt EXCEPT ![r].moved = m]
    BY <1>5 DEF MarkDelivered
  <2>2. m \in MessageIds /\ messages[m].status = "sent"
        /\ KeyOf(r) = <<messages[m].channel, messages[m].external_id>>
    BY DEF Deliverable, FoundByExternalId, KeyRows, KeyOf
  <2>3. /\ messages'[m].status = "delivered" /\ messages'[m].channel = messages[m].channel
        /\ messages'[m].external_id = messages[m].external_id
        /\ \A k \in MessageIds : k # m => messages'[k] = messages[k]
    BY <2>1, <2>2 DEF MessageRow
  <2>4. /\ \A q \in Receipts : q # r => receiptPc'[q] = receiptPc[q] /\ receipt'[q] = receipt[q]
        /\ receiptPc[r] = "update" /\ receiptPc'[r] = "publish"
        /\ receipt'[r].moved = m /\ receipt'[r].channel = receipt[r].channel
        /\ receipt'[r].external_id = receipt[r].external_id
        /\ UNCHANGED <<sendVars, deliveries>>
    BY <1>5, <2>1 DEF MarkDelivered, ReceiptArgs
  <2>5. \A q \in Receipts : KeyOf(q)' = KeyOf(q) /\ (receiptPc[q] # "idle" => receiptPc'[q] # "idle")
    BY <2>4 DEF KeyOf
  <2>6. ASSUME NEW s \in Sends PROVE SendInv(s)'
    <3>1. CASE s = m
      <4>1. PlaceInv(s)' /\ MarkInv(s)'
        BY <2>2, <2>3, <2>4, <3>1 DEF OutInv, SendInv, PlaceInv, MarkInv, sendVars
      <4>2. ReceivedFor(s)'
        BY <2>2, <2>3, <2>4, <2>5, <3>1 DEF ReceivedFor
      <4> QED BY <4>1, <4>2 DEF SendInv
    <3>2. CASE s # m
      <4>1. messages'[s] = messages[s]
        BY <2>3, <3>2 DEF MessageIds
      <4>2. ReceivedFor(s)'
        BY <2>5, <4>1 DEF OutInv, SendInv, ReceivedFor
      <4>3. PlaceInv(s)' /\ MarkInv(s)'
        BY <2>4, <4>1 DEF OutInv, SendInv, PlaceInv, MarkInv, sendVars
      <4> QED BY <4>2, <4>3 DEF SendInv
    <3> QED BY <3>1, <3>2
  <2>7. deliveries[m] = 0
    BY <2>2 DEF OutInv, DeliveryInv, DeliveredOnce
  <2>8. \A k \in MessageIds : messages[k].status = "delivered" => messages'[k].status = "delivered"
    BY <2>3
  <2>9. \A q \in Receipts : q # r /\ receiptPc[q] = "publish" => receipt[q].moved # m
    BY <2>2 DEF OutInv, DeliveryInv
  <2>10. DeliveredOnce'
    BY <2>4, <2>8 DEF OutInv, DeliveryInv, DeliveredOnce
  <2>11. DeliveryInv'
    BY <2>2, <2>3, <2>4, <2>7, <2>8, <2>9, <2>10 DEF OutInv, DeliveryInv
  <2> QED BY <2>6, <2>11 DEF OutInv
<1>6. CASE ReceiptIgnored(r) \/ CrashReceipt(r)
  <2>1. messages' = messages /\ deliveries' = deliveries /\ UNCHANGED <<sendVars, receipt>>
    BY <1>6 DEF ReceiptIgnored, CrashReceipt, storeVars
  <2>2. \A q \in Receipts : /\ receiptPc[q] # "idle" => receiptPc'[q] # "idle"
                            /\ receiptPc'[q] = "publish" => receiptPc[q] = "publish"
    BY <1>6 DEF ReceiptIgnored, CrashReceipt
  <2> QED BY <1>2, <1>3, <2>1, <2>2 DEF OutInv
<1>7. CASE PublishDelivered(r)
  <2> DEFINE m == receipt[r].moved
  <2>1. m \in MessageIds /\ messages[m].status = "delivered" /\ deliveries[m] = 0
    BY <1>7 DEF PublishDelivered, OutInv, DeliveryInv
  <2>2. /\ messages' = messages /\ UNCHANGED <<sendVars, receipt>>
        /\ deliveries' = [deliveries EXCEPT ![m] = 1]
        /\ receiptPc[r] = "publish" /\ receiptPc' = [receiptPc EXCEPT ![r] = "done"]
    BY <1>7, <2>1 DEF PublishDelivered, storeVars
  <2>3. \A s \in Sends : SendInv(s)'
    BY <1>2, <2>2
  <2>4. DeliveryInv'
    BY <2>1, <2>2 DEF OutInv, DeliveryInv, DeliveredOnce
  <2> QED BY <2>3, <2>4 DEF OutInv
<1> QED BY <1>4, <1>5, <1>6, <1>7 DEF ReceiptStep

LEMMA OutStepInv ==
  ASSUME OutTypeOK, OutInv, [OutNext]_outVars
  PROVE  OutInv'
<1>1. ASSUME NEW s \in Sends, SendStep(s) \/ ProviderStep(s) \/ CrashSend(s) PROVE OutInv'
  BY <1>1, OwnSend, OtherSends, SendKeepsDelivery DEF OutInv
<1>2. ASSUME messages' = messages, UNCHANGED <<sendVars, receiptVars>> PROVE OutInv'
  BY <1>2 DEF OutInv, SendInv, PlaceInv, MarkInv, ReceivedFor, DeliveryInv, DeliveredOnce,
              sendVars, receiptVars, KeyOf
<1>3. CASE OutEnvironment
  <2>1. messages' = messages
    BY <1>3 DEF OutEnvironment, LifecycleStep, OpenThread, LinkThread, CloseThread,
                SoftDeleteThread, UpdateThread
  <2> QED BY <1>2, <1>3, <2>1 DEF OutEnvironment
<1>4. CASE UNCHANGED outVars
  BY <1>2, <1>4 DEF outVars, storeVars
<1>5. CASE OutCalls
  BY <1>1, <1>5, ReceiptKeeps DEF OutCalls
<1> QED BY <1>3, <1>4, <1>5 DEF OutNext, OutQuiescent

LEMMA OutInvHolds == OutSpec => [](OutTypeOK /\ OutInv)
<1>1. OutInit => OutTypeOK /\ OutInv
  BY OutInitTypes, OutInitInv
<1>2. OutTypeOK /\ OutInv /\ [OutNext]_outVars => (OutTypeOK /\ OutInv)'
  BY OutStepTypes, OutStepInv
<1> QED BY <1>1, <1>2, PTL DEF OutSpec

\* The status of an outbound row is what the provider said of that message, under
\* every interleaving of sends and receipts and every crash between two statements.
THEOREM StatusIsTrue == OutSpec => []StatusTellsTheTruth
<1>1. OutInv => StatusTellsTheTruth
  BY DEF OutInv, SendInv, PlaceInv, MarkInv, ReceivedFor, StatusTellsTheTruth
<1> QED BY <1>1, OutInvHolds, PTL

\* However many receipts race, one of them announces the delivery.
THEOREM OneDelivery == OutSpec => []DeliveredOnce
<1>1. OutInv => DeliveredOnce
  BY DEF OutInv, DeliveryInv
<1> QED BY <1>1, OutInvHolds, PTL

(***************************************************************************)
(* What becomes of a message is written down, and told                     *)
(***************************************************************************)

\* FatesAreTold needs two more facts of a send: its row comes without a key, and once
\* the provider has accepted it, it is past the drive and has an id.
MarksInv(s) ==
  /\ messages[s].status = "absent" => messages[s].external_id = None
  /\ verdict[s] = "accepted" =>
       ack[s] # None /\ sendPc[s] \notin {"idle", "fetch", "queue", "drive"}
  /\ messages[s].status = "queued" /\ verdict[s] = "accepted" =>
       sendPc[s] \in {"mark", "crashed"} \/ KeyRows(sendChannel[s], ack[s]) # {}
  /\ messages[s].status = "failed" => s \in failures \/ sendPc[s] \in {"publish", "crashed"}

\* A receipt has moved the row and announced it, or it has not come to that.
ToldInv(s) ==
  messages[s].status = "delivered" =>
    \/ deliveries[s] = 1
    \/ \E r \in Receipts : receipt[r].moved = s /\ receiptPc[r] \in {"publish", "crashed"}

TellingInv == \A s \in Sends : MarksInv(s) /\ ToldInv(s)

\* Rows that have a key keep it.
KeyedRowsStay ==
  \A m \in MessageIds : messages[m].external_id # None =>
    /\ messages'[m].channel = messages[m].channel
    /\ messages'[m].external_id = messages[m].external_id

\* A step that leaves a send, its row and the keys there are alone.
LEMMA OthersMarks ==
  ASSUME KeyedRowsStay, NEW s \in Sends, MarksInv(s),
         messages'[s] = messages[s], sendPc'[s] = sendPc[s], verdict'[s] = verdict[s],
         ack'[s] = ack[s], sendChannel'[s] = sendChannel[s], s \in failures => s \in failures'
  PROVE  MarksInv(s)'
<1>1. ASSUME messages[s].status = "queued", verdict[s] = "accepted",
             KeyRows(sendChannel[s], ack[s]) # {}
      PROVE  KeyRows(sendChannel[s], ack[s])' # {}
  <2>1. PICK m \in MessageIds :
          messages[m].channel = sendChannel[s] /\ messages[m].external_id = ack[s]
    BY <1>1 DEF KeyRows
  <2>2. messages'[m].channel = sendChannel'[s] /\ messages'[m].external_id = ack'[s]
    BY <1>1, <2>1 DEF KeyedRowsStay, MarksInv
  <2> QED BY <2>2 DEF KeyRows
<1> QED BY <1>1 DEF MarksInv

LEMMA SendMarks ==
  ASSUME OutTypeOK, OutInv, TellingInv, NEW s \in Sends,
         SendStep(s) \/ ProviderStep(s) \/ CrashSend(s)
  PROVE  /\ KeyedRowsStay /\ MarksInv(s)'
         /\ messages'[s].status = "delivered" => messages[s].status = "delivered"
<1>1. /\ s \in MessageIds /\ messages[s] \in MessageRow /\ SendInv(s) /\ MarksInv(s)
      /\ messages \in [MessageIds -> MessageRow] /\ sendPc \in [Sends -> SendSteps]
      /\ verdict \in [Sends -> Verdicts] /\ ack \in [Sends -> Optional(ExternalIds)]
      /\ sendChannel \in [Sends -> Optional(Channels)]
  BY DEF OutTypeOK, StoreTypeOK, OutInv, TellingInv, MessageIds
<1>2. ASSUME messages' = messages PROVE KeyedRowsStay
  BY <1>2 DEF KeyedRowsStay
<1>3. ASSUME NEW row, messages' = [messages EXCEPT ![s] = row], messages[s].external_id = None
      PROVE  KeyedRowsStay
  BY <1>1, <1>3 DEF KeyedRowsStay
<1> USE <1>1 DEF SendGoto, MarksInv
<1>4. CASE StartSend(s) \/ FetchThread(s)
  <2>1. messages' = messages /\ messages[s].status = "absent" /\ verdict[s] # "accepted"
        /\ UNCHANGED <<verdict, ack>>
    BY <1>4 DEF StartSend, FetchThread, storeVars, SendInv, PlaceInv
  <2> QED BY <1>2, <2>1
<1>5. CASE QueueOutbound(s)
  <2>1. /\ messages[s].status = "absent" /\ verdict[s] # "accepted"
        /\ UNCHANGED <<verdict, ack, failures>>
    BY <1>5 DEF QueueOutbound, SendInv, PlaceInv
  <2>2. CASE SendStorable(s)
    <3>1. messages' = [messages EXCEPT ![s] = QueuedMessage(s)]
          /\ QueuedMessage(s).status = "queued"
      BY <1>5, <2>2 DEF QueueOutbound, QueuedMessage
    <3> QED BY <1>3, <2>1, <3>1
  <2>3. CASE ~SendStorable(s)
    BY <1>2, <1>5, <2>1, <2>3 DEF QueueOutbound
  <2> QED BY <2>2, <2>3
<1>6. CASE MarkSent(s)
  <2>1. messages[s].external_id = None /\ UNCHANGED <<verdict, ack, sendChannel, failures>>
    BY <1>6 DEF MarkSent, SendInv, PlaceInv
  <2>2. CASE SentKeyIsTaken(s)
    <3>1. messages' = messages /\ KeyRows(sendChannel[s], ack[s])' # {}
      BY <1>6, <2>1, <2>2 DEF MarkSent, SentKeyIsTaken, KeyRows
    <3>2. messages[s].status = "queued"
      BY <1>6 DEF MarkSent, SendInv, PlaceInv
    <3> QED BY <1>2, <1>6, <2>1, <3>1, <3>2 DEF MarkSent
  <2>3. CASE ~SentKeyIsTaken(s)
    <3> DEFINE row == [messages[s] EXCEPT !.status = "sent", !.external_id = ack[s]]
    <3>1. messages' = [messages EXCEPT ![s] = row] /\ row.status = "sent"
      BY <1>6, <2>3 DEF MarkSent, WithSent, MessageRow
    <3> HIDE DEF row
    <3> QED BY <1>3, <1>6, <2>1, <3>1 DEF MarkSent
  <2> QED BY <2>2, <2>3
<1>7. CASE TouchSent(s) \/ PublishFailed(s)
  <2>1. messages' = messages /\ messages[s].status \notin {"absent", "queued"}
        /\ UNCHANGED <<verdict, ack>> /\ (messages[s].status = "failed" => s \in failures')
    BY <1>7 DEF TouchSent, PublishFailed, storeVars, SendInv, PlaceInv
  <2> QED BY <1>2, <1>7, <2>1 DEF TouchSent, PublishFailed
<1>8. CASE MarkFailed(s)
  <2>1. /\ messages[s].external_id = None /\ messages[s].status = "queued"
        /\ verdict[s] # "accepted" /\ UNCHANGED <<verdict, ack>>
    BY <1>8 DEF MarkFailed, WasRejected, SendInv, PlaceInv
  <2>2. CASE ReasonFits(s)
    <3> DEFINE row == [messages[s] EXCEPT !.status = "failed"]
    <3>1. messages' = [messages EXCEPT ![s] = row] /\ row.status = "failed"
      BY <1>8, <2>2 DEF MarkFailed, WithFailure, MessageRow
    <3> HIDE DEF row
    <3> QED BY <1>3, <1>8, <2>1, <2>2, <3>1 DEF MarkFailed
  <2>3. CASE ~ReasonFits(s)
    BY <1>2, <1>8, <2>1, <2>3 DEF MarkFailed
  <2> QED BY <2>2, <2>3
<1>9. CASE ProviderStep(s)
  <2>1. messages' = messages /\ messages[s].status = "queued" /\ sendPc'[s] = "mark"
    BY <1>9 DEF ProviderStep, ProviderAccepts, ProviderRejects, storeVars, SendInv, PlaceInv
  <2>2. verdict'[s] = "accepted" => ack'[s] # None
    BY <1>9, AckIdsAssumption, NoneAssumption DEF ProviderStep, ProviderAccepts, ProviderRejects
  <2> QED BY <1>2, <2>1, <2>2
<1>10. CASE CrashSend(s)
  BY <1>2, <1>10 DEF CrashSend, storeVars
<1> QED BY <1>4, <1>5, <1>6, <1>7, <1>8, <1>9, <1>10 DEF SendStep

LEMMA SendTells ==
  ASSUME OutTypeOK, OutInv, TellingInv, NEW s \in Sends,
         SendStep(s) \/ ProviderStep(s) \/ CrashSend(s)
  PROVE  TellingInv'
<1>1. ASSUME NEW t \in Sends PROVE MarksInv(t)'
  <2>1. CASE t = s
    BY <2>1, SendMarks
  <2>2. CASE t # s
    BY <2>2, SendMarks, OthersAreKept, OthersMarks DEF TellingInv
  <2> QED BY <2>1, <2>2
<1>2. UNCHANGED receiptVars
  BY DEF SendStep, ProviderStep, StartSend, FetchThread, QueueOutbound, MarkSent, TouchSent,
         MarkFailed, PublishFailed, ProviderAccepts, ProviderRejects, CrashSend
<1>3. ASSUME NEW t \in Sends PROVE ToldInv(t)'
  <2>1. messages'[t].status = "delivered" => messages[t].status = "delivered"
    BY SendMarks, OthersAreKept
  <2> QED BY <1>2, <2>1 DEF ToldInv, TellingInv, receiptVars
<1> QED BY <1>1, <1>3 DEF TellingInv

\* A receipt takes its message over as it moves the row, and lets go of it only by
\* announcing it.
LEMMA ReceiptTells ==
  ASSUME OutTypeOK, OutInv, TellingInv, NEW r \in Receipts,
         (\E s \in Sends : ReceiptArrives(r, s)) \/ ReceiptStep(r) \/ CrashReceipt(r)
  PROVE  TellingInv'
<1>1. /\ messages \in [MessageIds -> MessageRow] /\ receipt \in [Receipts -> ReceiptArgs]
      /\ receiptPc \in [Receipts -> ReceiptSteps] /\ deliveries \in [MessageIds -> Nat]
      /\ \A s \in Sends : s \in MessageIds
  BY DEF OutTypeOK, StoreTypeOK, MessageIds
<1>2. ASSUME messages' = messages, UNCHANGED sendVars PROVE \A s \in Sends : MarksInv(s)'
  BY <1>2 DEF TellingInv, MarksInv, sendVars, KeyRows
<1> USE <1>1 DEF ReceiptGoto
<1>3. CASE MarkDelivered(r)
  <2>1. PICK m \in Deliverable(r) : /\ messages' = [messages EXCEPT ![m].status = "delivered"]
                                    /\ receipt'  = [receipt EXCEPT ![r].moved = m]
    BY <1>3 DEF MarkDelivered
  <2>2. m \in MessageIds /\ messages[m].status = "sent"
    BY DEF Deliverable, FoundByExternalId, KeyRows
  <2>3. /\ messages'[m].status = "delivered" /\ messages'[m].channel = messages[m].channel
        /\ messages'[m].external_id = messages[m].external_id
        /\ \A k \in MessageIds : k # m => messages'[k] = messages[k]
    BY <2>1, <2>2 DEF MessageRow
  <2>4. /\ \A q \in Receipts : q # r => receiptPc'[q] = receiptPc[q] /\ receipt'[q] = receipt[q]
        /\ receiptPc[r] = "update" /\ receiptPc'[r] = "publish" /\ receipt'[r].moved = m
        /\ UNCHANGED sendVars /\ UNCHANGED deliveries
    BY <1>3, <2>1 DEF MarkDelivered, ReceiptArgs
  <2>5. KeyedRowsStay
    BY <2>3 DEF KeyedRowsStay
  <2>6. ASSUME NEW s \in Sends, s # m PROVE MarksInv(s)'
    BY <2>3, <2>4, <2>5, <2>6, OthersMarks DEF TellingInv, sendVars
  <2>7. ASSUME NEW s \in Sends, s = m PROVE MarksInv(s)'
    BY <2>2, <2>3, <2>4, <2>7 DEF TellingInv, MarksInv, sendVars
  <2>8. ASSUME NEW s \in Sends PROVE ToldInv(s)'
    BY <2>3, <2>4 DEF TellingInv, ToldInv
  <2> QED BY <2>6, <2>7, <2>8 DEF TellingInv
<1>4. CASE (\E s \in Sends : ReceiptArrives(r, s)) \/ ReceiptIgnored(r) \/ CrashReceipt(r)
  <2>1. messages' = messages /\ deliveries' = deliveries /\ UNCHANGED sendVars
    BY <1>4 DEF ReceiptArrives, ReceiptIgnored, CrashReceipt, storeVars
  <2>2. \A q \in Receipts : receiptPc[q] \in {"publish", "crashed"} =>
          receiptPc'[q] \in {"publish", "crashed"} /\ receipt'[q] = receipt[q]
    BY <1>4 DEF ReceiptArrives, ReceiptIgnored, CrashReceipt
  <2>3. \A s \in Sends : ToldInv(s)'
    BY <2>1, <2>2 DEF TellingInv, ToldInv
  <2> QED BY <1>2, <2>1, <2>3 DEF TellingInv
<1>5. CASE PublishDelivered(r)
  <2> DEFINE m == receipt[r].moved
  <2>1. m \in MessageIds /\ deliveries[m] = 0
    BY <1>5 DEF PublishDelivered, OutInv, DeliveryInv
  <2>2. /\ messages' = messages /\ UNCHANGED <<sendVars, receipt>>
        /\ deliveries'[m] = 1 /\ \A k \in MessageIds : k # m => deliveries'[k] = deliveries[k]
        /\ receiptPc' = [receiptPc EXCEPT ![r] = "done"]
    BY <1>5, <2>1 DEF PublishDelivered, storeVars
  <2>3. ASSUME NEW s \in Sends PROVE ToldInv(s)'
    BY <2>2 DEF TellingInv, ToldInv
  <2> QED BY <1>2, <2>2, <2>3 DEF TellingInv
<1> QED BY <1>3, <1>4, <1>5 DEF ReceiptStep

LEMMA StepTells ==
  ASSUME OutTypeOK, OutInv, TellingInv, [OutNext]_outVars
  PROVE  TellingInv'
<1>1. ASSUME messages' = messages, UNCHANGED <<sendVars, receiptVars>> PROVE TellingInv'
  BY <1>1 DEF TellingInv, MarksInv, ToldInv, KeyRows, sendVars, receiptVars
<1>2. CASE OutEnvironment
  <2>1. messages' = messages
    BY <1>2 DEF OutEnvironment, LifecycleStep, OpenThread, LinkThread, CloseThread,
                SoftDeleteThread, UpdateThread
  <2> QED BY <1>1, <1>2, <2>1 DEF OutEnvironment
<1>3. CASE UNCHANGED outVars
  BY <1>1, <1>3 DEF outVars, storeVars
<1>4. CASE OutCalls
  BY <1>4, SendTells, ReceiptTells DEF OutCalls
<1> QED BY <1>2, <1>3, <1>4 DEF OutNext, OutQuiescent

LEMMA InitTells == OutCallsInit /\ StoreInit => TellingInv
BY DEF StoreInit, OutCallsInit, TellingInv, MarksInv, ToldInv, NoMessage, MessageIds

LEMMA TellingIsTold == OutTypeOK /\ OutInv /\ TellingInv => FatesAreTold
BY DEF OutTypeOK, OutInv, SendInv, MarkInv, TellingInv, MarksInv, ToldInv, FatesAreTold

\* What the provider said of a message is stored and what is stored is told, unless a
\* call stopped half way: for any sends and receipts, in any order.
THEOREM NoFateIsLost == OutSpec => []FatesAreTold
<1>1. OutInit => TellingInv
  BY InitTells DEF OutInit
<1>2. OutTypeOK /\ OutInv /\ TellingInv /\ [OutNext]_outVars => TellingInv'
  BY StepTells
<1> QED BY <1>1, <1>2, OutInvHolds, TellingIsTold, PTL DEF OutSpec

(***************************************************************************)
(* A closed thread                                                         *)
(***************************************************************************)

\* Until the provider has answered there is no verdict.
Undriven(s) == sendPc[s] \in {"idle", "fetch", "queue", "drive"} => verdict[s] = "none"

LEMMA StepUndriven ==
  ASSUME OutTypeOK, NEW s \in Sends, Undriven(s), [OutNext]_outVars
  PROVE  Undriven(s)'
<1>1. sendPc \in [Sends -> SendSteps] /\ verdict \in [Sends -> Verdicts]
  BY DEF OutTypeOK
<1> USE <1>1 DEF Undriven
<1>2. ASSUME NEW r \in Sends, SendStep(r) PROVE Undriven(s)'
  BY <1>2 DEF SendStep, SendGoto, StartSend, FetchThread, QueueOutbound, MarkSent, TouchSent,
              MarkFailed, PublishFailed
<1>3. ASSUME NEW r \in Sends, ProviderStep(r) \/ CrashSend(r) PROVE Undriven(s)'
  BY <1>3 DEF ProviderStep, ProviderAccepts, ProviderRejects, CrashSend, SendGoto
<1>4. ASSUME NEW r \in Receipts,
             (\E t \in Sends : ReceiptArrives(r, t)) \/ ReceiptStep(r) \/ CrashReceipt(r)
      PROVE  Undriven(s)'
  BY <1>4 DEF ReceiptArrives, ReceiptStep, MarkDelivered, ReceiptIgnored, PublishDelivered,
              CrashReceipt, sendVars
<1>5. OutEnvironment \/ UNCHANGED outVars => Undriven(s)'
  BY DEF OutEnvironment, outVars, sendVars
<1> QED BY <1>2, <1>3, <1>4, <1>5 DEF OutNext, OutCalls, OutQuiescent

\* Nothing reopens a thread: not the lifecycle calls, not a send that touches it.
LEMMA ClosedStays ==
  ASSUME OutTypeOK, [OutNext]_outVars, NEW t \in ThreadIds, threads[t].status = "closed"
  PROVE  threads'[t].status = "closed"
<1>1. threads \in [ThreadIds -> ThreadRow]
  BY DEF OutTypeOK, StoreTypeOK
<1>2. ASSUME NEW s \in Sends, SendStep(s) \/ ProviderStep(s) \/ CrashSend(s)
      PROVE  threads'[t].status = "closed"
  <2>1. CASE TouchSent(s)
    BY <1>1, <2>1 DEF TouchSent, ThreadRow
  <2>2. CASE ~TouchSent(s)
    BY <1>2, <2>2 DEF SendStep, StartSend, FetchThread, QueueOutbound, MarkSent, MarkFailed,
                      PublishFailed, ProviderStep, ProviderAccepts, ProviderRejects, CrashSend, storeVars
  <2> QED BY <2>1, <2>2
<1>3. ASSUME NEW r \in Receipts,
             (\E s \in Sends : ReceiptArrives(r, s)) \/ ReceiptStep(r) \/ CrashReceipt(r)
      PROVE  UNCHANGED threads
  BY <1>3 DEF ReceiptArrives, ReceiptStep, MarkDelivered, ReceiptIgnored, PublishDelivered,
              CrashReceipt, storeVars
<1>4. ASSUME LifecycleStep PROVE threads'[t].status = "closed"
  <2>1. ASSUME NEW u \in ThreadIds, NEW row, UpdateThread(u, row),
               threads[u].status = "closed" => row.status = "closed"
        PROVE  threads'[t].status = "closed"
    BY <1>1, <2>1 DEF UpdateThread
  <2>2. CASE \E o \in Opens, ch \in Channels, p \in Optional(Parties), ref \in Optional(Handles),
                u \in Stampable : OpenThread(o, ch, p, ref, u)
    BY <2>1, <2>2 DEF OpenThread, ThreadIds
  <2>3. ASSUME NEW u \in ThreadIds, NEW st \in SubjectTypes, NEW sid \in SubjectIds,
               LinkThread(u, st, sid)
        PROVE  threads'[t].status = "closed"
    BY <1>1, <2>1, <2>3 DEF LinkThread, ThreadRow
  <2>4. ASSUME NEW u \in ThreadIds, CloseThread(u) \/ SoftDeleteThread(u)
        PROVE  threads'[t].status = "closed"
    BY <1>1, <2>1, <2>4 DEF CloseThread, SoftDeleteThread, ThreadRow
  <2> QED BY <1>4, <2>2, <2>3, <2>4 DEF LifecycleStep
<1>5. UNCHANGED outVars => UNCHANGED threads
  BY DEF outVars, storeVars
<1> QED BY <1>2, <1>3, <1>4, <1>5 DEF OutNext, OutCalls, OutEnvironment, OutQuiescent

\* A send that has not read its thread before the close, and now never gets past the read.
ShutOut(s) ==
  /\ threads[Target(s)].status = "closed"
  /\ verdict[s] = "none"
  /\ sendPc[s] \in {"idle", "fetch", "refused", "crashed"}

LEMMA StepShutOut ==
  ASSUME OutTypeOK, NEW s \in Sends, ShutOut(s), [OutNext]_outVars
  PROVE  ShutOut(s)'
<1>1. /\ sendPc \in [Sends -> SendSteps] /\ verdict \in [Sends -> Verdicts]
      /\ Target(s) \in ThreadIds
  BY RequestOf DEF OutTypeOK, CallTypes
<1>2. UNCHANGED sendReq
  BY DEF OutNext, OutCalls, OutEnvironment, OutQuiescent, SendStep, ProviderStep, StartSend,
         FetchThread, QueueOutbound, MarkSent, TouchSent, MarkFailed, PublishFailed, ProviderAccepts,
         ProviderRejects, CrashSend, ReceiptArrives, ReceiptStep, MarkDelivered, ReceiptIgnored,
         PublishDelivered, CrashReceipt, outVars, sendVars
<1>3. threads'[Target(s)'].status = "closed"
  BY <1>1, <1>2, ClosedStays DEF ShutOut, Target
<1>4. verdict'[s] = "none" /\ sendPc'[s] \in {"idle", "fetch", "refused", "crashed"}
  <2> USE <1>1 DEF ShutOut
  <2>1. ASSUME NEW r \in Sends, SendStep(r)
        PROVE  verdict'[s] = "none" /\ sendPc'[s] \in {"idle", "fetch", "refused", "crashed"}
    BY <2>1 DEF SendStep, SendGoto, StartSend, FetchThread, Sendable, QueueOutbound, MarkSent,
                TouchSent, MarkFailed, PublishFailed
  <2>2. ASSUME NEW r \in Sends, ProviderStep(r) \/ CrashSend(r)
        PROVE  verdict'[s] = "none" /\ sendPc'[s] \in {"idle", "fetch", "refused", "crashed"}
    BY <2>2 DEF ProviderStep, ProviderAccepts, ProviderRejects, CrashSend, SendGoto
  <2>3. ASSUME NEW r \in Receipts,
               (\E t \in Sends : ReceiptArrives(r, t)) \/ ReceiptStep(r) \/ CrashReceipt(r)
        PROVE  UNCHANGED sendVars
    BY <2>3 DEF ReceiptArrives, ReceiptStep, MarkDelivered, ReceiptIgnored, PublishDelivered,
                CrashReceipt
  <2>4. OutEnvironment \/ UNCHANGED outVars => UNCHANGED sendVars
    BY DEF OutEnvironment, outVars
  <2> QED BY <2>1, <2>2, <2>3, <2>4 DEF OutNext, OutCalls, OutQuiescent, sendVars
<1> QED BY <1>3, <1>4 DEF ShutOut

\* A send that is called once close_thread has returned never reaches the provider,
\* now or later.
THEOREM NoSendAfterClose == OutSpec => ClosedThreadRefuses
<1>1. ASSUME NEW s \in Sends
      PROVE  OutSpec => [](sendPc[s] \in {"idle", "fetch"} /\ threads[Target(s)].status = "closed"
                           => [](verdict[s] = "none"))
  <2>1. OutInit => Undriven(s)
    BY DEF OutInit, OutCallsInit, Undriven
  <2>2. OutTypeOK /\ Undriven(s) /\ [OutNext]_outVars => Undriven(s)'
    BY StepUndriven
  <2>3. Undriven(s) /\ sendPc[s] \in {"idle", "fetch"} /\ threads[Target(s)].status = "closed"
          => ShutOut(s)
    BY DEF Undriven, ShutOut
  <2>4. OutTypeOK /\ ShutOut(s) /\ [OutNext]_outVars => ShutOut(s)'
    BY StepShutOut
  <2>5. ShutOut(s) => verdict[s] = "none"
    BY DEF ShutOut
  <2> QED BY <2>1, <2>2, <2>3, <2>4, <2>5, OutTypeCorrect, PTL DEF OutSpec
<1> QED BY <1>1 DEF ClosedThreadRefuses
=============================================================================
