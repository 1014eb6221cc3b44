----------------------- MODULE ChannelGateway_proofs -----------------------
(***************************************************************************)
(* The whole service for any number of calls in both directions.  A step of  *)
(* an inbound call, or of ThreadLifecycle, is a step of InboundIngest, and    *)
(* one of an outbound call or a receipt is a step of OutboundSend, so the     *)
(* lemmas about the one component carry its own invariant over its own        *)
(* steps.  What is proved here is what each direction does to the other's      *)
(* invariant, through the rows, the keys and the locks they share.            *)
(***************************************************************************)
EXTENDS ChannelGateway, InboundIngest_proofs, OutboundSend_proofs

\* Both components' invariants, and the one property neither of them has alone.
GatewayInv == IInv /\ OutTypeOK /\ OutInv /\ OneRowPerKey

(***************************************************************************)
(* What an outbound step does to what inbound calls read                   *)
(***************************************************************************)

\* A row that is there stays, on its channel and thread and in its unit, and keeps
\* the key it has.
RowsStay ==
  \A m \in MessageIds : Recorded(m) =>
    /\ Recorded(m)'
    /\ messages'[m].channel = messages[m].channel
    /\ messages'[m].thread_id = messages[m].thread_id
    /\ messages'[m].unit = messages[m].unit
    /\ messages[m].external_id # None => messages'[m].external_id = messages[m].external_id

\* A thread may be touched, and that is all.
ThreadsStay ==
  \A t \in ThreadIds :
    /\ threads'[t].status = threads[t].status
    /\ threads'[t].unit = threads[t].unit
    /\ threads'[t].deleted = threads[t].deleted
    /\ threads'[t].subject_id = threads[t].subject_id

\* Send s is given a key that no row has and no open transaction holds.
GainsFreeKey(s) ==
  /\ KeyRows(sendChannel[s], ack[s]) = {}
  /\ keyHolder[<<sendChannel[s], ack[s]>>] = None
  /\ messages'[s].status = "sent"
  /\ messages'[s].channel = sendChannel[s]
  /\ messages'[s].external_id = ack[s]
  /\ \A m \in MessageIds \ {s} : messages'[m] = messages[m]

NoRowGainsKey ==
  \A m \in MessageIds : messages'[m].external_id # None => messages[m].external_id # None

\* What the inbound calls see of an outbound step.
OutboundEffect ==
  /\ UNCHANGED <<outbox, keyHolder, rowHolder>>
  /\ \A m \in Inbound : messages'[m] = messages[m]
  /\ ThreadsStay
  /\ RowsStay
  /\ NoRowGainsKey \/ \E s \in Sends : GainsFreeKey(s)

\* A step that leaves rows, threads and locks alone, and one that writes the row of
\* one send whose key, if it has one, stays.
LEMMA NoEffect ==
  ASSUME UNCHANGED <<messages, outbox, keyHolder, rowHolder>>, ThreadsStay
  PROVE  OutboundEffect
BY DEF OutboundEffect, RowsStay, NoRowGainsKey, Recorded

LEMMA OneRowEffect ==
  ASSUME GatewayInv, UNCHANGED <<threads, outbox, keyHolder, rowHolder>>,
         NEW s \in Sends, NEW row, messages' = [messages EXCEPT ![s] = row],
         row.external_id = messages[s].external_id,
         Recorded(s) =>
           /\ row.status # "absent" /\ row.channel = messages[s].channel
           /\ row.thread_id = messages[s].thread_id /\ row.unit = messages[s].unit
  PROVE  OutboundEffect
<1>1. s \notin Inbound /\ messages \in [MessageIds -> MessageRow]
  BY UuidAssumption DEF GatewayInv, OutTypeOK, StoreTypeOK
<1>2. \A m \in MessageIds : messages'[m] = IF m = s THEN row ELSE messages[m]
  BY <1>1
<1> QED BY <1>1, <1>2 DEF OutboundEffect, RowsStay, ThreadsStay, NoRowGainsKey, Recorded, MessageIds

LEMMA SendEffect ==
  ASSUME GatewayInv, NEW s \in Sends, SendStep(s) \/ ProviderStep(s) \/ CrashSend(s)
  PROVE  OutboundEffect
<1>1. /\ s \in MessageIds /\ messages \in [MessageIds -> MessageRow]
      /\ threads \in [ThreadIds -> ThreadRow] /\ SendInv(s)
  BY DEF GatewayInv, OutInv, OutTypeOK, StoreTypeOK, MessageIds
<1> USE DEF SendGoto
<1>2. CASE StartSend(s) \/ FetchThread(s) \/ PublishFailed(s) \/ ProviderStep(s) \/ CrashSend(s)
  <2>1. UNCHANGED storeVars
    BY <1>2 DEF StartSend, FetchThread, PublishFailed, ProviderStep, ProviderAccepts,
                ProviderRejects, CrashSend
  <2> QED BY <2>1, NoEffect DEF storeVars, ThreadsStay
<1>3. CASE TouchSent(s)
  <2>1. ThreadsStay
    BY <1>1, <1>3 DEF TouchSent, ThreadRow, ThreadsStay
  <2> QED BY <1>3, <2>1, NoEffect DEF TouchSent
<1>4. CASE QueueOutbound(s)
  <2>1. CASE SendStorable(s)
    <3>1. ~Recorded(s) /\ messages[s].external_id = None
      <4>1. messages[s].status = "absent"
        BY <1>1, <1>4 DEF QueueOutbound, SendInv, PlaceInv
      <4> QED BY <1>1, <4>1 DEF GatewayInv, IInv, Durable, KeysAreOfRows, Recorded
    <3>2. messages' = [messages EXCEPT ![s] = QueuedMessage(s)] /\ QueuedMessage(s).external_id = None
      BY <1>4, <2>1 DEF QueueOutbound, QueuedMessage
    <3> QED BY <1>4, <3>1, <3>2, OneRowEffect DEF QueueOutbound
  <2>2. CASE ~SendStorable(s)
    BY <1>4, <2>2, NoEffect DEF QueueOutbound, ThreadsStay
  <2> QED BY <2>1, <2>2
<1>5. CASE MarkFailed(s)
  <2>1. CASE ReasonFits(s)
    <3>1. messages' = [messages EXCEPT ![s] = [messages[s] EXCEPT !.status = "failed"]]
      BY <1>1, <1>5, <2>1 DEF MarkFailed, WithFailure
    <3> QED BY <1>1, <1>5, <3>1, OneRowEffect DEF MarkFailed, MessageRow
  <2>2. CASE ~ReasonFits(s)
    BY <1>5, <2>2, NoEffect DEF MarkFailed, ThreadsStay
  <2> QED BY <2>1, <2>2
<1>6. CASE MarkSent(s)
  <2>1. CASE SentKeyIsTaken(s)
    BY <1>6, <2>1, NoEffect DEF MarkSent, ThreadsStay
  <2>2. CASE ~SentKeyIsTaken(s)
    <3>1. /\ messages[s].external_id = None /\ messages[s].channel = sendChannel[s]
          /\ s \notin Inbound
      BY <1>1, <1>6, UuidAssumption DEF MarkSent, SendInv, PlaceInv
    <3>2. /\ messages'[s].status = "sent" /\ messages'[s].external_id = ack[s]
          /\ messages'[s].channel = sendChannel[s]
          /\ messages'[s].thread_id = messages[s].thread_id /\ messages'[s].unit = messages[s].unit
          /\ \A m \in MessageIds \ {s} : messages'[m] = messages[m]
          /\ UNCHANGED <<threads, outbox, keyHolder, rowHolder>>
      BY <1>1, <1>6, <2>2, <3>1 DEF MarkSent, WithSent, MessageRow
    <3>3. GainsFreeKey(s)
      BY <1>6, <2>2, <3>2 DEF GainsFreeKey, MarkSent, SentKeyIsTaken
    <3>4. RowsStay
      BY <3>1, <3>2 DEF RowsStay, Recorded
    <3> QED BY <3>1, <3>2, <3>3, <3>4 DEF OutboundEffect, ThreadsStay, MessageIds
  <2> QED BY <2>1, <2>2
<1> QED BY <1>2, <1>3, <1>4, <1>5, <1>6 DEF SendStep

\* A receipt moves the row of a send: an inbound row is never `sent`.
LEMMA ReceiptEffect ==
  ASSUME GatewayInv, NEW r \in Receipts,
         (\E s \in Sends : ReceiptArrives(r, s)) \/ ReceiptStep(r) \/ CrashReceipt(r)
  PROVE  OutboundEffect
<1>1. CASE MarkDelivered(r)
  <2>1. PICK m \in Deliverable(r) : messages' = [messages EXCEPT ![m].status = "delivered"]
    BY <1>1 DEF MarkDelivered
  <2>2. m \in MessageIds /\ messages[m].status = "sent" /\ messages \in [MessageIds -> MessageRow]
    BY DEF Deliverable, FoundByExternalId, KeyRows, GatewayInv, OutTypeOK, StoreTypeOK
  <2>3. m \in Sends
    <3>1. m \in Inbound => messages[m] = ClaimedMessage(m)
      BY <2>2 DEF GatewayInv, IInv, Durable, RowsOfCalls, NoMessage
    <3> QED BY <2>2, <3>1 DEF ClaimedMessage, MessageIds
  <2> DEFINE row == [messages[m] EXCEPT !.status = "delivered"]
  <2>4. messages' = [messages EXCEPT ![m] = row]
    BY <2>1, <2>2
  <2>5. /\ row.external_id = messages[m].external_id /\ row.status = "delivered"
        /\ row.channel = messages[m].channel /\ row.thread_id = messages[m].thread_id
        /\ row.unit = messages[m].unit
    BY <2>2 DEF MessageRow
  <2>6. UNCHANGED <<threads, outbox, keyHolder, rowHolder>>
    BY <1>1 DEF MarkDelivered
  <2> HIDE DEF row
  <2> QED BY <2>3, <2>4, <2>5, <2>6, OneRowEffect
<1>2. CASE ~MarkDelivered(r)
  <2>1. UNCHANGED storeVars
    BY <1>2 DEF ReceiptArrives, ReceiptStep, ReceiptIgnored, PublishDelivered, CrashReceipt
  <2> QED BY <2>1, NoEffect DEF storeVars, ThreadsStay
<1> QED BY <1>1, <1>2

LEMMA OutboundCallEffect ==
  ASSUME GatewayInv, OutCalls
  PROVE  OutboundEffect
BY SendEffect, ReceiptEffect DEF OutCalls

LEMMA KeyedStay ==
  ASSUME GatewayInv, OutboundEffect, NEW m \in MessageIds, messages[m].external_id # None
  PROVE  /\ messages'[m].channel = messages[m].channel
         /\ messages'[m].external_id = messages[m].external_id
BY DEF GatewayInv, IInv, Durable, KeysAreOfRows, OutboundEffect, RowsStay

(***************************************************************************)
(* Outbound steps keep the inbound invariant                               *)
(***************************************************************************)

LEMMA OutboundKeepsDurable ==
  ASSUME GatewayInv, OutboundEffect, UNCHANGED callVars
  PROVE  Durable'
<1>1. Durable /\ UNCHANGED <<pc, req, route, outbox, published>>
      /\ \A m \in Inbound : messages'[m] = messages[m]
  BY DEF GatewayInv, IInv, OutboundEffect, callVars
<1>2. RowsOfCalls'
  BY <1>1 DEF Durable, RowsOfCalls, ClaimedMessage
<1>3. KeysAreOfRows'
  <2>1. CASE NoRowGainsKey
    BY <1>1, <2>1 DEF OutboundEffect, RowsStay, NoRowGainsKey, Durable, KeysAreOfRows
  <2>2. ASSUME NEW s \in Sends, GainsFreeKey(s) PROVE KeysAreOfRows'
    BY <1>1, <2>2 DEF GainsFreeKey, Durable, KeysAreOfRows, Recorded
  <2> QED BY <2>1, <2>2 DEF OutboundEffect
<1>4. PublisherRecorded' /\ OutboxOfRows' /\ PublishedIsDurable'
  BY <1>1 DEF Durable, PublisherRecorded, OutboxOfRows, PublishedIsDurable, Recorded, EventOf
<1>5. NoOrphanThread'
  BY <1>1 DEF Durable, NoOrphanThread, OutboundEffect, ThreadsStay, ThreadIds
<1> QED BY <1>2, <1>3, <1>4, <1>5 DEF Durable

\* mark_sent waits for an open claim of its key, so no claim loses its key to a send.
LEMMA OutboundKeepsExclusive ==
  ASSUME GatewayInv, OutboundEffect, UNCHANGED callVars
  PROVE  Exclusive'
<1>1. Typed /\ Exclusive /\ UNCHANGED <<pc, req, keyHolder>>
      /\ \A m \in Inbound : messages'[m] = messages[m]
  BY DEF GatewayInv, IInv, OutboundEffect, callVars
<1>2. KeyLocked'
  BY <1>1 DEF Exclusive, KeyLocked, Key
<1>3. KeyVacant'
  <2>1. SUFFICES ASSUME NEW d \in Inbound, pc[d] \in HoldsKey, NEW m \in MessageIds,
                        messages'[m].channel = req[d].channel,
                        messages'[m].external_id = req[d].external_id
                 PROVE  FALSE
    BY <1>1 DEF KeyVacant, KeyRows
  <2>2. req[d].external_id # None
    BY <1>1, <2>1 DEF Typed, Keyed, WellFormed, HoldsKey
  <2>3. /\ KeyRows(req[d].channel, req[d].external_id) = {}
        /\ keyHolder[<<req[d].channel, req[d].external_id>>] # None
    BY <1>1, <2>1, NoneAssumption DEF Exclusive, KeyVacant, KeyLocked, Key
  <2>4. ~(messages[m].channel = req[d].channel /\ messages[m].external_id = req[d].external_id)
    BY <2>3 DEF KeyRows
  <2>5. CASE NoRowGainsKey
    BY <2>1, <2>2, <2>4, <2>5, KeyedStay DEF NoRowGainsKey
  <2>6. ASSUME NEW s \in Sends, GainsFreeKey(s) PROVE FALSE
    BY <2>1, <2>3, <2>4, <2>6 DEF GainsFreeKey
  <2> QED BY <2>5, <2>6 DEF OutboundEffect
<1>4. OneMessagePerKey'
  BY <1>1 DEF Exclusive, OneMessagePerKey, Recorded, SameKey
<1> QED BY <1>2, <1>3, <1>4 DEF Exclusive

\* The row an answer names has the key that was asked for, so a send or a receipt
\* that writes it leaves what the answer says of it.
LEMMA OutboundKeepsAnswered ==
  ASSUME GatewayInv, OutboundEffect, UNCHANGED callVars
  PROVE  Answered'
<1>1. Typed /\ Answered /\ UNCHANGED <<pc, req, outcome>>
  BY DEF GatewayInv, IInv, callVars
<1>2. ASSUME NEW c \in Inbound, pc[c] = "answered" PROVE Truthful(c)'
  <2>1. Truthful(c) /\ req[c].external_id # None
    BY <1>1, <1>2, TruthfulAnswers DEF Answered, Typed, Keyed, WellFormed
  <2> QED BY <1>1, <2>1 DEF Truthful, OutboundEffect, RowsStay
<1>3. AnswersNameTheRecord'
  BY <1>1, <1>2 DEF AnswersNameTheRecord, Truthful, Key
<1> QED BY <1>1, <1>3 DEF Answered, Unanswered

LEMMA OutboundKeepsIInv ==
  ASSUME GatewayInv, OutCalls, UNCHANGED callVars
  PROVE  IInv'
<1>1. OutboundEffect
  BY OutboundCallEffect
<1>2. Typed'
  <2>1. StoreTypeOK'
    BY OutStepTypes DEF GatewayInv, OutNext, OutTypeOK
  <2> QED BY <2>1 DEF GatewayInv, IInv, Typed, TypeOK, Keyed, Routed, callVars
<1>3. Admitted'
  BY <1>1 DEF GatewayInv, IInv, Admitted, Storable, Recorded, OutboundEffect, callVars
<1> QED BY <1>1, <1>2, <1>3, OutboundKeepsDurable, OutboundKeepsExclusive, OutboundKeepsAnswered
        DEF IInv

LEMMA OutboundKeepsOneRow ==
  ASSUME GatewayInv, OutboundEffect
  PROVE  OneRowPerKey'
<1>1. OneRowPerKey
  BY DEF GatewayInv
<1>2. CASE NoRowGainsKey
  BY <1>1, <1>2, KeyedStay DEF OneRowPerKey, NoRowGainsKey
<1>3. ASSUME NEW s \in Sends, GainsFreeKey(s) PROVE OneRowPerKey'
  <2>1. ASSUME NEW m \in MessageIds \ {s}
        PROVE  ~(/\ messages'[m].channel = messages'[s].channel
                 /\ messages'[m].external_id = messages'[s].external_id)
    BY <1>3, <2>1 DEF GainsFreeKey, KeyRows
  <2>2. \A m \in MessageIds \ {s} : messages'[m] = messages[m]
    BY <1>3 DEF GainsFreeKey
  <2> QED BY <1>1, <2>1, <2>2 DEF OneRowPerKey
<1> QED BY <1>2, <1>3 DEF OutboundEffect

(***************************************************************************)
(* Inbound steps keep the outbound invariant                               *)
(***************************************************************************)

\* An inbound step writes no row but its own, and none that is there.
LEMMA InboundWrites ==
  ASSUME GatewayInv, NEW c \in Inbound, CallStep(c) \/ Crash(c)
  PROVE  /\ \A s \in Sends : messages'[s] = messages[s]
         /\ \A m \in MessageIds : Recorded(m) => messages'[m] = messages[m]
<1>1. Next
  BY DEF Next
<1>2. messages \in [MessageIds -> MessageRow] /\ \A s \in Sends : s \in MessageIds /\ s \notin Inbound
  BY UuidAssumption DEF GatewayInv, OutTypeOK, StoreTypeOK, MessageIds
<1>3. \A s \in Sends : messages'[s] = messages[s]
  BY <1>1, <1>2, OnlyCommitsWriteMessages DEF GatewayInv, Commit
<1> QED BY <1>1, <1>3, RecordsStay DEF GatewayInv

LEMMA InboundKeepsOutInv ==
  ASSUME GatewayInv, NEW c \in Inbound, CallStep(c) \/ Crash(c), UNCHANGED outCallVars
  PROVE  OutInv'
<1>1. /\ UNCHANGED sendVars /\ UNCHANGED receiptVars
      /\ \A s \in Sends : messages'[s] = messages[s]
      /\ \A m \in MessageIds : messages[m].status = "delivered" => messages'[m].status = "delivered"
  BY InboundWrites DEF outCallVars, Recorded
<1>2. \A s \in Sends : SendInv(s)'
  BY <1>1 DEF GatewayInv, OutInv, SendInv, PlaceInv, MarkInv, ReceivedFor, KeyOf, sendVars, receiptVars
<1>3. DeliveryInv'
  BY <1>1 DEF GatewayInv, OutInv, DeliveryInv, DeliveredOnce, receiptVars
<1> QED BY <1>2, <1>3 DEF OutInv

\* A commit records a key that its claim has kept free of rows.
LEMMA InboundKeepsOneRow ==
  ASSUME GatewayInv, NEW c \in Inbound, CallStep(c) \/ Crash(c)
  PROVE  OneRowPerKey'
<1>1. OneRowPerKey /\ messages \in [MessageIds -> MessageRow]
  BY DEF GatewayInv, OutTypeOK, StoreTypeOK
<1>2. CASE UNCHANGED messages
  BY <1>1, <1>2 DEF OneRowPerKey
<1>3. ASSUME NEW d \in Inbound, Commit(d) PROVE OneRowPerKey'
  <2>1. /\ pc[d] = "commit" /\ d \in MessageIds
        /\ messages' = [messages EXCEPT ![d] = ClaimedMessage(d)]
    BY <1>3 DEF Commit, Goto, MessageIds
  <2>2. KeyRows(req[d].channel, req[d].external_id) = {}
    BY <2>1 DEF GatewayInv, IInv, Exclusive, KeyVacant, HoldsKey
  <2>3. \A m \in MessageIds \ {d} : messages'[m] = messages[m]
    BY <1>1, <2>1
  <2>4. messages'[d].channel = req[d].channel /\ messages'[d].external_id = req[d].external_id
    BY <1>1, <2>1 DEF ClaimedMessage
  <2>5. ASSUME NEW m \in MessageIds \ {d}
        PROVE  ~(/\ messages'[m].channel = messages'[d].channel
                 /\ messages'[m].external_id = messages'[d].external_id)
    BY <2>2, <2>3, <2>4 DEF KeyRows
  <2> QED BY <1>1, <2>3, <2>5 DEF OneRowPerKey
<1> QED BY <1>2, <1>3, OnlyCommitsWriteMessages DEF GatewayInv, Next

(***************************************************************************)
(* Both directions over one database                                       *)
(***************************************************************************)

LEMMA GatewayInitInv == GatewayInit => GatewayInv
<1>1. GatewayInit => Init /\ OutInit
  BY DEF GatewayInit, Init, OutInit
<1>2. Init => OneRowPerKey
  BY DEF Init, StoreInit, OneRowPerKey, NoMessage
<1> QED BY <1>1, <1>2, InitTyped, InitDurable, InitExclusive, InitAnswered, InitAdmitted,
           OutInitTypes, OutInitInv DEF GatewayInv, IInv

LEMMA IngestStepInv ==
  ASSUME IInv, [Next]_vars
  PROVE  IInv'
BY StepTyped, StepDurable, StepExclusive, StepAnswered, StepAdmitted DEF IInv

LEMMA GatewayStepInv ==
  ASSUME GatewayInv, [GatewayNext]_gatewayVars
  PROVE  GatewayInv'
<1>1. ASSUME NEW c \in Inbound, InboundCall(c) \/ InboundCrash(c) PROVE GatewayInv'
  <2>1. (CallStep(c) \/ Crash(c)) /\ UNCHANGED outCallVars
    BY <1>1 DEF InboundCall, InboundCrash
  <2>2. IInv'
    BY <2>1, IngestStepInv DEF GatewayInv, Next
  <2>3. OutTypeOK'
    BY <2>1, <2>2 DEF GatewayInv, IInv, Typed, TypeOK, OutTypeOK, outCallVars, sendVars, receiptVars
  <2> QED BY <2>1, <2>2, <2>3, InboundKeepsOutInv, InboundKeepsOneRow DEF GatewayInv
<1>2. CASE OutboundCalls
  <2>1. OutCalls /\ UNCHANGED callVars
    BY <1>2 DEF OutboundCalls
  <2>2. OutTypeOK' /\ OutInv'
    BY <2>1, OutStepTypes, OutStepInv DEF GatewayInv, OutNext
  <2> QED BY <2>1, <2>2, OutboundKeepsIInv, OutboundCallEffect, OutboundKeepsOneRow DEF GatewayInv
<1>3. CASE Lifecycle
  <2>1. Environment /\ OutEnvironment
    BY <1>3 DEF Lifecycle, Environment, OutEnvironment, outCallVars
  <2>2. UNCHANGED messages
    BY <1>3, LifecycleTyped DEF Lifecycle, GatewayInv, IInv, Typed
  <2>3. OneRowPerKey'
    BY <2>2 DEF GatewayInv, OneRowPerKey
  <2> QED BY <2>1, <2>3, IngestStepInv, OutStepTypes, OutStepInv DEF GatewayInv, Next, OutNext
<1>4. CASE UNCHANGED gatewayVars
  <2>1. UNCHANGED vars /\ UNCHANGED outVars /\ UNCHANGED messages
    BY <1>4 DEF gatewayVars, outCallVars, vars, outVars, storeVars
  <2>2. OneRowPerKey'
    BY <2>1 DEF GatewayInv, OneRowPerKey
  <2> QED BY <2>1, <2>2, IngestStepInv, OutStepTypes, OutStepInv DEF GatewayInv
<1> QED BY <1>1, <1>2, <1>3, <1>4 DEF GatewayNext, GatewayQuiescent

\* The two invariants and the one key they share survive every interleaving of
\* inbound and outbound calls, receipts, lifecycle calls and crashes.
THEOREM GatewayInvHolds == GatewaySpec => []GatewayInv
<1>1. GatewayInit => GatewayInv
  BY GatewayInitInv
<1>2. GatewayInv /\ [GatewayNext]_gatewayVars => GatewayInv'
  BY GatewayStepInv
<1> QED BY <1>1, <1>2, PTL DEF GatewaySpec

\* Every variable of the store and of both directions' calls keeps its type.
THEOREM GatewayTypeCorrect == GatewaySpec => []GatewayTypeOK
<1>1. GatewayInv => GatewayTypeOK
  BY DEF GatewayInv, IInv, Typed, GatewayTypeOK
<1> QED BY <1>1, GatewayInvHolds, PTL

\* A provider id that one row has, sent or received, is never given to another.
THEOREM OneKeyOneRow == GatewaySpec => []OneRowPerKey
<1>1. GatewayInv => OneRowPerKey
  BY DEF GatewayInv
<1> QED BY <1>1, GatewayInvHolds, PTL

\* With sends and receipts writing rows, an inbound answer still names the recorded row
\* of its key, inbound or outbound, and the thread that row is on.
THEOREM GatewayTruthfulAnswer == GatewaySpec => []AnswersNameTheRecord
<1>1. GatewayInv => AnswersNameTheRecord
  BY DEF GatewayInv, IInv, Answered
<1> QED BY <1>1, GatewayInvHolds, PTL

\* No receipt moves an inbound row, whatever keys the provider gives out.
THEOREM ReceiptsLeaveInbound == GatewaySpec => []InboundStaysReceived
<1>1. GatewayInv => InboundStaysReceived
  <2>1. ASSUME GatewayInv, NEW c \in Inbound PROVE messages[c].status \in {"absent", "received"}
    <3>1. messages[c] = NoMessage \/ messages[c] = ClaimedMessage(c)
      BY <2>1 DEF GatewayInv, IInv, Durable, RowsOfCalls
    <3>2. NoMessage.status = "absent" /\ ClaimedMessage(c).status = "received"
      BY DEF NoMessage, ClaimedMessage
    <3> QED BY <3>1, <3>2
  <2> QED BY <2>1 DEF InboundStaysReceived
<1> QED BY <1>1, GatewayInvHolds, PTL

\* What InboundIngest promises of its rows and events, it still promises when sends and
\* receipts run on the same tables.
THEOREM InboundPromisesHold ==
  GatewaySpec => [](/\ OneMessagePerKey /\ EventIffRecorded /\ NoOrphanThread
                    /\ PublishedIsDurable /\ RefusalLeavesNothing)
<1>1. GatewayInv => /\ OneMessagePerKey /\ EventIffRecorded /\ NoOrphanThread
                    /\ PublishedIsDurable /\ RefusalLeavesNothing
  BY DurableEvents, RefusedIsAbsent DEF GatewayInv, IInv, Durable, Exclusive
<1> QED BY <1>1, GatewayInvHolds, PTL

\* And what OutboundSend promises of its rows and announcements, when inbound calls do.
THEOREM OutboundPromisesHold == GatewaySpec => [](StatusTellsTheTruth /\ DeliveredOnce)
<1>1. GatewayInv => StatusTellsTheTruth
  BY DEF GatewayInv, OutInv, SendInv, PlaceInv, MarkInv, ReceivedFor, StatusTellsTheTruth
<1>2. GatewayInv => DeliveredOnce
  BY DEF GatewayInv, OutInv, DeliveryInv
<1> QED BY <1>1, <1>2, GatewayInvHolds, PTL

\* An inbound row that holds the id of an accepted send is there to stay, so the send
\* that it refused is never one of a message nobody has.
LEMMA InboundTells ==
  ASSUME GatewayInv, TellingInv, NEW c \in Inbound, CallStep(c) \/ Crash(c), UNCHANGED outCallVars
  PROVE  TellingInv'
<1>1. /\ \A s \in Sends : messages'[s] = messages[s]
      /\ \A m \in MessageIds : Recorded(m) => messages'[m] = messages[m]
      /\ UNCHANGED sendVars /\ UNCHANGED receiptVars
  BY InboundWrites DEF outCallVars
<1>2. KeyedRowsStay
  BY <1>1 DEF KeyedRowsStay, GatewayInv, IInv, Durable, KeysAreOfRows
<1>3. ASSUME NEW s \in Sends PROVE MarksInv(s)'
  BY <1>1, <1>2, OthersMarks DEF TellingInv, sendVars
<1>4. ASSUME NEW s \in Sends PROVE ToldInv(s)'
  BY <1>1 DEF TellingInv, ToldInv, receiptVars
<1> QED BY <1>3, <1>4 DEF TellingInv

\* No fate of a message is lost but by a call that stopped half way, whatever inbound
\* message takes the id that the provider has given it.
THEOREM GatewayLosesNoFate == GatewaySpec => []FatesAreTold
<1>1. GatewayInit => TellingInv
  BY InitTells DEF GatewayInit, Init
<1>2. ASSUME GatewayInv, TellingInv, [GatewayNext]_gatewayVars PROVE TellingInv'
  <2>1. ASSUME NEW c \in Inbound, InboundCall(c) \/ InboundCrash(c) PROVE TellingInv'
    BY <1>2, <2>1, InboundTells DEF InboundCall, InboundCrash
  <2>2. CASE ~\E c \in Inbound : InboundCall(c) \/ InboundCrash(c)
    <3>1. [OutNext]_outVars
      BY <1>2, <2>2 DEF GatewayNext, OutboundCalls, Lifecycle, GatewayQuiescent, OutNext,
                        OutEnvironment, gatewayVars, outCallVars, outVars
    <3> QED BY <1>2, <3>1, StepTells DEF GatewayInv
  <2> QED BY <2>1, <2>2
<1>3. GatewayInv /\ TellingInv => FatesAreTold
  BY TellingIsTold DEF GatewayInv
<1> QED BY <1>1, <1>2, <1>3, GatewayInvHolds, PTL DEF GatewaySpec

(***************************************************************************)
(* Threads that inbound commits and sends touch, and that are closed,      *)
(* linked and deleted meanwhile                                            *)
(***************************************************************************)

\* A step of the service that is none of an outbound call is one of InboundIngest.
LEMMA StepOfIngest ==
  ASSUME [GatewayNext]_gatewayVars
  PROVE  [Next]_vars \/ (OutCalls /\ UNCHANGED callVars)
BY DEF GatewayNext, gatewayVars, InboundCall, InboundCrash, OutboundCalls, Lifecycle, Environment,
       GatewayQuiescent, Next, vars

LEMMA GatewayKeepsLifecycle ==
  ASSUME GatewayInv, [GatewayNext]_gatewayVars, NEW t \in ThreadIds
  PROVE  KeepsLifecycle(t)
<1>1. IInv
  BY DEF GatewayInv
<1>2. ASSUME OutCalls PROVE KeepsLifecycle(t)
  BY <1>2, OutboundCallEffect DEF OutboundEffect, ThreadsStay, KeepsLifecycle
<1>3. ASSUME [Next]_vars PROVE KeepsLifecycle(t)
  <2>1. CASE UNCHANGED threads
    BY <2>1 DEF KeepsLifecycle
  <2>2. CASE \E c \in Inbound : Commit(c)
    BY <1>1, <2>2, CommitKeepsLifecycle
  <2>3. CASE LifecycleStep
    BY <1>1, <2>3, EnvironmentKeepsLifecycle
  <2> QED BY <1>3, <2>1, <2>2, <2>3, OnlyCommitsWriteThreads
<1> QED BY <1>2, <1>3, StepOfIngest

\* Neither an inbound commit nor a send that touches its thread undoes a close, a link
\* or a delete.
THEOREM GatewayLifecycleKept == GatewaySpec => LifecycleSurvivesTouch
<1>1. GatewayInv /\ [GatewayNext]_gatewayVars => \A t \in ThreadIds : KeepsLifecycle(t)
  BY GatewayKeepsLifecycle
<1> QED BY <1>1, GatewayInvHolds, PTL DEF GatewaySpec, LifecycleSurvivesTouch

LEMMA GatewayShutOut ==
  ASSUME GatewayInv, NEW s \in Sends, Undriven(s), [GatewayNext]_gatewayVars
  PROVE  Undriven(s)' /\ (ShutOut(s) => ShutOut(s)')
<1>1. OutTypeOK /\ Target(s) \in ThreadIds
  BY RequestOf DEF GatewayInv, OutTypeOK, CallTypes
<1>2. CASE OutboundCalls \/ Lifecycle \/ UNCHANGED gatewayVars
  <2>1. [OutNext]_outVars
    BY <1>2 DEF OutboundCalls, Lifecycle, OutNext, OutEnvironment, outCallVars, gatewayVars, outVars
  <2> QED BY <1>1, <2>1, StepUndriven, StepShutOut
<1>3. ASSUME NEW c \in Inbound, InboundCall(c) \/ InboundCrash(c)
      PROVE  Undriven(s)' /\ (ShutOut(s) => ShutOut(s)')
  <2>1. UNCHANGED sendVars
    BY <1>3 DEF InboundCall, InboundCrash, outCallVars
  <2>2. threads[Target(s)].status = "closed" => threads'[Target(s)].status = "closed"
    BY <1>1, GatewayKeepsLifecycle DEF KeepsLifecycle
  <2> QED BY <2>1, <2>2 DEF Undriven, ShutOut, Target, sendVars
<1> QED BY <1>2, <1>3 DEF GatewayNext, GatewayQuiescent

\* A send that is called once close_thread has returned never reaches the provider, though
\* inbound messages keep landing on the thread.
THEOREM GatewayNoSendAfterClose == GatewaySpec => ClosedThreadRefuses
<1>1. ASSUME NEW s \in Sends
      PROVE  GatewaySpec => [](sendPc[s] \in {"idle", "fetch"} /\ threads[Target(s)].status = "closed"
                               => [](verdict[s] = "none"))
  <2>1. GatewayInit => Undriven(s)
    BY DEF GatewayInit, OutCallsInit, Undriven
  <2>2. GatewayInv /\ Undriven(s) /\ [GatewayNext]_gatewayVars => Undriven(s)'
    BY GatewayShutOut
  <2>3. Undriven(s) /\ sendPc[s] \in {"idle", "fetch"} /\ threads[Target(s)].status = "closed"
          => ShutOut(s)
    BY DEF Undriven, ShutOut
  <2>4. GatewayInv /\ Undriven(s) /\ ShutOut(s) /\ [GatewayNext]_gatewayVars => ShutOut(s)'
    BY GatewayShutOut
  <2>5. ShutOut(s) => verdict[s] = "none"
    BY DEF ShutOut
  <2> QED BY <2>1, <2>2, <2>3, <2>4, <2>5, GatewayInvHolds, PTL DEF GatewaySpec
<1> QED BY <1>1 DEF ClosedThreadRefuses

(***************************************************************************)
(* Lost claims                                                             *)
(***************************************************************************)

LEMMA GatewayStepBeaten ==
  ASSUME GatewayInv, Beaten, [GatewayNext]_gatewayVars
  PROVE  Beaten'
<1>1. CASE [Next]_vars
  BY <1>1, StepBeaten DEF GatewayInv
<1>2. ASSUME OutCalls, UNCHANGED callVars PROVE Beaten'
  <2>1. UNCHANGED <<pc, req>> /\ OutboundEffect
    BY <1>2, OutboundCallEffect DEF callVars
  <2>2. ASSUME NEW c \in Inbound, pc[c] = "reread"
        PROVE  KeyRows(req[c].channel, req[c].external_id)' # {}
    <3>1. req[c].external_id # None
      BY <2>2 DEF GatewayInv, IInv, Typed, Keyed, WellFormed
    <3>2. PICK m \in MessageIds : /\ messages[m].channel = req[c].channel
                                  /\ messages[m].external_id = req[c].external_id
      BY <2>2 DEF Beaten, KeyRows
    <3> QED BY <2>1, <3>1, <3>2, KeyedStay DEF KeyRows
  <2> QED BY <2>1, <2>2 DEF Beaten, Insertable
<1> QED BY <1>1, <1>2, StepOfIngest

\* A claim lost to a row of either direction finds that row when it reads again, unless
\* the fence hides it.
THEOREM GatewayLosersFindWinners == GatewaySpec => []LoserFindsWinner
<1>1. GatewayInit => Beaten
  BY DEF GatewayInit, Init, Beaten
<1>2. GatewayInv /\ Beaten /\ [GatewayNext]_gatewayVars => Beaten'
  BY GatewayStepBeaten
<1>3. Beaten => LoserFindsWinner
  BY BeatenFindsWinner
<1> QED BY <1>1, <1>2, <1>3, GatewayInvHolds, PTL DEF GatewaySpec

(***************************************************************************)
(* Units                                                                   *)
(***************************************************************************)

\* A send that has read its thread read one of its unit, and its row is on a thread of
\* the row's unit.
SentInUnit(s) ==
  /\ sendPc[s] = "queue" =>
       /\ threads[Target(s)].status # "absent"
       /\ threads[Target(s)].unit = sendReq[s].scope
  /\ Recorded(s) =>
       /\ messages[s].thread_id = Target(s)
       /\ threads[Target(s)].status # "absent"
       /\ threads[Target(s)].unit = messages[s].unit

GatewayUnitInv == UnitInv /\ (Fenced => \A s \in Sends : SentInUnit(s))

\* Inbound and lifecycle steps write no row of a send, and move no thread to another unit.
LEMMA InboundKeepsSentInUnit ==
  ASSUME GatewayInv, [Next]_vars, UNCHANGED outCallVars, NEW s \in Sends, SentInUnit(s)
  PROVE  SentInUnit(s)'
<1>1. Target(s) \in ThreadIds
  BY RequestOf DEF GatewayInv, OutTypeOK, CallTypes
<1>2. messages'[s] = messages[s]
  <2>1. s \in MessageIds /\ s \notin Inbound /\ messages \in [MessageIds -> MessageRow]
    BY UuidAssumption DEF GatewayInv, OutTypeOK, StoreTypeOK, MessageIds
  <2> QED BY <2>1, OnlyCommitsWriteMessages DEF GatewayInv, Commit
<1>3. threads[Target(s)].status # "absent" =>
        threads'[Target(s)].status # "absent" /\ threads'[Target(s)].unit = threads[Target(s)].unit
  BY <1>1, UnitsStay DEF GatewayInv
<1> QED BY <1>2, <1>3 DEF SentInUnit, Recorded, Target, outCallVars, sendVars

\* fetch_for_send reads under the fence, and insert_outbound stamps the caller's unit.
LEMMA OutboundKeepsSentInUnit ==
  ASSUME GatewayInv, Fenced, OutCalls, NEW s \in Sends, SentInUnit(s)
  PROVE  SentInUnit(s)'
<1>1. /\ OutboundEffect
      /\ Target(s) \in ThreadIds /\ s \in MessageIds
      /\ sendPc \in [Sends -> SendSteps] /\ messages \in [MessageIds -> MessageRow]
  BY OutboundCallEffect, RequestOf DEF GatewayInv, OutTypeOK, StoreTypeOK, CallTypes
<1>2. UNCHANGED sendReq
  BY DEF OutCalls, SendStep, ProviderStep, StartSend, FetchThread, QueueOutbound, MarkSent,
         TouchSent, MarkFailed, PublishFailed, ProviderAccepts, ProviderRejects, CrashSend,
         ReceiptArrives, ReceiptStep, MarkDelivered, ReceiptIgnored, PublishDelivered,
         CrashReceipt, sendVars
<1>3. /\ threads'[Target(s)'].status = threads[Target(s)].status
      /\ threads'[Target(s)'].unit = threads[Target(s)].unit
  BY <1>1, <1>2 DEF OutboundEffect, ThreadsStay, Target
<1>4. ASSUME sendPc'[s] = "queue"
      PROVE  /\ threads[Target(s)].status # "absent"
             /\ threads[Target(s)].unit = sendReq[s].scope
  <2>1. CASE sendPc[s] = "queue"
    BY <2>1 DEF SentInUnit
  <2>2. CASE sendPc[s] # "queue"
    <3>1. FetchThread(s) /\ Sendable(s)
      BY <1>1, <1>4, <2>2
         DEF OutCalls, SendStep, SendGoto, ProviderStep, StartSend, FetchThread, QueueOutbound,
             MarkSent, TouchSent, MarkFailed, PublishFailed, ProviderAccepts, ProviderRejects,
             CrashSend, ReceiptArrives, ReceiptStep, MarkDelivered, ReceiptIgnored,
             PublishDelivered, CrashReceipt, sendVars
    <3> QED BY <3>1 DEF Sendable, FoundForSend, Visible
  <2> QED BY <2>1, <2>2
<1>5. ASSUME ~Recorded(s), Recorded(s)'
      PROVE  /\ sendPc[s] = "queue"
             /\ messages'[s].thread_id = Target(s)
             /\ messages'[s].unit = sendReq[s].scope
  <2>1. QueueOutbound(s) /\ SendStorable(s)
    <3>1. ASSUME NEW r \in Sends, SendStep(r) \/ ProviderStep(r) \/ CrashSend(r)
          PROVE  QueueOutbound(s) /\ SendStorable(s)
      <4>1. SendInv(r) /\ r \in MessageIds
        BY DEF GatewayInv, OutInv, MessageIds
      <4>2. CASE QueueOutbound(r)
        BY <1>1, <1>5, <4>1, <4>2 DEF QueueOutbound, Recorded
      <4>3. CASE MarkSent(r)
        BY <1>1, <1>5, <4>1, <4>3 DEF MarkSent, SendGoto, WithSent, Recorded, SendInv, PlaceInv
      <4>4. CASE MarkFailed(r)
        BY <1>1, <1>5, <4>1, <4>4 DEF MarkFailed, SendGoto, WithFailure, Recorded, SendInv, PlaceInv
      <4>5. CASE ~(QueueOutbound(r) \/ MarkSent(r) \/ MarkFailed(r))
        BY <1>5, <3>1, <4>5
           DEF SendStep, ProviderStep, StartSend, FetchThread, TouchSent, PublishFailed,
               ProviderAccepts, ProviderRejects, CrashSend, storeVars, Recorded
      <4> QED BY <4>2, <4>3, <4>4, <4>5
    <3>2. ASSUME NEW r \in Receipts,
                 (\E t \in Sends : ReceiptArrives(r, t)) \/ ReceiptStep(r) \/ CrashReceipt(r)
          PROVE  FALSE
      <4>1. CASE MarkDelivered(r)
        BY <1>1, <1>5, <4>1 DEF MarkDelivered, Deliverable, FoundByExternalId, KeyRows, Recorded
      <4>2. CASE ~MarkDelivered(r)
        BY <1>5, <3>2, <4>2 DEF ReceiptArrives, ReceiptStep, ReceiptIgnored, PublishDelivered,
                                CrashReceipt, storeVars, Recorded
      <4> QED BY <4>1, <4>2
    <3> QED BY <3>1, <3>2 DEF OutCalls
  <2>2. sendPc[s] = "queue" /\ messages'[s] = QueuedMessage(s)
    BY <1>1, <2>1 DEF QueueOutbound, SendGoto
  <2> QED BY <2>2 DEF QueuedMessage
<1>6. ASSUME Recorded(s)
      PROVE  messages'[s].thread_id = messages[s].thread_id /\ messages'[s].unit = messages[s].unit
  BY <1>1, <1>6 DEF OutboundEffect, RowsStay
<1> QED BY <1>2, <1>3, <1>4, <1>5, <1>6 DEF SentInUnit, Target

LEMMA OutboundKeepsUnits ==
  ASSUME GatewayInv, Fenced, UnitInv, OutCalls, UNCHANGED callVars
  PROVE  UnitInv'
<1>1. OutboundEffect /\ UNCHANGED <<pc, req, route, outcome>>
  BY OutboundCallEffect DEF callVars
<1>2. RoutedInUnit'
  <2>1. \A c \in Inbound : pc[c] \in InTransaction => route[c].thread_id \in ThreadIds
    BY DEF GatewayInv, IInv, Typed, Routed, InTransaction
  <2> QED BY <1>1, <2>1 DEF UnitInv, RoutedInUnit, OutboundEffect, ThreadsStay
<1>3. RecordedInUnit'
  <2>1. \A m \in Inbound : Recorded(m) => messages[m].thread_id \in ThreadIds
    BY RecordsOnThreads DEF GatewayInv
  <2> QED BY <1>1, <2>1 DEF UnitInv, RecordedInUnit, OutboundEffect, ThreadsStay, Recorded
<1>4. AnsweredInUnit'
  <2>1. \A c \in Inbound : pc[c] = "answered" =>
          outcome[c].message_id \in MessageIds /\ Recorded(outcome[c].message_id)
    BY DEF GatewayInv, IInv, Answered, AnswersNameTheRecord
  <2> QED BY <1>1, <2>1 DEF UnitInv, AnsweredInUnit, OutboundEffect, RowsStay
<1> QED BY <1>2, <1>3, <1>4 DEF UnitInv

LEMMA GatewayStepUnits ==
  ASSUME GatewayInv, GatewayUnitInv, [GatewayNext]_gatewayVars
  PROVE  GatewayUnitInv'
<1>1. CASE OutCalls /\ UNCHANGED callVars
  BY <1>1, OutboundKeepsUnits, OutboundKeepsSentInUnit DEF GatewayUnitInv, UnitInv
<1>2. ASSUME ~OutboundCalls PROVE GatewayUnitInv'
  <2>1. [Next]_vars /\ UNCHANGED outCallVars
    BY <1>2 DEF GatewayNext, gatewayVars, InboundCall, InboundCrash, Lifecycle, Environment,
                GatewayQuiescent, Next, vars
  <2>2. UnitInv'
    BY <2>1, StepRouted, StepRecordedInUnit, StepAnsweredInUnit
       DEF GatewayInv, GatewayUnitInv, UnitInv
  <2> QED BY <2>1, <2>2, InboundKeepsSentInUnit DEF GatewayUnitInv
<1> QED BY <1>1, <1>2 DEF OutboundCalls

\* Behind a fence an Ok answer names a message and a thread of the caller's unit, also when
\* the message is one that was sent.
THEOREM GatewayUnitsStayApart == GatewaySpec => []AnswersStayInUnit
<1>1. GatewayInit => GatewayUnitInv
  BY DEF GatewayInit, Init, OutCallsInit, StoreInit, GatewayUnitInv, UnitInv, RoutedInUnit,
     RecordedInUnit, AnsweredInUnit, SentInUnit, InTransaction, Recorded, NoMessage, MessageIds
<1>2. GatewayInv /\ GatewayUnitInv /\ [GatewayNext]_gatewayVars => GatewayUnitInv'
  BY GatewayStepUnits
<1>3. GatewayInv /\ GatewayUnitInv => AnswersStayInUnit
  <2>1. ASSUME GatewayInv, GatewayUnitInv, Fenced, NEW c \in Inbound, pc[c] = "answered"
        PROVE  /\ messages[outcome[c].message_id].unit = req[c].scope
               /\ threads[outcome[c].thread_id].unit = req[c].scope
    <3>1. /\ outcome[c].message_id \in MessageIds
          /\ Recorded(outcome[c].message_id)
          /\ outcome[c].thread_id = messages[outcome[c].message_id].thread_id
      BY <2>1 DEF GatewayInv, IInv, Answered, AnswersNameTheRecord
    <3>2. messages[outcome[c].message_id].unit = req[c].scope
      BY <2>1 DEF GatewayUnitInv, UnitInv, AnsweredInUnit
    <3>3. CASE outcome[c].message_id \in Inbound
      BY <2>1, <3>1, <3>2, <3>3 DEF GatewayUnitInv, UnitInv, RecordedInUnit
    <3>4. CASE outcome[c].message_id \in Sends
      BY <2>1, <3>1, <3>2, <3>4 DEF GatewayUnitInv, SentInUnit
    <3> QED BY <3>1, <3>3, <3>4, <3>2 DEF MessageIds
  <2> QED BY <2>1 DEF AnswersStayInUnit
<1> QED BY <1>1, <1>2, <1>3, GatewayInvHolds, PTL DEF GatewaySpec

(***************************************************************************)
(* The service implements the ledger                                       *)
(***************************************************************************)

\* What the ledger needs beyond the rows: threads are on a channel, a send that has read
\* its thread has that channel, and no send has a verdict before the provider's.
LedgerInv ==
  /\ \A t \in ThreadIds : threads[t].status # "absent" => threads[t].channel \in Channels
  /\ \A s \in Sends :
       /\ Undriven(s)
       /\ sendPc[s] \in {"queue", "drive"} => sendChannel[s] \in Channels
       /\ verdict[s] = "accepted" => GivenKey(s) \in Keys

\* A row that is rewritten keeps its channel.
LEMMA ChannelsStay ==
  ASSUME GatewayInv, LedgerInv, [GatewayNext]_gatewayVars
  PROVE  \A t \in ThreadIds : threads'[t].status # "absent" => threads'[t].channel \in Channels
<1>1. /\ threads \in [ThreadIds -> ThreadRow]
      /\ \A t \in ThreadIds : threads[t].status # "absent" => threads[t].channel \in Channels
  BY DEF GatewayInv, OutTypeOK, StoreTypeOK, LedgerInv
<1> DEFINE Goal == \A t \in ThreadIds : threads'[t].status # "absent" => threads'[t].channel \in Channels
<1>2. ASSUME OutCalls PROVE Goal
  <2>1. UNCHANGED threads \/ \E s \in Sends : TouchSent(s)
    BY <1>2 DEF OutCalls, SendStep, ProviderStep, StartSend, FetchThread, QueueOutbound, MarkSent,
                MarkFailed, PublishFailed, ProviderAccepts, ProviderRejects, CrashSend,
                ReceiptArrives, ReceiptStep, MarkDelivered, ReceiptIgnored, PublishDelivered,
                CrashReceipt, storeVars
  <2> QED BY <1>1, <2>1 DEF TouchSent, ThreadRow
<1>3. ASSUME NEW c \in Inbound, Commit(c) PROVE Goal
  <2>1. route[c].thread_id \in ThreadIds /\ req[c].channel \in Channels
    BY <1>3, RequestTyped DEF Commit, Goto, GatewayInv, IInv, Typed, Routed
  <2> QED BY <1>1, <1>3, <2>1 DEF Commit, TouchedThread, TouchedRow, OpenedThread, ThreadRow
<1>4. ASSUME LifecycleStep PROVE Goal
  <2>1. ASSUME NEW u \in ThreadIds, NEW row, UpdateThread(u, row), row.channel \in Channels \/ 
               (row.channel = threads[u].channel /\ (row.status # "absent" => threads[u].status # "absent"))
        PROVE  Goal
    BY <1>1, <2>1 DEF UpdateThread
  <2>2. ASSUME NEW o \in Opens, NEW ch \in Channels, NEW p \in Optional(Parties),
               NEW ref \in Optional(Handles), NEW u \in Stampable, OpenThread(o, ch, p, ref, u)
        PROVE  Goal
    <3>1. o \in ThreadIds /\ OpenedThread(ch, p, ref, None, None, u).channel \in Channels
      BY DEF OpenedThread, ThreadIds
    <3> QED BY <2>1, <2>2, <3>1 DEF OpenThread
  <2>3. ASSUME NEW u \in ThreadIds, NEW st \in SubjectTypes, NEW sid \in SubjectIds,
               LinkThread(u, st, sid)
        PROVE  Goal
    BY <1>1, <2>1, <2>3 DEF LinkThread, ThreadRow
  <2>4. ASSUME NEW u \in ThreadIds, CloseThread(u) \/ SoftDeleteThread(u)
        PROVE  Goal
    BY <1>1, <2>1, <2>4 DEF CloseThread, Closable, SoftDeleteThread, ThreadRow
  <2> QED BY <1>4, <2>2, <2>3, <2>4 DEF LifecycleStep
<1> QED BY <1>1, <1>2, <1>3, <1>4, StepOfIngest, OnlyCommitsWriteThreads

LEMMA StepLedgerInv ==
  ASSUME GatewayInv, LedgerInv, [GatewayNext]_gatewayVars
  PROVE  LedgerInv'
<1>1. /\ sendPc \in [Sends -> SendSteps] /\ verdict \in [Sends -> Verdicts]
      /\ sendChannel \in [Sends -> Optional(Channels)] /\ ack \in [Sends -> Optional(ExternalIds)]
      /\ OutTypeOK /\ CallTypes
  BY DEF GatewayInv, OutTypeOK, CallTypes
<1>2. ASSUME NEW s \in Sends
      PROVE  /\ Undriven(s)'
             /\ sendPc'[s] \in {"queue", "drive"} => sendChannel'[s] \in Channels
             /\ verdict'[s] = "accepted" => GivenKey(s)' \in Keys
  <2>1. /\ Undriven(s)
        /\ sendPc[s] \in {"queue", "drive"} => sendChannel[s] \in Channels
        /\ verdict[s] = "accepted" => GivenKey(s) \in Keys
    BY DEF LedgerInv
  <2>2. Undriven(s)'
    BY <2>1, GatewayShutOut
  <2>3. CASE UNCHANGED sendVars
    BY <2>1, <2>2, <2>3 DEF sendVars, GivenKey
  <2>4. ASSUME NEW r \in Sends, SendStep(r) \/ ProviderStep(r) \/ CrashSend(r), r # s
        PROVE  /\ sendPc'[s] = sendPc[s] /\ sendChannel'[s] = sendChannel[s]
               /\ verdict'[s] = verdict[s] /\ ack'[s] = ack[s]
    BY <1>1, <2>4 DEF SendStep, ProviderStep, SendGoto, StartSend, FetchThread, QueueOutbound, MarkSent,
         TouchSent, MarkFailed, PublishFailed, ProviderAccepts, ProviderRejects, CrashSend
  <2> USE <1>1, <2>1 DEF SendGoto, GivenKey
  <2>5. CASE FetchThread(s)
    <3>1. Sendable(s) => FetchedChannel(s) \in Channels
      BY RequestOf DEF Sendable, FoundForSend, FetchedChannel, LedgerInv
    <3>2. verdict'[s] = "none"
      BY <2>5 DEF FetchThread, Undriven
    <3> QED BY <2>2, <2>5, <3>1, <3>2 DEF FetchThread
  <2>6. CASE StartSend(s) \/ QueueOutbound(s) \/ MarkSent(s) \/ TouchSent(s) \/ MarkFailed(s)
              \/ PublishFailed(s) \/ CrashSend(s)
    BY <2>2, <2>6 DEF StartSend, QueueOutbound, MarkSent, TouchSent, MarkFailed, PublishFailed,
                      CrashSend
  <2>7. ASSUME NEW x \in AckIds, ProviderAccepts(s, x)
        PROVE  /\ sendPc'[s] = "mark" /\ GivenKey(s)' \in Keys
    BY <2>7, AckIdsAssumption DEF ProviderAccepts, Keys
  <2>8. ASSUME NEW v \in {"rejected", "rejected_at_length"}, ProviderRejects(s, v)
        PROVE  sendPc'[s] = "mark" /\ verdict'[s] # "accepted"
    BY <2>8 DEF ProviderRejects
  <2>9. UNCHANGED sendVars \/ \E r \in Sends : SendStep(r) \/ ProviderStep(r) \/ CrashSend(r)
    BY DEF GatewayNext, gatewayVars, InboundCall, InboundCrash, OutboundCalls, OutCalls, Lifecycle,
           GatewayQuiescent, outCallVars, ReceiptArrives, ReceiptStep, MarkDelivered, ReceiptIgnored,
           PublishDelivered, CrashReceipt
  <2>10. ASSUME SendStep(s) \/ ProviderStep(s) \/ CrashSend(s)
         PROVE  /\ sendPc'[s] \in {"queue", "drive"} => sendChannel'[s] \in Channels
                /\ verdict'[s] = "accepted" => GivenKey(s)' \in Keys
    BY <2>5, <2>6, <2>7, <2>8, <2>10 DEF SendStep, ProviderStep
  <2> QED BY <2>2, <2>3, <2>4, <2>9, <2>10
<1> QED BY <1>2, ChannelsStay DEF LedgerInv

LEMMA LedgerInvHolds == GatewaySpec => []LedgerInv
<1>1. GatewayInit => LedgerInv
  BY DEF GatewayInit, Init, StoreInit, OutCallsInit, LedgerInv, NoThread, Undriven
<1>2. GatewayInv /\ LedgerInv /\ [GatewayNext]_gatewayVars => LedgerInv'
  BY StepLedgerInv
<1> QED BY <1>1, <1>2, GatewayInvHolds, PTL DEF GatewaySpec

LEMMA LedgerInitRefines == GatewayInit => Ledger!Init
BY NoneAssumption, UuidAssumption DEF GatewayInit, Init, StoreInit, OutCallsInit, Ledger!Init,
   Entries, KeyedRows, Given, Accepted, WasRejected, NoMessage, NoOutcome, MessageIds

\* What a step may leave as it is: the inbound part, the sends, and the entries.
LEMMA InboxStays ==
  ASSUME UNCHANGED <<req, outbox, published, outcome>>
  PROVE  UNCHANGED Ledger!inboxVars
BY DEF Ledger!inboxVars, Key

GivenStays == \A s \in Sends : /\ verdict'[s] = verdict[s]
                               /\ verdict[s] = "accepted" => GivenKey(s)' = GivenKey(s)

LEMMA GivenView ==
  ASSUME GivenStays
  PROVE  UNCHANGED <<Given, {s \in Sends : WasRejected(s)}>>
<1>1. Accepted' = Accepted /\ {s \in Sends : WasRejected(s)}' = {s \in Sends : WasRejected(s)}
  BY DEF GivenStays, Accepted, WasRejected
<1>2. \A s \in Accepted : GivenKey(s)' = GivenKey(s)
  BY DEF GivenStays, Accepted
<1> QED BY <1>1, <1>2 DEF Given

LEMMA SendsStay ==
  ASSUME GivenStays, UNCHANGED <<failures, deliveries>>,
         \A s \in Sends : messages'[s].status = messages[s].status
  PROVE  UNCHANGED Ledger!outboxVars
BY GivenView DEF Ledger!outboxVars

EntryStays(m) ==
  /\ messages'[m].external_id = messages[m].external_id
  /\ messages[m].external_id # None => messages'[m].channel = messages[m].channel

LEMMA EntriesStay ==
  ASSUME \A m \in MessageIds : EntryStays(m)
  PROVE  Entries' = Entries
<1>1. KeyedRows' = KeyedRows
  BY DEF EntryStays, KeyedRows
<1>2. \A m \in KeyedRows : RowKey(m)' = RowKey(m)
  BY DEF EntryStays, KeyedRows, RowKey
<1> QED BY <1>1, <1>2 DEF Entries

\* A row that gets a key which no row has is an entry.
LEMMA Entering ==
  ASSUME NEW m \in MessageIds, NEW k \in Keys, messages[m].external_id = None,
         KeyRows(k[1], k[2]) = {},
         messages'[m].channel = k[1], messages'[m].external_id = k[2],
         \A n \in MessageIds \ {m} : EntryStays(n)
  PROVE  Ledger!Enter(m, k)
<1>1. k = <<k[1], k[2]>> /\ k[2] # None
  BY NoneAssumption DEF Keys
<1>2. \A e \in Entries : e[1] # m /\ e[2] # k
  BY <1>1 DEF Entries, KeyedRows, RowKey, KeyRows
<1>3. KeyedRows' = KeyedRows \cup {m}
  BY <1>1 DEF KeyedRows, EntryStays
<1>4. RowKey(m)' = k /\ \A n \in KeyedRows : RowKey(n)' = RowKey(n)
  BY <1>1 DEF RowKey, KeyedRows, EntryStays
<1>5. Entries' = {<<n, RowKey(n)'>> : n \in KeyedRows'}
  BY DEF Entries
<1>6. Entries' = Entries \cup {<<m, k>>}
  BY <1>3, <1>4, <1>5 DEF Entries
<1> QED BY <1>2, <1>6 DEF Ledger!Enter, Ledger!Fresh

\* Inbound: the commit enters the key, publishing delivers, and a duplicate is answered with
\* the entry of its key.
LEMMA CommitEnters ==
  ASSUME GatewayInv, NEW c \in Inbound, Commit(c), UNCHANGED outCallVars
  PROVE  Ledger!Record(c)
<1>1. /\ IInv
      /\ pc[c] = "commit"
      /\ messages' = [messages EXCEPT ![c] = ClaimedMessage(c)]
      /\ outbox' = outbox \cup {EventOf(c)}
      /\ UNCHANGED <<req, published, outcome>>
  BY DEF Commit, Goto, Staged, GatewayInv
<1>2. c \in MessageIds /\ c \notin Sends /\ messages \in [MessageIds -> MessageRow]
  BY <1>1, UuidAssumption DEF IInv, Typed, TypeOK, StoreTypeOK, MessageIds
<1>3. messages[c] = NoMessage
  BY <1>1 DEF IInv, Durable, RowsOfCalls
<1>4. Key(c) \in Keys
  BY <1>1, KeyTyped DEF IInv, Typed, Keyed
<1>5. KeyRows(req[c].channel, req[c].external_id) = {}
  BY <1>1 DEF IInv, Exclusive, KeyVacant, HoldsKey
<1>6. \A n \in MessageIds \ {c} : messages'[n] = messages[n]
  BY <1>1, <1>2
<1>7. messages'[c].channel = req[c].channel /\ messages'[c].external_id = req[c].external_id
  BY <1>1, <1>2 DEF ClaimedMessage
<1>8. Ledger!Enter(c, Key(c))
  BY <1>2, <1>3, <1>4, <1>5, <1>6, <1>7, Entering DEF Key, NoMessage, EntryStays
<1>9. {e.message_id : e \in outbox}' = {e.message_id : e \in outbox} \cup {c}
  <2>1. EventOf(c).message_id = c
    BY DEF EventOf
  <2> QED BY <1>1, <2>1
<1>10. UNCHANGED Ledger!outboxVars
  BY <1>2, <1>6, SendsStay DEF outCallVars, sendVars, receiptVars, GivenStays, GivenKey, MessageIds
<1>11. [d \in Inbound |-> Key(d)]' = [d \in Inbound |-> Key(d)]
  BY <1>1 DEF Key
<1> QED BY <1>1, <1>8, <1>9, <1>10, <1>11 DEF Ledger!Record

LEMMA PublishDelivers ==
  ASSUME GatewayInv, NEW c \in Inbound, Publish(c), UNCHANGED outCallVars
  PROVE  Ledger!Deliver(c)
<1>1. Inbox!Deliver(c)
  BY PublishRefines DEF GatewayInv
<1>2. UNCHANGED messages
  BY DEF Publish, storeVars
<1>3. UNCHANGED Entries
  BY <1>2, EntriesStay DEF EntryStays
<1>4. UNCHANGED Ledger!outboxVars
  BY <1>2, SendsStay DEF outCallVars, sendVars, receiptVars, GivenStays, GivenKey
<1> QED BY <1>1, <1>3, <1>4 DEF Inbox!Deliver, Ledger!Deliver

LEMMA DuplicateNamesEntry ==
  ASSUME GatewayInv, NEW c \in Inbound, FastPathHit(c) \/ RereadWinner(c), UNCHANGED outCallVars
  PROVE  Ledger!AnswerDuplicate(c)
<1>1. /\ IInv
      /\ pc[c] \in {"lookup", "reread"}
      /\ UNCHANGED <<req, messages, outbox, published>>
  BY DEF FastPathHit, RereadWinner, Goto, storeVars, GatewayInv
<1>2. PICK m \in Winner(c) : AnswerDuplicate(c, m)
  BY DEF FastPathHit, RereadWinner
<1>3. /\ m \in MessageIds /\ m # c
      /\ messages[m].channel = req[c].channel
      /\ messages[m].external_id = req[c].external_id
  BY <1>1, <1>2, WinnerRecorded DEF IInv
<1>4. req[c].external_id # None
  BY <1>1 DEF IInv, Typed, Keyed, WellFormed
<1>5. <<m, Key(c)>> \in Entries
  BY <1>3, <1>4 DEF Entries, KeyedRows, RowKey, Key
<1>6. outcome[c].message_id = None /\ outcome \in [Inbound -> InboundOutcome]
  BY <1>1 DEF IInv, Typed, TypeOK, Answered, Unanswered, NoOutcome
<1>7. [d \in Inbound |-> outcome[d].message_id]' =
         [[d \in Inbound |-> outcome[d].message_id] EXCEPT ![c] = m]
  BY <1>2, <1>6 DEF AnswerDuplicate
<1>8. UNCHANGED Entries
  BY <1>1, EntriesStay DEF EntryStays
<1>9. UNCHANGED Ledger!outboxVars
  BY <1>1, SendsStay DEF outCallVars, sendVars, receiptVars, GivenStays, GivenKey
<1>10. UNCHANGED <<[d \in Inbound |-> Key(d)], {e.message_id : e \in outbox},
                   {e.message_id : e \in published}>>
  BY <1>1 DEF Key
<1> QED BY <1>3, <1>5, <1>6, <1>7, <1>8, <1>9, <1>10 DEF Ledger!AnswerDuplicate

\* Every other step of an inbound or lifecycle call is invisible.
LEMMA InboundInvisible ==
  ASSUME UNCHANGED <<req, messages, outbox, published, outcome, outCallVars>>
  PROVE  UNCHANGED Ledger!ledgerVars
<1>1. UNCHANGED Entries
  BY EntriesStay DEF EntryStays
<1>2. UNCHANGED Ledger!outboxVars
  BY SendsStay DEF outCallVars, sendVars, receiptVars, GivenStays, GivenKey
<1> QED BY <1>1, <1>2, InboxStays DEF Ledger!ledgerVars

LEMMA InboundRefinesLedger ==
  ASSUME GatewayInv, NEW c \in Inbound, InboundCall(c) \/ InboundCrash(c)
  PROVE  [Ledger!Next]_(Ledger!ledgerVars)
<1>1. CASE InboundCall(c) /\ (Commit(c) \/ Publish(c) \/ FastPathHit(c) \/ RereadWinner(c))
  BY <1>1, CommitEnters, PublishDelivers, DuplicateNamesEntry DEF InboundCall, Ledger!Next
<1>2. CASE \/ Receive(c) \/ FastPathMiss(c) \/ Begin(c) \/ RouteByRef(c) \/ NoRefMatch(c)
           \/ RouteByParty(c) \/ OpenRouted(c) \/ OpenRefused(c) \/ ClaimRefused(c) \/ ClaimWon(c)
           \/ ClaimLost(c) \/ RereadMissing(c) \/ Touch(c) \/ NoCompanyScope(c)
           \/ StageEvent(c) \/ Crash(c)
  <2>1. UNCHANGED <<req, messages, outbox, published, outcome>>
    BY <1>2 DEF Receive, FastPathMiss, Begin, RouteByRef, NoRefMatch, RouteByParty, OpenRouted,
       OpenRefused, ClaimRefused, ClaimWon, ClaimLost, RereadMissing, Touch, NoCompanyScope,
       StageEvent, Crash, storeVars
  <2> QED BY <2>1, InboundInvisible DEF InboundCall, InboundCrash
<1> QED BY <1>1, <1>2 DEF InboundCall, InboundCrash, CallStep

\* Outbound: what a step leaves alone, and a send that changes its status.
LEMMA OutboundInvisible ==
  ASSUME UNCHANGED <<req, messages, outbox, published, outcome, failures, deliveries>>, GivenStays
  PROVE  UNCHANGED Ledger!ledgerVars
<1>1. UNCHANGED Entries
  BY EntriesStay DEF EntryStays
<1>2. UNCHANGED Ledger!outboxVars
  BY SendsStay
<1> QED BY <1>1, <1>2, InboxStays DEF Ledger!ledgerVars

LEMMA FateMoves ==
  ASSUME NEW s \in Sends, NEW to, messages'[s].status = to,
         \A n \in MessageIds \ {s} : messages'[n] = messages[n]
  PROVE  Ledger!Move(s, messages[s].status, to)
BY DEF Ledger!Move, MessageIds

\* A statement that rewrites one send's row and gives or takes no key.
LEMMA RowMoves ==
  ASSUME GatewayInv, NEW s \in Sends, NEW row, messages' = [messages EXCEPT ![s] = row],
         row.external_id = messages[s].external_id,
         messages[s].external_id # None => row.channel = messages[s].channel,
         UNCHANGED <<req, outbox, published, outcome, verdict, ack, sendChannel, failures, deliveries>>
  PROVE  /\ Ledger!Move(s, messages[s].status, row.status)
         /\ UNCHANGED <<Entries, Ledger!inboxVars, Given, {r \in Sends : WasRejected(r)},
                        failures, [r \in Sends |-> deliveries[r]]>>
<1>1. /\ messages'[s] = row
      /\ \A n \in MessageIds \ {s} : messages'[n] = messages[n]
  BY DEF GatewayInv, OutTypeOK, StoreTypeOK, MessageIds
<1>2. Ledger!Move(s, messages[s].status, row.status)
  BY <1>1, FateMoves
<1>3. UNCHANGED Entries
  BY <1>1, EntriesStay DEF EntryStays
<1>4. UNCHANGED <<Given, {r \in Sends : WasRejected(r)}>>
  BY GivenView DEF GivenStays, GivenKey
<1> QED BY <1>2, <1>3, <1>4, InboxStays

LEMMA QueueRefines ==
  ASSUME GatewayInv, NEW s \in Sends, QueueOutbound(s), UNCHANGED callVars
  PROVE  Ledger!Queue(s) \/ UNCHANGED Ledger!ledgerVars
<1>1. UNCHANGED <<req, outbox, published, outcome, verdict, ack, sendChannel, failures, deliveries>>
  BY DEF QueueOutbound, callVars, receiptVars
<1>2. CASE SendStorable(s)
  <2>1. messages[s].status = "absent"
    BY DEF QueueOutbound, SendGoto, GatewayInv, OutInv, SendInv, PlaceInv
  <2>2. messages[s].external_id = None
    BY <2>1 DEF GatewayInv, IInv, Durable, KeysAreOfRows, Recorded, MessageIds
  <2>3. /\ messages' = [messages EXCEPT ![s] = QueuedMessage(s)]
        /\ QueuedMessage(s).external_id = None /\ QueuedMessage(s).status = "queued"
    BY <1>2 DEF QueueOutbound, QueuedMessage
  <2> QED BY <1>1, <2>1, <2>2, <2>3, RowMoves DEF Ledger!Queue
<1>3. CASE ~SendStorable(s)
  BY <1>1, <1>3, OutboundInvisible DEF QueueOutbound, GivenStays, GivenKey
<1> QED BY <1>2, <1>3

\* The provider's answer: to a send that is queued and has had none.
LEMMA ProviderRefines ==
  ASSUME GatewayInv, LedgerInv, NEW s \in Sends, ProviderStep(s), UNCHANGED callVars
  PROVE  (\E k \in Keys : Ledger!Accept(s, k)) \/ Ledger!Reject(s)
<1>1. /\ sendPc[s] = "drive" /\ sendChannel[s] \in Channels
      /\ UNCHANGED <<req, messages, outbox, published, outcome, sendChannel, failures, deliveries>>
      /\ verdict \in [Sends -> Verdicts] /\ ack \in [Sends -> Optional(ExternalIds)]
  BY DEF ProviderStep, ProviderAccepts, ProviderRejects, SendGoto, callVars, storeVars, receiptVars,
         LedgerInv, GatewayInv, OutTypeOK
<1>2. messages[s].status = "queued" /\ verdict[s] = "none"
  BY <1>1 DEF GatewayInv, OutInv, SendInv, PlaceInv, LedgerInv, Undriven
<1>3. s \notin Accepted /\ s \notin {r \in Sends : WasRejected(r)}
  BY <1>2 DEF Accepted, WasRejected
<1>4. UNCHANGED <<Entries, Ledger!inboxVars, [r \in Sends |-> messages[r].status], failures,
                  [r \in Sends |-> deliveries[r]]>>
  BY <1>1, InboxStays, EntriesStay DEF EntryStays
<1>5. \A g \in Given : g[1] # s
  BY <1>3 DEF Given
<1>6. ASSUME NEW x \in AckIds, ProviderAccepts(s, x)
      PROVE  \E k \in Keys : Ledger!Accept(s, k)
  <2> DEFINE k == <<sendChannel[s], x>>
  <2>1. k \in Keys
    BY <1>1, AckIdsAssumption DEF Keys
  <2>2. Ledger!Fresh(Given, s, k)
    <3>1. ASSUME NEW r \in Accepted PROVE GivenKey(r) # k
      BY <1>6, <3>1 DEF GivenKey, Accepted, ProviderAccepts, Issued
    <3> QED BY <1>5, <3>1 DEF Ledger!Fresh, Given
  <2>3. Accepted' = Accepted \cup {s}
    BY <1>1, <1>6 DEF Accepted, ProviderAccepts
  <2>4. GivenKey(s)' = k /\ \A r \in Accepted : GivenKey(r)' = GivenKey(r)
    BY <1>1, <1>3, <1>6 DEF GivenKey, ProviderAccepts, Accepted
  <2>5. Given' = {<<r, GivenKey(r)'>> : r \in Accepted'}
    BY DEF Given
  <2>6. Given' = Given \cup {<<s, k>>}
    BY <2>3, <2>4, <2>5 DEF Given
  <2>7. UNCHANGED {r \in Sends : WasRejected(r)}
    BY <1>1, <1>2, <1>6 DEF WasRejected, ProviderAccepts
  <2> HIDE DEF k
  <2> QED BY <1>2, <1>3, <1>4, <2>1, <2>2, <2>6, <2>7 DEF Ledger!Accept
<1>7. ASSUME NEW v \in {"rejected", "rejected_at_length"}, ProviderRejects(s, v)
      PROVE  Ledger!Reject(s)
  <2>1. Accepted' = Accepted /\ \A r \in Accepted : GivenKey(r)' = GivenKey(r)
    BY <1>1, <1>2, <1>7 DEF Accepted, ProviderRejects, GivenKey
  <2>2. Given' = Given
    BY <2>1 DEF Given
  <2>3. {r \in Sends : WasRejected(r)}' = {r \in Sends : WasRejected(r)} \cup {s}
    BY <1>1, <1>7 DEF WasRejected, ProviderRejects
  <2> QED BY <1>2, <1>3, <1>4, <1>5, <2>2, <2>3 DEF Ledger!Reject
<1> QED BY <1>6, <1>7 DEF ProviderStep

\* mark_sent enters the key the provider gave, or finds it taken and changes nothing.
LEMMA MarkSentRefines ==
  ASSUME GatewayInv, LedgerInv, NEW s \in Sends, MarkSent(s), UNCHANGED callVars
  PROVE  (\E k \in Keys : Ledger!MarkSent(s, k)) \/ UNCHANGED Ledger!ledgerVars
<1>1. /\ sendPc[s] = "mark" /\ verdict[s] = "accepted"
      /\ UNCHANGED <<req, outbox, published, outcome, verdict, ack, sendChannel, failures, deliveries>>
  BY DEF MarkSent, SendGoto, callVars, receiptVars
<1>2. GivenKey(s) \in Keys /\ <<s, GivenKey(s)>> \in Given
  BY <1>1 DEF LedgerInv, Given, Accepted
<1>3. /\ messages[s].status = "queued" /\ messages[s].external_id = None
      /\ messages[s].channel = sendChannel[s]
      /\ messages \in [MessageIds -> MessageRow] /\ s \in MessageIds
  BY <1>1 DEF GatewayInv, OutInv, SendInv, PlaceInv, OutTypeOK, StoreTypeOK, MessageIds
<1>4. CASE ~SentKeyIsTaken(s)
  <2>1. /\ messages'[s].status = "sent" /\ messages'[s].external_id = ack[s]
        /\ messages'[s].channel = sendChannel[s]
        /\ \A n \in MessageIds \ {s} : messages'[n] = messages[n]
    BY <1>3, <1>4 DEF MarkSent, WithSent, MessageRow
  <2>2. Ledger!Enter(s, GivenKey(s))
    <3>1. KeyRows(GivenKey(s)[1], GivenKey(s)[2]) = {}
      BY <1>4 DEF SentKeyIsTaken, GivenKey
    <3>2. messages'[s].channel = GivenKey(s)[1] /\ messages'[s].external_id = GivenKey(s)[2]
      BY <2>1 DEF GivenKey
    <3> QED BY <1>2, <1>3, <2>1, <3>1, <3>2, Entering DEF EntryStays
  <2>3. Ledger!Move(s, "queued", "sent")
    BY <1>3, <2>1, FateMoves
  <2>4. UNCHANGED <<Given, {r \in Sends : WasRejected(r)}>>
    BY <1>1, GivenView DEF GivenStays, GivenKey
  <2> QED BY <1>1, <1>2, <2>2, <2>3, <2>4, InboxStays DEF Ledger!MarkSent
<1>5. CASE SentKeyIsTaken(s)
  BY <1>1, <1>5, OutboundInvisible DEF MarkSent, GivenStays, GivenKey
<1> QED BY <1>4, <1>5

\* A failure is written down, then announced.
LEMMA FailureRefines ==
  ASSUME GatewayInv, NEW s \in Sends, MarkFailed(s) \/ PublishFailed(s), UNCHANGED callVars
  PROVE  Ledger!MarkFailed(s) \/ Ledger!AnnounceFailure(s) \/ UNCHANGED Ledger!ledgerVars
<1>1. /\ UNCHANGED <<req, outbox, published, outcome, verdict, ack, sendChannel, deliveries>>
      /\ messages \in [MessageIds -> MessageRow] /\ s \in MessageIds
  BY DEF MarkFailed, PublishFailed, callVars, storeVars, receiptVars, GatewayInv, OutTypeOK,
         StoreTypeOK, MessageIds
<1>2. CASE MarkFailed(s) /\ ReasonFits(s)
  <2> DEFINE row == [messages[s] EXCEPT !.status = "failed"]
  <2>1. /\ messages' = [messages EXCEPT ![s] = row] /\ UNCHANGED failures
        /\ row.status = "failed" /\ row.external_id = messages[s].external_id
        /\ row.channel = messages[s].channel
    BY <1>1, <1>2 DEF MarkFailed, WithFailure, MessageRow
  <2>2. messages[s].status = "queued"
    BY <1>2 DEF MarkFailed, SendGoto, GatewayInv, OutInv, SendInv, PlaceInv
  <2>3. s \in {r \in Sends : WasRejected(r)}
    BY <1>2 DEF MarkFailed
  <2> HIDE DEF row
  <2> QED BY <1>1, <2>1, <2>2, <2>3, RowMoves DEF Ledger!MarkFailed
<1>3. CASE MarkFailed(s) /\ ~ReasonFits(s)
  BY <1>1, <1>3, OutboundInvisible DEF MarkFailed, GivenStays, GivenKey
<1>4. CASE PublishFailed(s)
  <2>1. messages[s].status = "failed"
    BY <1>4 DEF PublishFailed, SendGoto, GatewayInv, OutInv, SendInv, PlaceInv
  <2>2. UNCHANGED <<Given, {r \in Sends : WasRejected(r)}>>
    BY <1>1, GivenView DEF GivenStays, GivenKey
  <2>3. UNCHANGED messages /\ failures' = failures \cup {s}
    BY <1>4 DEF PublishFailed, storeVars
  <2>4. UNCHANGED Entries
    BY <2>3, EntriesStay DEF EntryStays
  <2> QED BY <1>1, <2>1, <2>2, <2>3, <2>4, InboxStays DEF Ledger!AnnounceFailure
<1> QED BY <1>2, <1>3, <1>4

\* A receipt moves a send, since no inbound row is `sent`, and announces the one it moved.
LEMMA ReceiptRefines ==
  ASSUME GatewayInv, NEW r \in Receipts, MarkDelivered(r) \/ PublishDelivered(r),
         UNCHANGED callVars
  PROVE  \E s \in Sends : Ledger!MarkDelivered(s) \/ Ledger!AnnounceDelivery(s)
<1>1. /\ messages \in [MessageIds -> MessageRow] /\ deliveries \in [MessageIds -> Nat]
      /\ \A m \in MessageIds : messages[m].status \in {"sent", "delivered"} => m \in Sends
  <2>1. \A m \in Inbound : messages[m] = NoMessage \/ messages[m] = ClaimedMessage(m)
    BY DEF GatewayInv, IInv, Durable, RowsOfCalls
  <2> QED BY <2>1 DEF NoMessage, ClaimedMessage, MessageIds, GatewayInv, OutTypeOK, StoreTypeOK
<1>2. UNCHANGED <<req, outbox, published, outcome, verdict, ack, sendChannel, failures>>
  BY DEF MarkDelivered, PublishDelivered, callVars, storeVars, sendVars
<1>3. CASE MarkDelivered(r)
  <2>1. PICK m \in Deliverable(r) : messages' = [messages EXCEPT ![m].status = "delivered"]
    BY <1>3 DEF MarkDelivered
  <2>2. m \in Sends /\ messages[m].status = "sent"
    BY <1>1 DEF Deliverable, FoundByExternalId, KeyRows
  <2> DEFINE row == [messages[m] EXCEPT !.status = "delivered"]
  <2>3. /\ messages' = [messages EXCEPT ![m] = row] /\ UNCHANGED deliveries
        /\ row.status = "delivered" /\ row.external_id = messages[m].external_id
        /\ row.channel = messages[m].channel
    BY <1>1, <1>3, <2>1, <2>2 DEF MarkDelivered, MessageRow, MessageIds
  <2> HIDE DEF row
  <2> QED BY <1>2, <2>2, <2>3, RowMoves DEF Ledger!MarkDelivered
<1>4. CASE PublishDelivered(r)
  <2> DEFINE m == receipt[r].moved
  <2>1. m \in MessageIds /\ messages[m].status = "delivered" /\ deliveries[m] = 0
    BY <1>4 DEF PublishDelivered, ReceiptGoto, GatewayInv, OutInv, DeliveryInv
  <2>2. UNCHANGED messages /\ deliveries' = [deliveries EXCEPT ![m] = @ + 1]
    BY <1>4 DEF PublishDelivered, storeVars
  <2> HIDE DEF m
  <2>3. m \in Sends
    BY <1>1, <2>1
  <2>4. [q \in Sends |-> deliveries[q]]' = [[q \in Sends |-> deliveries[q]] EXCEPT ![m] = 1]
    <3>1. /\ deliveries'[m] = 1
          /\ \A q \in Sends : q # m => deliveries'[q] = deliveries[q]
      BY <1>1, <2>1, <2>2 DEF MessageIds
    <3> QED BY <2>3, <3>1
  <2>5. UNCHANGED <<Given, {q \in Sends : WasRejected(q)}, Entries>>
    BY <1>2, <2>2, GivenView, EntriesStay DEF GivenStays, GivenKey, EntryStays
  <2> QED BY <1>2, <2>1, <2>2, <2>3, <2>4, <2>5, InboxStays DEF Ledger!AnnounceDelivery
<1> QED BY <1>3, <1>4

LEMMA OutboundRefinesLedger ==
  ASSUME GatewayInv, LedgerInv, OutboundCalls
  PROVE  [Ledger!Next]_(Ledger!ledgerVars)
<1>1. UNCHANGED callVars /\ UNCHANGED <<req, published, outcome>>
  BY DEF OutboundCalls, callVars
<1>2. ASSUME NEW s \in Sends, StartSend(s) \/ FetchThread(s) \/ TouchSent(s) \/ CrashSend(s)
      PROVE  UNCHANGED Ledger!ledgerVars
  <2>1. UNCHANGED <<messages, outbox, failures, deliveries>>
    BY <1>2 DEF StartSend, FetchThread, TouchSent, CrashSend, storeVars, receiptVars
  <2>2. GivenStays
    <3>1. CASE FetchThread(s)
      <4>1. verdict[s] = "none" /\ UNCHANGED <<verdict, ack>>
        BY <3>1 DEF FetchThread, SendGoto, LedgerInv, Undriven
      <4>2. \A r \in Sends \ {s} : sendChannel'[r] = sendChannel[r]
        BY <3>1 DEF FetchThread, GatewayInv, OutTypeOK
      <4> QED BY <4>1, <4>2 DEF GivenStays, GivenKey
    <3>2. CASE ~FetchThread(s)
      BY <1>2, <3>2 DEF StartSend, TouchSent, CrashSend, GivenStays, GivenKey
    <3> QED BY <3>1, <3>2
  <2> QED BY <1>1, <2>1, <2>2, OutboundInvisible
<1>3. ASSUME NEW s \in Sends, SendStep(s) \/ ProviderStep(s) \/ CrashSend(s)
      PROVE  [Ledger!Next]_(Ledger!ledgerVars)
  BY <1>1, <1>2, <1>3, QueueRefines, ProviderRefines, MarkSentRefines, FailureRefines
     DEF SendStep, Ledger!Next
<1>4. ASSUME NEW r \in Receipts, MarkDelivered(r) \/ PublishDelivered(r)
      PROVE  [Ledger!Next]_(Ledger!ledgerVars)
  BY <1>1, <1>4, ReceiptRefines DEF Ledger!Next
<1>5. ASSUME NEW r \in Receipts,
             (\E s \in Sends : ReceiptArrives(r, s)) \/ ReceiptIgnored(r) \/ CrashReceipt(r)
      PROVE  UNCHANGED Ledger!ledgerVars
  BY <1>1, <1>5, OutboundInvisible DEF ReceiptArrives, ReceiptIgnored, CrashReceipt, storeVars,
     sendVars, GivenStays, GivenKey
<1> QED BY <1>3, <1>4, <1>5 DEF OutboundCalls, OutCalls, ReceiptStep

LEMMA GatewayStepRefines ==
  ASSUME GatewayInv, LedgerInv, [GatewayNext]_gatewayVars
  PROVE  [Ledger!Next]_(Ledger!ledgerVars)
<1>1. CASE Lifecycle \/ GatewayQuiescent \/ UNCHANGED gatewayVars
  <2>1. UNCHANGED <<req, messages, outbox, published, outcome, outCallVars>>
    BY <1>1, LifecycleTyped DEF Lifecycle, GatewayQuiescent, gatewayVars, storeVars, callVars,
       GatewayInv, IInv, Typed
  <2> QED BY <2>1, InboundInvisible
<1> QED BY <1>1, InboundRefinesLedger, OutboundRefinesLedger DEF GatewayNext

\* For any number of calls in both directions, with crashes and lifecycle calls between any
\* two of their statements: a provider id is entered once and by one message, the provider is
\* driven for what is stored and its answer is what gets stored, an event is of what is
\* stored and a delivery is announced once, and an Ok names the entry of its id.
THEOREM GatewayRefinement == GatewaySpec => ImplementsLedger
<1>1. GatewayInit => Ledger!Init
  BY LedgerInitRefines
<1>2. GatewayInv /\ LedgerInv /\ [GatewayNext]_gatewayVars => [Ledger!Next]_(Ledger!ledgerVars)
  BY GatewayStepRefines
<1> QED BY <1>1, <1>2, GatewayInvHolds, LedgerInvHolds, PTL
        DEF GatewaySpec, ImplementsLedger, Ledger!Spec

(***************************************************************************)
(* Who waits for whom                                                      *)
(***************************************************************************)

\* A lock is held by a call that stands between taking it and the end of its transaction:
\* a key from the claim, a thread row from the touch.
LocksInv ==
  /\ \A k \in Keys : keyHolder[k] # None =>
       pc[keyHolder[k]] \in HoldsKey /\ Key(keyHolder[k]) = k
  /\ \A t \in ThreadIds : rowHolder[t] # None =>
       pc[rowHolder[t]] \in HoldsRow /\ route[rowHolder[t]].thread_id = t

\* Only call c moves, and it has what it takes for the locks it holds afterwards.
LEMMA LocksFrame ==
  ASSUME Typed, LocksInv, NEW c \in Inbound, UNCHANGED req,
         \A d \in Inbound \ {c} : pc'[d] = pc[d] /\ route'[d] = route[d],
         \A k \in Keys : \/ keyHolder'[k] \in {keyHolder[k], None} /\ keyHolder'[k] # c
                         \/ keyHolder'[k] = c /\ pc'[c] \in HoldsKey /\ Key(c) = k,
         \A t \in ThreadIds : \/ rowHolder'[t] \in {rowHolder[t], None} /\ rowHolder'[t] # c
                              \/ /\ rowHolder'[t] = c /\ pc'[c] \in HoldsRow
                                 /\ route'[c].thread_id = t
  PROVE  LocksInv'
<1>1. /\ \A k \in Keys : keyHolder[k] # None => keyHolder[k] \in Inbound
      /\ \A t \in ThreadIds : rowHolder[t] # None => rowHolder[t] \in Inbound
  BY DEF Typed, TypeOK, StoreTypeOK, Optional
<1>2. c # None
  BY NoneAssumption
<1>3. \A d : Key(d)' = Key(d)
  BY DEF Key
<1> QED BY <1>1, <1>2, <1>3 DEF LocksInv

LEMMA StepLocks ==
  ASSUME IInv, LocksInv, [Next]_vars
  PROVE  LocksInv'
<1>1. /\ Typed /\ pc \in [Inbound -> Steps] /\ route \in [Inbound -> RoutedThread]
      /\ keyHolder \in [Keys -> Optional(Inbound)] /\ rowHolder \in [ThreadIds -> Optional(Inbound)]
  BY DEF IInv, Typed, TypeOK, StoreTypeOK
<1>2. ASSUME UNCHANGED <<keyHolder, rowHolder, pc, req, route>> PROVE LocksInv'
  BY <1>2 DEF LocksInv, Key
<1>3. ASSUME NEW c \in Inbound, ReleaseLocks(c), UNCHANGED req,
             \A d \in Inbound \ {c} : pc'[d] = pc[d] /\ route'[d] = route[d]
      PROVE  LocksInv'
  <2>1. /\ \A k \in Keys : keyHolder'[k] \in {keyHolder[k], None} /\ keyHolder'[k] # c
        /\ \A t \in ThreadIds : rowHolder'[t] \in {rowHolder[t], None} /\ rowHolder'[t] # c
    BY <1>3, NoneAssumption DEF ReleaseLocks
  <2> QED BY <1>1, <1>3, <2>1, LocksFrame
<1>4. ASSUME NEW c \in Inbound, pc[c] \notin HoldsKey, UNCHANGED <<keyHolder, rowHolder, req>>,
             \A d \in Inbound \ {c} : pc'[d] = pc[d] /\ route'[d] = route[d]
      PROVE  LocksInv'
  <2>1. /\ \A k \in Keys : keyHolder[k] # c
        /\ \A t \in ThreadIds : rowHolder[t] # c
    BY <1>4, NoneAssumption DEF LocksInv, HoldsKey, HoldsRow
  <2> QED BY <1>1, <1>4, <2>1, LocksFrame
<1> USE DEF Goto, HoldsKey, HoldsRow
<1>5. ASSUME NEW c \in Inbound,
             \/ Receive(c) \/ FastPathHit(c) \/ FastPathMiss(c) \/ Begin(c) \/ RouteByRef(c)
             \/ NoRefMatch(c) \/ RouteByParty(c) \/ OpenRouted(c) \/ OpenRefused(c)
             \/ RereadWinner(c) \/ RereadMissing(c) \/ Publish(c)
      PROVE  LocksInv'
  BY <1>1, <1>4, <1>5 DEF Receive, FastPathHit, FastPathMiss, Begin, RouteByRef, NoRefMatch,
     RouteByParty, OpenRouted, OpenRefused, RereadWinner, RereadMissing, Publish, RouteOnto, storeVars
<1>6. ASSUME NEW c \in Inbound,
             ClaimRefused(c) \/ ClaimLost(c) \/ NoCompanyScope(c) \/ Commit(c) \/ Crash(c)
      PROVE  LocksInv'
  BY <1>1, <1>3, <1>6 DEF ClaimRefused, ClaimLost, NoCompanyScope, Commit, Crash
<1>7. ASSUME NEW c \in Inbound, ClaimWon(c) PROVE LocksInv'
  <2>1. /\ \A k \in Keys : keyHolder'[k] = IF k = Key(c) THEN c ELSE keyHolder[k]
        /\ UNCHANGED <<rowHolder, req, route>> /\ pc' = [pc EXCEPT ![c] = "touch"] /\ pc[c] = "claim"
    BY <1>1, <1>7 DEF ClaimWon
  <2>2. /\ \A k \in Keys : keyHolder[k] # c
        /\ \A t \in ThreadIds : rowHolder[t] # c
    BY <2>1, NoneAssumption DEF LocksInv
  <2> QED BY <1>1, <2>1, <2>2, LocksFrame
<1>8. ASSUME NEW c \in Inbound, Touch(c) PROVE LocksInv'
  <2>1. /\ \A t \in ThreadIds : rowHolder'[t] = IF t = route[c].thread_id THEN c ELSE rowHolder[t]
        /\ UNCHANGED <<keyHolder, req, route>> /\ pc' = [pc EXCEPT ![c] = "stage"] /\ pc[c] = "touch"
    BY <1>1, <1>8 DEF Touch
  <2>2. \A t \in ThreadIds : rowHolder[t] # c
    BY <2>1, NoneAssumption DEF LocksInv
  <2>3. \A k \in Keys : keyHolder[k] = c => Key(c) = k
    BY NoneAssumption DEF LocksInv
  <2> QED BY <1>1, <2>1, <2>2, <2>3, LocksFrame
<1>9. ASSUME NEW c \in Inbound, StageEvent(c) PROVE LocksInv'
  <2>1. /\ UNCHANGED <<keyHolder, rowHolder, req, route>> /\ pc' = [pc EXCEPT ![c] = "commit"]
        /\ pc[c] = "stage"
    BY <1>1, <1>9 DEF StageEvent, storeVars
  <2>2. /\ \A k \in Keys : keyHolder[k] = c => Key(c) = k
        /\ \A t \in ThreadIds : rowHolder[t] = c => route[c].thread_id = t
    BY NoneAssumption DEF LocksInv
  <2> QED BY <1>1, <2>1, <2>2, LocksFrame
<1>10. ASSUME Environment \/ UNCHANGED vars PROVE LocksInv'
  BY <1>1, <1>2, <1>10, LifecycleTyped DEF Environment, callVars, vars, storeVars, Typed
<1> QED BY <1>5, <1>6, <1>7, <1>8, <1>9, <1>10 DEF Next, CallStep, Quiescent

\* What an inbound call and a send wait for: the transaction that has inserted the key, and
\* the one that has updated the thread row.
Waits(c, d) ==
  \/ pc[c] = "claim" /\ keyHolder[Key(c)] = d
  \/ pc[c] = "touch" /\ rowHolder[route[c].thread_id] = d

SendWaits(s, d) ==
  \/ sendPc[s] = "mark" /\ verdict[s] = "accepted" /\ keyHolder[GivenKey(s)] = d
  \/ sendPc[s] = "touch" /\ rowHolder[Target(s)] = d

\* How many locks a call may still have to wait for.
LocksToCome == [claim |-> 2, touch |-> 1, stage |-> 0, commit |-> 0]

\* Every wait is for a call that has fewer locks to wait for.
WaitsAreOrdered ==
  \A d \in Inbound :
    /\ \A c \in Inbound : Waits(c, d) =>
         pc[d] \in HoldsKey /\ LocksToCome[pc[d]] < LocksToCome[pc[c]]
    /\ \A s \in Sends : SendWaits(s, d) => pc[d] \in HoldsKey

\* No call waits in a circle, for any number of calls, keys and threads: every transaction
\* takes its key before its thread row and holds neither once it has ended, and a send,
\* whose statements each commit alone, holds nothing that another call waits for.
THEOREM GatewayWaitsAreOrdered == GatewaySpec => []WaitsAreOrdered
<1>1. GatewayInit => LocksInv
  BY DEF GatewayInit, Init, StoreInit, LocksInv
<1>2. ASSUME GatewayInv, LocksInv, [GatewayNext]_gatewayVars PROVE LocksInv'
  <2>1. CASE OutCalls /\ UNCHANGED callVars
    BY <1>2, <2>1, OutboundCallEffect DEF OutboundEffect, LocksInv, Key, callVars
  <2> QED BY <1>2, <2>1, StepOfIngest, StepLocks DEF GatewayInv
<1>3. ASSUME GatewayInv, LedgerInv, LocksInv PROVE WaitsAreOrdered
  <2>1. ASSUME NEW c \in Inbound, NEW d \in Inbound, Waits(c, d)
        PROVE  pc[d] \in HoldsKey /\ LocksToCome[pc[d]] < LocksToCome[pc[c]]
    <3>1. d # None /\ (pc[c] = "claim" => Key(c) \in Keys)
          /\ (pc[c] = "touch" => route[c].thread_id \in ThreadIds)
      BY <1>3, KeyTyped, NoneAssumption DEF GatewayInv, IInv, Typed, Keyed, Routed
    <3> QED BY <1>3, <2>1, <3>1 DEF Waits, LocksInv, LocksToCome, HoldsKey, HoldsRow
  <2>2. ASSUME NEW s \in Sends, NEW d \in Inbound, SendWaits(s, d)
        PROVE  pc[d] \in HoldsKey
    <3>1. d # None /\ Target(s) \in ThreadIds
      BY <1>3, RequestOf, NoneAssumption DEF GatewayInv, OutTypeOK, CallTypes
    <3> QED BY <1>3, <2>2, <3>1 DEF SendWaits, LedgerInv, LocksInv, HoldsKey, HoldsRow
  <2> QED BY <2>1, <2>2 DEF WaitsAreOrdered
<1> QED BY <1>1, <1>2, <1>3, LedgerInvHolds, GatewayInvHolds, PTL DEF GatewaySpec
=============================================================================
