--------------------------- MODULE ChannelGateway ---------------------------
(***************************************************************************)
(* The whole CommunicationWriteService over one database: receive_inbound   *)
(* (InboundIngest) and send_outbound / mark_delivered (OutboundSend) share   *)
(* the threads, the messages with their one unique index, and the locks.     *)
(* What a call of one direction does not share, the other leaves alone.      *)
(***************************************************************************)
EXTENDS InboundIngest, OutboundSend

outCallVars == <<sendVars, receiptVars>>
gatewayVars == <<storeVars, callVars, outCallVars>>

GatewayTypeOK == TypeOK /\ OutTypeOK

GatewayInit == Init /\ OutCallsInit

InboundCall(c)  == CallStep(c) /\ UNCHANGED outCallVars
InboundCrash(c) == Crash(c) /\ UNCHANGED outCallVars
OutboundCalls   == OutCalls /\ UNCHANGED callVars
Lifecycle       == LifecycleStep /\ UNCHANGED <<callVars, outCallVars>>

GatewayQuiescent ==
  /\ \A c \in Inbound : pc[c] \in Ended
  /\ \A s \in Sends : sendPc[s] \in SendEnded
  /\ \A r \in Receipts : receiptPc[r] \in ReceiptEnded \cup {"idle"}
  /\ UNCHANGED gatewayVars

GatewayNext ==
  \/ \E c \in Inbound : InboundCall(c) \/ InboundCrash(c)
  \/ OutboundCalls
  \/ Lifecycle
  \/ GatewayQuiescent

GatewayFairness ==
  /\ \A c \in Inbound : WF_gatewayVars(InboundCall(c))
  /\ \A s \in Sends : /\ WF_gatewayVars(SendStep(s) /\ UNCHANGED callVars)
                       /\ WF_gatewayVars(ProviderStep(s) /\ UNCHANGED callVars)

GatewaySpec     == GatewayInit /\ [][GatewayNext]_gatewayVars
GatewayLiveSpec == GatewaySpec /\ GatewayFairness

----------------------------------------------------------------------------
\* One row per (channel, external_id) across both directions: a provider id that
\* an inbound message holds is never given to a sent one, nor the reverse, also
\* while the inbound claim is not committed yet.
OneRowPerKey ==
  \A m, n \in MessageIds :
    /\ messages[m].external_id # None
    /\ messages[n].external_id # None
    /\ messages[m].channel = messages[n].channel
    /\ messages[m].external_id = messages[n].external_id
    => m = n

\* With sends and receipts running, inbound rows never leave `received`.
InboundStaysReceived ==
  \A c \in Inbound : messages[c].status \in {"absent", "received"}

(* The promise of both directions together. *)

KeyedRows   == {m \in MessageIds : messages[m].external_id # None}
RowKey(m)   == <<messages[m].channel, messages[m].external_id>>
Accepted    == {s \in Sends : verdict[s] = "accepted"}
GivenKey(s) == <<sendChannel[s], ack[s]>>

Entries == {<<m, RowKey(m)>> : m \in KeyedRows}
Given   == {<<s, GivenKey(s)>> : s \in Accepted}

Ledger == INSTANCE ChannelLedger WITH
  Calls      <- Inbound,
  asked      <- [c \in Inbound |-> Key(c)],
  entries    <- Entries,
  routed     <- {e.message_id : e \in outbox},
  delivered  <- {e.message_id : e \in published},
  answer     <- [c \in Inbound |-> outcome[c].message_id],
  fate       <- [s \in Sends |-> messages[s].status],
  given      <- Given,
  rejected   <- {s \in Sends : WasRejected(s)},
  deliveries <- [s \in Sends |-> deliveries[s]]

\* The service implements the ledger: each of its steps, of a call of either direction,
\* a crash or a lifecycle call, is one entry, one answer, one event or one mark of a
\* send, or is invisible to the parties.
ImplementsLedger == Ledger!Spec

----------------------------------------------------------------------------
\* With inbound transactions locking keys and thread rows, every inbound call and
\* every send still returns.
EveryDirectionReturns == EveryCallReturns /\ EverySendReturns
=============================================================================
