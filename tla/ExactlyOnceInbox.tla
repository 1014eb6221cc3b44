-------------------------- MODULE ExactlyOnceInbox --------------------------
(***************************************************************************)
(* What receive_inbound promises, without threads, transactions or locks:   *)
(* the first call to record a provider message is the only one ever to, the  *)
(* routing event becomes durable in that same instant, the in-process sink   *)
(* sees only durable events, and an Ok answer names the recorded message.    *)
(* (BRD BR-1, ADR-001 decisions 1 and 3.)                                    *)
(***************************************************************************)
CONSTANTS Calls, None

VARIABLES
  asked,      \* the (channel, external_id) each call delivers; it never changes
  recorded,   \* the calls whose message is recorded
  routed,     \* the calls whose MessageReceived is durable
  delivered,  \* the calls whose MessageReceived the in-process sink has seen
  answer      \* the call whose message each call was answered with

inboxVars == <<asked, recorded, routed, delivered, answer>>

Init ==
  /\ recorded  = {}
  /\ routed    = {}
  /\ delivered = {}
  /\ answer    = [c \in Calls |-> None]

Record(c) ==
  /\ \A d \in recorded : asked[d] # asked[c]
  /\ recorded' = recorded \cup {c}
  /\ routed'   = routed \cup {c}
  /\ UNCHANGED <<asked, delivered, answer>>

Deliver(c) ==
  /\ c \in routed
  /\ answer[c] = None
  /\ delivered' = delivered \cup {c}
  /\ answer'    = [answer EXCEPT ![c] = c]
  /\ UNCHANGED <<asked, recorded, routed>>

AnswerDuplicate(c) ==
  /\ c \notin recorded
  /\ answer[c] = None
  /\ \E d \in recorded : asked[d] = asked[c] /\ answer' = [answer EXCEPT ![c] = d]
  /\ UNCHANGED <<asked, recorded, routed, delivered>>

Next == \E c \in Calls : Record(c) \/ Deliver(c) \/ AnswerDuplicate(c)

Spec == Init /\ [][Next]_inboxVars
=============================================================================
