------------------------ MODULE EventRouting_proofs ------------------------
(***************************************************************************)
(* What EventRouting promises, for any number of messages, conversations     *)
(* and consumers.                                                           *)
(***************************************************************************)
EXTENDS EventRouting, TLAPS

(***************************************************************************)
(* The types                                                               *)
(***************************************************************************)

LEMMA InitTypes == Init => TypeOK
BY RoutingAssumption DEF Init, TypeOK, WorkItems

LEMMA StepTypes ==
  ASSUME TypeOK, [Next]_vars
  PROVE  TypeOK'
<1> USE DEF TypeOK, given
<1>1. ASSUME NEW m \in Messages, Route(m) PROVE TypeOK'
  <2>1. \A t \in OpenThreads(m) : t \in Messages /\ SubjectOf(t) \in WorkItems \cup {None}
    BY DEF OpenThreads, SubjectOf
  <2>2. thread' \in [Messages -> Messages \cup {None}]
        /\ subject' \in [Messages -> WorkItems \cup {None}]
    BY <1>1, <2>1 DEF Route
  <2>3. follows' \subseteq WorkItems /\ call' \in [Messages -> {"new", "routed", "committed", "done"}]
    BY <1>1 DEF Route, Followed, WorkItems
  <2> QED BY <1>1, <2>2, <2>3 DEF Route, consuming
<1>2. ASSUME NEW m \in Messages, Commit(m) PROVE TypeOK'
  BY <1>2 DEF Commit, consuming
<1>3. ASSUME NEW m \in Messages, Crash(m) PROVE TypeOK'
  BY <1>3 DEF Crash, consuming
<1>4. ASSUME NEW m \in Messages, Publish(m) PROVE TypeOK'
  <2>1. Copies(m, FALSE) \subseteq [to : Consumers, event : Messages, id : BOOLEAN]
    BY DEF Copies
  <2> QED BY <1>4, <2>1 DEF Publish, consuming
<1>5. ASSUME NEW m \in Messages, Deliver(m) PROVE TypeOK'
  <2>1. Copies(m, TRUE) \subseteq [to : Consumers, event : Messages, id : BOOLEAN]
    BY DEF Copies
  <2> QED BY <1>5, <2>1 DEF Deliver, recording, consuming
<1>6. ASSUME NEW m \in Messages, MarkPublished(m) PROVE TypeOK'
  BY <1>6 DEF MarkPublished, consuming
<1>7. CASE RelayCrash
  BY <1>7 DEF RelayCrash, recording, consuming
<1>8. ASSUME NEW c \in Consumers, NEW m \in Messages, Act(c, m)
      PROVE  handled' \in [WorkItems -> 0..MaxEffects] /\ linking' \subseteq WorkItems
  <2>1. <<c, m>> \in WorkItems
    BY DEF WorkItems
  <2>2. handled[<<c, m>>] + 1 \in 0..MaxEffects
    BY <1>8, <2>1, RoutingAssumption DEF Act
  <2> QED BY <1>8, <2>1, <2>2 DEF Act
<1>9. ASSUME NEW c \in Consumers, NEW m \in Messages, HandleRelayed(c, m) PROVE TypeOK'
  BY <1>8, <1>9 DEF HandleRelayed, recording, WorkItems
<1>10. ASSUME NEW c \in Consumers, NEW m \in Messages, Acknowledge(c, m) PROVE TypeOK'
  BY <1>10 DEF Acknowledge, recording, consuming
<1>11. ASSUME NEW c \in Consumers, NEW m \in Messages, HandleInProcess(c, m) PROVE TypeOK'
  BY <1>8, <1>11 DEF HandleInProcess, recording
<1>12. ASSUME NEW c \in Consumers, NEW m \in Messages, LinkThread(c, m) PROVE TypeOK'
  BY <1>12 DEF LinkThread, recording, WorkItems
<1>13. ASSUME NEW c \in Consumers, NEW m \in Messages, LeaveUnlinked(c, m) PROVE TypeOK'
  BY <1>13 DEF LeaveUnlinked, recording
<1>14. ASSUME NEW t \in Messages, CloseThread(t) PROVE TypeOK'
  BY <1>14 DEF CloseThread, consuming
<1>15. CASE UNCHANGED vars
  BY <1>15 DEF vars
<1> QED
  BY <1>1, <1>2, <1>3, <1>4, <1>5, <1>6, <1>7, <1>9, <1>10, <1>11, <1>12, <1>13,
     <1>14, <1>15 DEF Next

\* Every reachable state has its types.
THEOREM RoutingTypeCorrect == Spec => []TypeOK
<1>1. TypeOK /\ [Next]_vars => TypeOK'
  BY StepTypes
<1> QED BY InitTypes, <1>1, PTL DEF Spec

(***************************************************************************)
(* The event of a message never runs ahead of its record                   *)
(***************************************************************************)

\* The message's transaction has committed: its event is staged and its thread
\* is there.
Recorded(m) ==
  /\ call[m] \in {"committed", "done"}
  /\ outbox[m] # "none"
  /\ thread[m] \in Messages
  /\ status[thread[m]] # "absent"

RouteInv ==
  \A m \in Messages :
    /\ call[m] = "routed" =>
         thread[m] \in Messages /\ (thread[m] = m \/ status[thread[m]] # "absent")
    /\ call[m] \in {"committed", "done"} => Recorded(m)
    /\ outbox[m] # "none" => Recorded(m)

CopyInv ==
  /\ \A copy \in bus : Recorded(copy.event)
  /\ \A m \in relayed : Recorded(m)

ActInv ==
  \A c \in Consumers, m \in Messages :
    (handled[<<c, m>>] > 0 \/ <<c, m>> \in linking) => Recorded(m)

RecordInv == RouteInv /\ CopyInv /\ ActInv

LEMMA InitRecord == Init => RecordInv
BY DEF Init, RecordInv, RouteInv, CopyInv, ActInv, WorkItems

\* No step takes a record back.
LEMMA RecordedStays ==
  ASSUME TypeOK, [Next]_vars, NEW m \in Messages, Recorded(m)
  PROVE  Recorded(m)'
<1> USE DEF Recorded, TypeOK
<1>1. ASSUME NEW n \in Messages,
             Route(n) \/ Commit(n) \/ Crash(n) \/ Publish(n) \/ Deliver(n)
             \/ MarkPublished(n) \/ CloseThread(n)
      PROVE  Recorded(m)'
  <2>1. CASE Route(n)
    <3>1. n # m
      BY <2>1 DEF Route
    <3> QED BY <2>1, <3>1 DEF Route
  <2>2. CASE Commit(n)
    BY <2>2 DEF Commit
  <2>3. CASE Crash(n)
    BY <2>3 DEF Crash
  <2>4. CASE Publish(n)
    BY <2>4 DEF Publish
  <2>5. CASE Deliver(n)
    BY <2>5 DEF Deliver, recording
  <2>6. CASE MarkPublished(n)
    BY <2>6 DEF MarkPublished
  <2>7. CASE CloseThread(n)
    BY <2>7 DEF CloseThread
  <2> QED BY <1>1, <2>1, <2>2, <2>3, <2>4, <2>5, <2>6, <2>7
<1>2. CASE RelayCrash
  BY <1>2 DEF RelayCrash, recording
<1>3. ASSUME NEW c \in Consumers, NEW n \in Messages,
             HandleRelayed(c, n) \/ Acknowledge(c, n) \/ HandleInProcess(c, n)
             \/ LinkThread(c, n) \/ LeaveUnlinked(c, n)
      PROVE  Recorded(m)'
  BY <1>3 DEF HandleRelayed, Acknowledge, HandleInProcess, LinkThread, LeaveUnlinked, recording
<1>4. CASE UNCHANGED vars
  BY <1>4 DEF vars
<1> QED BY <1>1, <1>2, <1>3, <1>4 DEF Next

\* Only a recorded message is published, relayed or acted on.
LEMMA StepRoute ==
  ASSUME TypeOK, RouteInv, CopyInv, [Next]_vars
  PROVE  RouteInv'
<1> DEFINE Way(m) == thread[m] \in Messages /\ (thread[m] = m \/ status[thread[m]] # "absent")
           Good(m) == /\ call[m] = "routed" => Way(m)
                      /\ call[m] \in {"committed", "done"} => Recorded(m)
                      /\ outbox[m] # "none" => Recorded(m)
<1> SUFFICES ASSUME NEW m \in Messages
             PROVE  Good(m)'
  BY DEF RouteInv
<1>1. CASE Recorded(m)
  <2>1. Recorded(m)'
    BY <1>1, RecordedStays
  <2> QED BY <2>1 DEF Recorded
<1>2. CASE ~Recorded(m)
  <2>1. call[m] \in {"new", "routed"} /\ outbox[m] = "none"
    BY <1>2 DEF RouteInv, TypeOK
  <2>2. call[m] = "routed" => Way(m)
    BY DEF RouteInv
  <2>3. m \notin relayed
    BY <1>2 DEF CopyInv
  <2>4. ASSUME call'[m] = call[m], outbox'[m] = outbox[m], thread'[m] = thread[m],
               \A t \in Messages : status[t] # "absent" => status'[t] # "absent"
        PROVE  Good(m)'
    BY <2>1, <2>2, <2>4
  <2> USE DEF TypeOK
  <2>5. ASSUME NEW n \in Messages, Route(n) PROVE Good(m)'
    <3>1. CASE n = m
      <4>1. call'[m] = "routed" /\ outbox'[m] = "none" /\ status' = status
        BY <2>1, <2>5, <3>1 DEF Route
      <4>2. thread'[m] \in Messages /\ (thread'[m] = m \/ status[thread'[m]] # "absent")
        BY <2>5, <3>1 DEF Route, OpenThreads
      <4> QED BY <4>1, <4>2
    <3>2. CASE n # m
      BY <2>4, <2>5, <3>2 DEF Route
    <3> QED BY <3>1, <3>2
  <2>6. ASSUME NEW n \in Messages, Commit(n) PROVE Good(m)'
    <3>1. CASE n = m
      <4>1. call'[m] = "committed" /\ outbox'[m] = "staged" /\ thread' = thread
        BY <2>6, <3>1 DEF Commit
      <4>2. Way(m)
        BY <2>2, <2>6, <3>1 DEF Commit
      <4>3. status'[thread[m]] # "absent"
        BY <2>6, <3>1, <4>2 DEF Commit
      <4> QED BY <4>1, <4>2, <4>3 DEF Recorded
    <3>2. CASE n # m
      BY <2>4, <2>6, <3>2 DEF Commit
    <3> QED BY <3>1, <3>2
  <2>7. ASSUME NEW n \in Messages, Crash(n) PROVE Good(m)'
    <3>1. CASE n = m
      BY <2>1, <2>7, <3>1 DEF Crash
    <3>2. CASE n # m
      BY <2>4, <2>7, <3>2 DEF Crash
    <3> QED BY <3>1, <3>2
  <2>8. ASSUME NEW n \in Messages, Publish(n) PROVE Good(m)'
    BY <2>1, <2>4, <2>8 DEF Publish
  <2>9. ASSUME NEW n \in Messages, Deliver(n) PROVE Good(m)'
    BY <2>4, <2>9 DEF Deliver, recording
  <2>10. ASSUME NEW n \in Messages, MarkPublished(n) PROVE Good(m)'
    BY <2>3, <2>4, <2>10 DEF MarkPublished
  <2>11. ASSUME NEW n \in Messages, CloseThread(n) PROVE Good(m)'
    BY <2>4, <2>11 DEF CloseThread
  <2>12. ASSUME UNCHANGED recording PROVE Good(m)'
    BY <2>4, <2>12 DEF recording
  <2>13. ASSUME NEW c \in Consumers, NEW n \in Messages,
                HandleRelayed(c, n) \/ Acknowledge(c, n) \/ HandleInProcess(c, n)
                \/ LinkThread(c, n) \/ LeaveUnlinked(c, n)
         PROVE  UNCHANGED recording
    BY <2>13 DEF HandleRelayed, Acknowledge, HandleInProcess, LinkThread, LeaveUnlinked
  <2>14. RelayCrash \/ UNCHANGED vars => UNCHANGED recording
    BY DEF RelayCrash, vars, recording
  <2> HIDE DEF TypeOK, Good
  <2> QED
    BY <2>5, <2>6, <2>7, <2>8, <2>9, <2>10, <2>11, <2>12, <2>13, <2>14 DEF Next
<1> QED BY <1>1, <1>2

LEMMA StepCopies ==
  ASSUME TypeOK, RouteInv, CopyInv, [Next]_vars
  PROVE  CopyInv'
<1>1. \A m \in Messages : Recorded(m) => Recorded(m)'
  BY RecordedStays
<1>2. ASSUME bus' \subseteq bus, relayed' \subseteq relayed PROVE CopyInv'
  BY <1>1, <1>2 DEF CopyInv, TypeOK
<1>3. ASSUME NEW m \in Messages, NEW id, Recorded(m),
             bus' \subseteq bus \cup Copies(m, id), relayed' \subseteq relayed \cup {m}
      PROVE  CopyInv'
  <2>1. \A copy \in Copies(m, id) : copy.event = m
    BY DEF Copies
  <2> QED BY <1>1, <1>3, <2>1 DEF CopyInv, TypeOK
<1>4. ASSUME NEW m \in Messages, Publish(m) PROVE CopyInv'
  <2>1. Recorded(m)
    BY <1>4 DEF Publish, RouteInv
  <2> QED BY <1>3, <1>4, <2>1 DEF Publish
<1>5. ASSUME NEW m \in Messages, Deliver(m) PROVE CopyInv'
  <2>1. Recorded(m)
    BY <1>5 DEF Deliver, RouteInv
  <2> QED BY <1>3, <1>5, <2>1 DEF Deliver
<1>6. ASSUME NEW m \in Messages,
             Route(m) \/ Commit(m) \/ Crash(m) \/ MarkPublished(m) \/ CloseThread(m)
      PROVE  bus' \subseteq bus /\ relayed' \subseteq relayed
  BY <1>6 DEF Route, Commit, Crash, MarkPublished, CloseThread
<1>7. ASSUME NEW c \in Consumers, NEW m \in Messages,
             HandleRelayed(c, m) \/ Acknowledge(c, m) \/ HandleInProcess(c, m)
             \/ LinkThread(c, m) \/ LeaveUnlinked(c, m)
      PROVE  bus' \subseteq bus /\ relayed' \subseteq relayed
  BY <1>7 DEF HandleRelayed, Acknowledge, HandleInProcess, LinkThread, LeaveUnlinked
<1>8. RelayCrash \/ UNCHANGED vars => bus' \subseteq bus /\ relayed' \subseteq relayed
  BY DEF RelayCrash, vars
<1> QED BY <1>2, <1>4, <1>5, <1>6, <1>7, <1>8 DEF Next

LEMMA StepActs ==
  ASSUME TypeOK, RecordInv, [Next]_vars
  PROVE  ActInv'
<1>1. \A m \in Messages : Recorded(m) => Recorded(m)'
  BY RecordedStays
<1>2. ASSUME handled' = handled, linking' \subseteq linking PROVE ActInv'
  BY <1>1, <1>2 DEF RecordInv, ActInv
<1>3. ASSUME NEW c \in Consumers, NEW m \in Messages, Recorded(m), Act(c, m) PROVE ActInv'
  <2>1. \A w \in WorkItems : w # <<c, m>> => handled'[w] = handled[w]
    BY <1>3 DEF Act, TypeOK
  <2>2. linking' \subseteq linking \cup {<<c, m>>}
    BY <1>3 DEF Act
  <2> QED BY <1>1, <1>3, <2>1, <2>2 DEF RecordInv, ActInv, WorkItems
<1>4. ASSUME NEW c \in Consumers, NEW m \in Messages,
             HandleRelayed(c, m) \/ HandleInProcess(c, m)
      PROVE  ActInv'
  <2>1. Act(c, m)
    BY <1>4 DEF HandleRelayed, HandleInProcess
  <2>2. Recorded(m)
    BY <1>4 DEF HandleRelayed, HandleInProcess, RecordInv, CopyInv
  <2> QED BY <1>3, <2>1, <2>2
<1>5. ASSUME NEW c \in Consumers, NEW m \in Messages,
             Acknowledge(c, m) \/ LinkThread(c, m) \/ LeaveUnlinked(c, m)
      PROVE  handled' = handled /\ linking' \subseteq linking
  BY <1>5 DEF Acknowledge, LinkThread, LeaveUnlinked, consuming
<1>6. ASSUME NEW m \in Messages,
             Route(m) \/ Commit(m) \/ Crash(m) \/ Publish(m) \/ Deliver(m)
             \/ MarkPublished(m) \/ CloseThread(m)
      PROVE  handled' = handled /\ linking' \subseteq linking
  BY <1>6 DEF Route, Commit, Crash, Publish, Deliver, MarkPublished, CloseThread, consuming
<1>7. RelayCrash \/ UNCHANGED vars => handled' = handled /\ linking' \subseteq linking
  BY DEF RelayCrash, vars, consuming
<1> QED BY <1>2, <1>4, <1>5, <1>6, <1>7 DEF Next

LEMMA RecordHolds == Spec => [](TypeOK /\ RecordInv)
<1>1. Init => TypeOK /\ RecordInv
  BY InitTypes, InitRecord
<1>2. TypeOK /\ RecordInv /\ [Next]_vars => (TypeOK /\ RecordInv)'
  BY StepTypes, StepRoute, StepCopies, StepActs DEF RecordInv
<1> QED BY <1>1, <1>2, PTL DEF Spec

\* No consumer acts on a message that could still roll back, whether the event
\* comes from the sink or from the relay, and whoever crashes.
THEOREM ActsOnTheRecorded == Spec => []HandledOnlyIfRecorded
<1>1. RecordInv => HandledOnlyIfRecorded
  BY DEF RecordInv, ActInv, Recorded, HandledOnlyIfRecorded
<1> QED BY <1>1, RecordHolds, PTL

(***************************************************************************)
(* The inbox, and the sink alone                                           *)
(***************************************************************************)

\* With no sink, every copy names its event, and what a consumer has done its
\* inbox knows.
InboxInv ==
  "sink" \notin wiring =>
    /\ \A copy \in bus : copy.id = TRUE
    /\ \A w \in WorkItems : handled[w] = 0 \/ (handled[w] = 1 /\ w \in consumed)

\* With no relay, a message has one copy for each consumer, made when its call
\* returns and gone when the consumer acts.
SinkInv ==
  "relay" \notin wiring =>
    /\ \A copy \in bus : copy.id = FALSE /\ call[copy.event] = "done"
    /\ \A c \in Consumers, m \in Messages :
         handled[<<c, m>>] = 0
         \/ /\ handled[<<c, m>>] = 1
            /\ call[m] = "done"
            /\ [to |-> c, event |-> m, id |-> FALSE] \notin bus

LEMMA WiringStays ==
  ASSUME [Next]_vars
  PROVE  wiring' = wiring
BY DEF Next, vars, given, recording, Route, Commit, Crash, Publish, Deliver, MarkPublished,
       CloseThread, RelayCrash, HandleRelayed, Acknowledge, HandleInProcess, LinkThread,
       LeaveUnlinked

LEMMA StepInbox ==
  ASSUME TypeOK, InboxInv, [Next]_vars
  PROVE  InboxInv'
<1> SUFFICES ASSUME "sink" \notin wiring
             PROVE  /\ \A copy \in bus' : copy.id = TRUE
                    /\ \A w \in WorkItems :
                         handled'[w] = 0 \/ (handled'[w] = 1 /\ w \in consumed')
  BY WiringStays DEF InboxInv
<1> DEFINE Goal == InboxInv'
<1>0. /\ \A copy \in bus : copy.id = TRUE
      /\ \A w \in WorkItems : handled[w] = 0 \/ (handled[w] = 1 /\ w \in consumed)
  BY DEF InboxInv
<1>1. ASSUME \A copy \in bus' : copy \in bus \/ copy.id = TRUE,
             UNCHANGED <<handled, consumed>>
      PROVE  Goal
  BY <1>0, <1>1 DEF InboxInv
<1>2. ASSUME NEW m \in Messages, Deliver(m) PROVE Goal
  BY <1>1, <1>2 DEF Deliver, Copies, consuming
<1>3. ASSUME NEW m \in Messages,
             Route(m) \/ Commit(m) \/ Crash(m) \/ Publish(m) \/ MarkPublished(m) \/ CloseThread(m)
      PROVE  bus' = bus /\ UNCHANGED <<handled, consumed>>
  BY <1>3 DEF Route, Commit, Crash, Publish, MarkPublished, CloseThread, consuming
<1>4. ASSUME NEW c \in Consumers, NEW m \in Messages,
             Acknowledge(c, m) \/ LinkThread(c, m) \/ LeaveUnlinked(c, m)
      PROVE  bus' \subseteq bus /\ UNCHANGED <<handled, consumed>>
  BY <1>4 DEF Acknowledge, LinkThread, LeaveUnlinked, consuming
<1>5. ASSUME NEW c \in Consumers, NEW m \in Messages, HandleInProcess(c, m) PROVE FALSE
  BY <1>0, <1>5 DEF HandleInProcess
<1>6. ASSUME NEW c \in Consumers, NEW m \in Messages, HandleRelayed(c, m) PROVE Goal
  <2>1. <<c, m>> \in WorkItems /\ handled[<<c, m>>] = 0
    BY <1>0, <1>6 DEF HandleRelayed, InboxFree, WorkItems
  <2>2. handled' = [handled EXCEPT ![<<c, m>>] = 1]
    BY <1>6, <2>1 DEF HandleRelayed, Act, TypeOK
  <2>3. bus' = bus /\ consumed' = consumed \cup {<<c, m>>}
    BY <1>6 DEF HandleRelayed
  <2> QED BY <1>0, <2>1, <2>2, <2>3 DEF InboxInv, TypeOK
<1>7. RelayCrash \/ UNCHANGED vars => bus' = bus /\ UNCHANGED <<handled, consumed>>
  BY DEF RelayCrash, vars, consuming
<1>8. Goal
  <2> HIDE DEF Goal
  <2> QED BY <1>1, <1>2, <1>3, <1>4, <1>5, <1>6, <1>7 DEF Next
<1> QED BY <1>8, WiringStays DEF InboxInv

LEMMA StepSink ==
  ASSUME TypeOK, SinkInv, [Next]_vars
  PROVE  SinkInv'
<1> DEFINE Fine(c, m) ==
             handled[<<c, m>>] = 0
             \/ /\ handled[<<c, m>>] = 1
                /\ call[m] = "done"
                /\ [to |-> c, event |-> m, id |-> FALSE] \notin bus
           Goal == SinkInv'
<1> SUFFICES ASSUME "relay" \notin wiring
             PROVE  Goal
  BY WiringStays DEF SinkInv
<1>0. /\ \A copy \in bus : copy.id = FALSE /\ call[copy.event] = "done"
      /\ \A c \in Consumers, m \in Messages : Fine(c, m)
  BY DEF SinkInv
<1>1. ASSUME bus' \subseteq bus, handled' = handled,
             \A m \in Messages : call[m] = "done" => call'[m] = "done"
      PROVE  Goal
  BY <1>0, <1>1 DEF SinkInv, TypeOK
<1>2. ASSUME NEW n \in Messages, Publish(n) PROVE Goal
  <2>1. call[n] = "committed" /\ handled' = handled /\ bus' \subseteq bus \cup Copies(n, FALSE)
    BY <1>2 DEF Publish, consuming
  <2>2. \A m \in Messages : call'[m] = IF m = n THEN "done" ELSE call[m]
    BY <1>2 DEF Publish, TypeOK
  <2>3. \A c \in Consumers : handled[<<c, n>>] = 0
    BY <1>0, <2>1
  <2>4. \A copy \in Copies(n, FALSE) : copy.id = FALSE /\ copy.event = n
    BY DEF Copies
  <2>5. \A copy \in bus' : copy.id = FALSE /\ call'[copy.event] = "done"
    <3>1. call'[n] = "done" /\ \A m \in Messages : call[m] = "done" => call'[m] = "done"
      BY <2>2
    <3>2. \A copy \in bus : copy.event \in Messages
      BY DEF TypeOK
    <3> QED BY <1>0, <2>1, <2>4, <3>1, <3>2
  <2>6. ASSUME NEW c \in Consumers, NEW m \in Messages PROVE Fine(c, m)'
    <3>1. CASE m = n
      BY <2>1, <2>3, <3>1
    <3>2. CASE m # n
      BY <1>0, <2>1, <2>2, <2>4, <3>2
    <3> QED BY <3>1, <3>2
  <2> QED BY <2>5, <2>6 DEF SinkInv
<1>3. ASSUME NEW m \in Messages, Route(m) \/ Commit(m) \/ Crash(m) PROVE Goal
  <2>1. bus' = bus /\ handled' = handled /\ call[m] # "done"
        /\ \A n \in Messages : n # m => call'[n] = call[n]
    BY <1>3 DEF Route, Commit, Crash, consuming, TypeOK
  <2> QED BY <1>1, <2>1
<1>4. ASSUME NEW m \in Messages, MarkPublished(m) \/ CloseThread(m) PROVE Goal
  BY <1>1, <1>4 DEF MarkPublished, CloseThread, consuming
<1>5. ASSUME NEW m \in Messages, Deliver(m) PROVE FALSE
  BY <1>5 DEF Deliver
<1>6. ASSUME NEW c \in Consumers, NEW m \in Messages,
             Acknowledge(c, m) \/ LinkThread(c, m) \/ LeaveUnlinked(c, m)
      PROVE  Goal
  BY <1>1, <1>6 DEF Acknowledge, LinkThread, LeaveUnlinked, consuming, recording
<1>7. ASSUME NEW c \in Consumers, NEW m \in Messages, HandleRelayed(c, m) PROVE FALSE
  BY <1>0, <1>7 DEF HandleRelayed
<1>8. ASSUME NEW c \in Consumers, NEW n \in Messages, HandleInProcess(c, n) PROVE Goal
  <2> DEFINE copy == [to |-> c, event |-> n, id |-> FALSE]
  <2>1. copy \in bus /\ bus' = bus \ {copy} /\ call' = call
    BY <1>8 DEF HandleInProcess, recording
  <2>2. call[n] = "done"
    BY <1>0, <2>1
  <2>3. <<c, n>> \in WorkItems /\ handled[<<c, n>>] = 0
    BY <1>0, <2>1 DEF WorkItems
  <2>4. handled' = [handled EXCEPT ![<<c, n>>] = 1]
    BY <1>8, <2>3 DEF HandleInProcess, Act, TypeOK
  <2>5. ASSUME NEW d \in Consumers, NEW m \in Messages PROVE Fine(d, m)'
    <3>1. CASE d = c /\ m = n
      BY <2>1, <2>2, <2>3, <2>4, <3>1 DEF TypeOK
    <3>2. CASE ~(d = c /\ m = n)
      <4>1. <<d, m>> \in WorkItems /\ <<d, m>> # <<c, n>>
        BY <3>2 DEF WorkItems
      <4>2. handled'[<<d, m>>] = handled[<<d, m>>]
        BY <2>4, <4>1 DEF TypeOK
      <4> QED BY <1>0, <2>1, <4>2
    <3> QED BY <3>1, <3>2
  <2>6. \A other \in bus' : other.id = FALSE /\ call'[other.event] = "done"
    BY <1>0, <2>1
  <2> QED BY <2>5, <2>6 DEF SinkInv
<1>9. RelayCrash \/ UNCHANGED vars => bus' = bus /\ handled' = handled /\ call' = call
  BY DEF RelayCrash, vars, consuming, recording
<1>10. RelayCrash \/ UNCHANGED vars => Goal
  BY <1>1, <1>9
<1> HIDE DEF Goal
<1> QED BY <1>2, <1>3, <1>4, <1>5, <1>6, <1>7, <1>8, <1>10 DEF Next

\* Fed by the relay or by the sink, not by both, each consumer acts on each
\* message at most once, for every crash of relay and consumer and every
\* redelivery.
THEOREM InboxMakesItOnce == Spec => []HandledAtMostOnce
<1>1. Init => InboxInv /\ SinkInv
  BY DEF Init, InboxInv, SinkInv, WorkItems
<1>2. TypeOK /\ InboxInv /\ SinkInv /\ [Next]_vars => InboxInv' /\ SinkInv'
  BY StepInbox, StepSink
<1>3. TypeOK /\ InboxInv /\ SinkInv => HandledAtMostOnce
  <2> SUFFICES ASSUME TypeOK, InboxInv, SinkInv, wiring # {"relay", "sink"},
                      NEW c \in Consumers, NEW m \in Messages
               PROVE  handled[<<c, m>>] <= 1
    BY DEF HandledAtMostOnce, WorkItems
  <2>1. wiring \subseteq {"relay", "sink"}
    BY RoutingAssumption DEF TypeOK
  <2>2. "sink" \notin wiring \/ "relay" \notin wiring
    BY <2>1
  <2>3. CASE "sink" \notin wiring
    BY <2>3 DEF InboxInv, WorkItems
  <2>4. CASE "relay" \notin wiring
    <3>1. handled[<<c, m>>] = 0 \/ handled[<<c, m>>] = 1
      BY <2>4 DEF SinkInv
    <3> QED BY <3>1
  <2> QED BY <2>2, <2>3, <2>4
<1> QED BY <1>1, <1>2, <1>3, RoutingTypeCorrect, PTL DEF Spec

(***************************************************************************)
(* Follow-up replies                                                       *)
(***************************************************************************)

\* A follow-up's event names a work item of the consumer, from the lookup on, and
\* the consumer opens nothing for it.
FollowInv ==
  \A c \in Consumers, m \in Messages :
    <<c, m>> \in follows =>
      /\ call[m] # "new"
      /\ subject[m] \in WorkItems /\ subject[m][1] = c
      /\ <<c, m>> \notin linking

LEMMA StepFollow ==
  ASSUME TypeOK, RecordInv, FollowInv, [Next]_vars
  PROVE  FollowInv'
<1>1. ASSUME follows' \subseteq follows, linking' \subseteq linking,
             \A c \in Consumers, m \in Messages :
               <<c, m>> \in follows' => call'[m] # "new" /\ subject'[m] = subject[m]
      PROVE  FollowInv'
  BY <1>1 DEF FollowInv
<1>2. ASSUME NEW n \in Messages, Route(n) PROVE FollowInv'
  <2> SUFFICES ASSUME NEW c \in Consumers, NEW m \in Messages, <<c, m>> \in follows'
               PROVE  /\ call'[m] # "new"
                      /\ subject'[m] \in WorkItems /\ subject'[m][1] = c
                      /\ <<c, m>> \notin linking'
    BY DEF FollowInv
  <2>1. linking' = linking
    BY <1>2 DEF Route, consuming
  <2>2. CASE m = n
    <3>1. call[n] = "new" /\ <<c, n>> \notin follows
      BY <1>2 DEF Route, FollowInv
    <3>2. /\ OpenThreads(n) # {}
          /\ \A t \in OpenThreads(n) : link[t] # None /\ link[t][1] = c
      BY <1>2, <2>2, <3>1 DEF Route, Followed
    <3>3. PICK t \in OpenThreads(n) : subject' = [subject EXCEPT ![n] = link[t]]
      BY <1>2, <3>2 DEF Route, SubjectOf
    <3>4. link[t] \in WorkItems /\ link[t][1] = c
      BY <3>2 DEF OpenThreads, TypeOK
    <3>5. subject'[n] = link[t] /\ call'[n] = "routed"
      BY <1>2, <3>3 DEF Route, TypeOK
    <3>6. <<c, n>> \notin linking
      BY <3>1 DEF RecordInv, ActInv, Recorded
    <3> QED BY <2>1, <2>2, <3>4, <3>5, <3>6
  <2>3. CASE m # n
    <3>1. <<c, m>> \in follows
      BY <1>2, <2>3 DEF Route
    <3>2. call'[m] = call[m] /\ subject'[m] = subject[m]
      BY <1>2, <2>3 DEF Route, TypeOK
    <3> QED BY <2>1, <3>1, <3>2 DEF FollowInv
  <2> QED BY <2>2, <2>3
<1>3. ASSUME NEW n \in Messages, Crash(n) PROVE FollowInv'
  <2>1. linking' = linking /\ follows' \subseteq follows
    BY <1>3 DEF Crash, consuming
  <2>2. \A c \in Consumers, m \in Messages :
          <<c, m>> \in follows' => call'[m] # "new" /\ subject'[m] = subject[m]
    BY <1>3 DEF Crash, TypeOK, FollowInv
  <2> QED BY <1>1, <2>1, <2>2
<1>4. ASSUME NEW n \in Messages, Commit(n) \/ Publish(n) PROVE FollowInv'
  <2>1. linking' = linking /\ follows' = follows /\ subject' = subject
    BY <1>4 DEF Commit, Publish, consuming
  <2>2. \A m \in Messages : call[m] # "new" => call'[m] # "new"
    BY <1>4 DEF Commit, Publish, TypeOK
  <2> QED BY <1>1, <2>1, <2>2 DEF FollowInv
<1>5. ASSUME UNCHANGED <<follows, call, subject>>, linking' \subseteq linking PROVE FollowInv'
  BY <1>1, <1>5 DEF FollowInv
<1>6. ASSUME NEW n \in Messages, Deliver(n) \/ MarkPublished(n) \/ CloseThread(n)
      PROVE  FollowInv'
  BY <1>5, <1>6 DEF Deliver, MarkPublished, CloseThread, recording, consuming
<1>7. ASSUME NEW c \in Consumers, NEW n \in Messages,
             Acknowledge(c, n) \/ LinkThread(c, n) \/ LeaveUnlinked(c, n)
      PROVE  FollowInv'
  BY <1>5, <1>7 DEF Acknowledge, LinkThread, LeaveUnlinked, recording, consuming
<1>8. ASSUME NEW c \in Consumers, NEW n \in Messages,
             HandleRelayed(c, n) \/ HandleInProcess(c, n)
      PROVE  FollowInv'
  <2>1. Act(c, n) /\ UNCHANGED <<follows, call, subject>>
    BY <1>8 DEF HandleRelayed, HandleInProcess, recording
  <2>2. CASE <<c, n>> \in follows
    <3>1. subject[n] # None /\ subject[n][1] = c
      BY <2>2, RoutingAssumption DEF FollowInv
    <3>2. linking' = linking
      BY <2>1, <3>1 DEF Act
    <3> QED BY <1>5, <2>1, <3>2
  <2>3. CASE <<c, n>> \notin follows
    <3>1. linking' \subseteq linking \cup {<<c, n>>}
      BY <2>1 DEF Act
    <3> QED BY <2>1, <2>3, <3>1 DEF FollowInv
  <2> QED BY <2>2, <2>3
<1>9. RelayCrash \/ UNCHANGED vars => UNCHANGED <<follows, call, subject, linking>>
  BY DEF RelayCrash, vars, recording, consuming
<1> QED BY <1>2, <1>3, <1>4, <1>5, <1>6, <1>7, <1>8, <1>9 DEF Next

\* A reply that finds its conversation linked to a consumer's work item opens no
\* second one there, for any number of consumers, messages and closed threads.
THEOREM RepliesAppend == Spec => []FollowUpsAppend
<1>1. Init => FollowInv
  BY DEF Init, FollowInv
<1>2. TypeOK /\ RecordInv /\ FollowInv /\ [Next]_vars => FollowInv'
  BY StepFollow
<1>3. TypeOK /\ FollowInv => FollowUpsAppend
  BY DEF FollowInv, FollowUpsAppend, TypeOK, WorkItems
<1> QED BY <1>1, <1>2, <1>3, RecordHolds, PTL DEF Spec

(***************************************************************************)
(* Nothing is forgotten                                                    *)
(***************************************************************************)

Copy(c, m) == [to |-> c, event |-> m, id |-> TRUE]

\* What a consumer's inbox knows was acted on; and an event that the relay has taken
\* off the outbox, for now or for good, is still on its way to each consumer that has
\* not acted on it.
KeptInv ==
  /\ \A w \in consumed : handled[w] > 0
  /\ \A c \in Consumers, m \in Messages :
       m \in relayed \/ outbox[m] = "published"
       => handled[<<c, m>>] > 0 \/ Copy(c, m) \in bus

\* For each recorded message and each consumer that has not acted on it, the relay may
\* deliver the event (if there is one), or the consumer may act on a copy of it.
NothingIsLost ==
  \A c \in Consumers, m \in Messages :
    call[m] \in {"committed", "done"} /\ handled[<<c, m>>] = 0
    => \/ outbox[m] = "staged" /\ m \notin relayed
       \/ Copy(c, m) \in bus /\ InboxFree(c, m)

LEMMA StepKept ==
  ASSUME TypeOK, RecordInv, KeptInv, [Next]_vars
  PROVE  KeptInv'
<1>1. ASSUME consumed' = consumed, bus \subseteq bus',
             \A w \in WorkItems : handled[w] > 0 => handled'[w] > 0,
             \A m \in Messages : m \in relayed' \/ outbox'[m] = "published"
                                 => m \in relayed \/ outbox[m] = "published"
      PROVE  KeptInv'
  BY <1>1 DEF KeptInv, TypeOK, WorkItems
<1>2. ASSUME NEW n \in Messages, Route(n) \/ Crash(n) \/ Publish(n) \/ CloseThread(n)
      PROVE  KeptInv'
  <2>1. UNCHANGED <<consumed, handled, outbox, relayed>> /\ bus \subseteq bus'
    BY <1>2 DEF Route, Crash, Publish, CloseThread, consuming
  <2> QED BY <1>1, <2>1
<1>3. ASSUME NEW n \in Messages, Commit(n) PROVE KeptInv'
  <2>1. UNCHANGED <<consumed, handled, bus, relayed>> /\ outbox' = [outbox EXCEPT ![n] = "staged"]
    BY <1>3 DEF Commit, consuming
  <2> QED BY <1>1, <2>1 DEF TypeOK
<1>4. ASSUME NEW n \in Messages, Deliver(n) PROVE KeptInv'
  <2>1. /\ UNCHANGED <<consumed, handled, outbox>>
        /\ bus' = bus \cup Copies(n, TRUE) /\ relayed' = relayed \cup {n}
    BY <1>4 DEF Deliver, consuming, recording
  <2>2. \A c \in Consumers : Copy(c, n) \in Copies(n, TRUE)
    BY DEF Copy, Copies
  <2> QED BY <2>1, <2>2 DEF KeptInv
<1>5. ASSUME NEW n \in Messages, MarkPublished(n) PROVE KeptInv'
  <2>1. /\ UNCHANGED <<consumed, handled, bus>> /\ n \in relayed /\ relayed' \subseteq relayed
        /\ outbox' = [outbox EXCEPT ![n] = "published"]
    BY <1>5 DEF MarkPublished, consuming
  <2> QED BY <1>1, <2>1 DEF TypeOK
<1>6. CASE RelayCrash \/ UNCHANGED vars
  <2>1. UNCHANGED <<consumed, handled, bus, outbox>> /\ relayed' \subseteq relayed
    BY <1>6 DEF RelayCrash, vars, consuming, recording
  <2> QED BY <1>1, <2>1
<1>7. ASSUME NEW c \in Consumers, NEW n \in Messages, Act(c, n)
      PROVE  handled'[<<c, n>>] > 0 /\ \A w \in WorkItems : handled[w] > 0 => handled'[w] > 0
  <2>1. \A w \in WorkItems : handled[w] \in Nat
    BY RoutingAssumption DEF TypeOK
  <2>2. <<c, n>> \in WorkItems
    BY DEF WorkItems
  <2> QED BY <1>7, <2>1, <2>2 DEF Act, TypeOK
<1>8. ASSUME NEW c \in Consumers, NEW n \in Messages, HandleRelayed(c, n) PROVE KeptInv'
  <2>1. /\ UNCHANGED <<bus, relayed, outbox>> /\ consumed' = consumed \cup {<<c, n>>}
        /\ Act(c, n)
    BY <1>8 DEF HandleRelayed, recording
  <2> QED BY <1>7, <2>1 DEF KeptInv, TypeOK, WorkItems
<1>9. ASSUME NEW c \in Consumers, NEW n \in Messages, Acknowledge(c, n) PROVE KeptInv'
  <2>1. /\ UNCHANGED <<consumed, handled, outbox, relayed>>
        /\ <<c, n>> \in consumed /\ bus' = bus \ {Copy(c, n)}
    BY <1>9 DEF Acknowledge, consuming, recording, Copy
  <2>2. handled[<<c, n>>] > 0
    BY <2>1 DEF KeptInv
  <2>3. \A d \in Consumers, m \in Messages : Copy(d, m) = Copy(c, n) => d = c /\ m = n
    BY DEF Copy
  <2> QED BY <2>1, <2>2, <2>3 DEF KeptInv
<1>10. ASSUME NEW c \in Consumers, NEW n \in Messages, HandleInProcess(c, n) PROVE KeptInv'
  <2>1. /\ UNCHANGED <<consumed, outbox, relayed>> /\ Act(c, n)
        /\ bus' = bus \ {[to |-> c, event |-> n, id |-> FALSE]}
    BY <1>10 DEF HandleInProcess, recording
  <2>2. \A d \in Consumers, m \in Messages : Copy(d, m) \in bus => Copy(d, m) \in bus'
    BY <2>1 DEF Copy
  <2> QED BY <1>7, <2>1, <2>2 DEF KeptInv, TypeOK, WorkItems
<1>11. ASSUME NEW c \in Consumers, NEW n \in Messages, LinkThread(c, n) \/ LeaveUnlinked(c, n)
       PROVE  KeptInv'
  <2>1. UNCHANGED <<consumed, handled, outbox, relayed, bus>>
    BY <1>11 DEF LinkThread, LeaveUnlinked, recording
  <2> QED BY <1>1, <2>1
<1> QED BY <1>2, <1>3, <1>4, <1>5, <1>6, <1>8, <1>9, <1>10, <1>11 DEF Next

\* A recorded message is never forgotten between outbox, relay, bus and inbox: whatever
\* has crashed, until a consumer has acted on it the step that brings it nearer is one
\* that the relay or the consumer may take.
THEOREM NothingIsForgotten == Spec => []NothingIsLost
<1>1. Init => KeptInv
  BY DEF Init, KeptInv
<1>2. TypeOK /\ RecordInv /\ KeptInv /\ [Next]_vars => KeptInv'
  BY StepKept
<1>3. TypeOK /\ RecordInv /\ KeptInv => NothingIsLost
  <2> SUFFICES ASSUME TypeOK, RecordInv, KeptInv, NEW c \in Consumers, NEW m \in Messages,
                      call[m] \in {"committed", "done"}, handled[<<c, m>>] = 0
               PROVE  \/ outbox[m] = "staged" /\ m \notin relayed
                      \/ Copy(c, m) \in bus /\ InboxFree(c, m)
    BY DEF NothingIsLost
  <2>1. outbox[m] \in {"staged", "published"}
    BY DEF RecordInv, RouteInv, Recorded, TypeOK
  <2>2. InboxFree(c, m)
    BY DEF KeptInv, InboxFree
  <2> QED BY <2>1, <2>2 DEF KeptInv
<1> QED BY <1>1, <1>2, <1>3, RecordHolds, PTL DEF Spec
=============================================================================
