---------------------------- MODULE RequestPool ----------------------------
(***************************************************************************)
(* The sqlx pool under a burst of write-service calls.  Inside a request     *)
(* scope a call keeps one connection for its lookups and updates, which ride  *)
(* it, and receive_inbound's begin() takes a second one while holding it;      *)
(* without a scope each statement takes a connection and gives it back.  A    *)
(* loser of the claim waits on the winner's key with its transaction open.    *)
(***************************************************************************)
EXTENDS Integers, FiniteSets

CONSTANTS
  Receives,   \* receive_inbound calls
  Sends,      \* send_outbound calls
  Keys,       \* (channel, external_id)
  Settings    \* how a composing service may run the module: size (max_connections),
              \* scoped (a request scope binds a connection), patient (nobody gives
              \* up: acquire_timeout is never reached)

Calls == Receives \cup Sends

ASSUME PoolAssumption ==
  /\ Receives \cap Sends = {} /\ IsFiniteSet(Calls)
  /\ Settings \subseteq [size : Nat \ {0}, scoped : BOOLEAN, patient : BOOLEAN]

VARIABLES
  setting,   \* the setting the module runs under; it never changes
  key,       \* the key each receive_inbound call delivers; it never changes
  at,        \* where each call stands
  held,      \* the connections it holds: its request's, its transaction's
  recorded   \* the keys whose message is committed

given == <<setting, key>>
vars  == <<given, at, held, recorded>>

Taken == UNION {{c} \X held[c] : c \in Calls}
Free  == setting.size - Cardinality(Taken)

Ended == {"done", "failed"}

TypeOK ==
  /\ setting \in Settings
  /\ key  \in [Receives -> Keys]
  /\ at   \in [Calls -> Ended \cup {"new", "start", "begin", "claim", "commit",
                 "rollback", "reread", "provider", "mark", "leave"}]
  /\ held \in [Calls -> SUBSET {"request", "tx"}]
  /\ Free \in 0..setting.size
  /\ recorded \subseteq Keys

Init ==
  /\ setting \in Settings
  /\ key  \in [Receives -> Keys]
  /\ at   = [c \in Calls |-> "new"]
  /\ held = [c \in Calls |-> {}]
  /\ recorded = {}

Goto(c, place) == at' = [at EXCEPT ![c] = place]

\* fetch_optional_row_scoped, execute_scoped: the request's own connection, or
\* one of the pool for the length of the statement.
CanQuery == setting.scoped \/ Free > 0

\* with_org_request_scope, around the call.
Enter(c) ==
  /\ at[c] = "new"
  /\ setting.scoped => Free > 0
  /\ held' = IF setting.scoped THEN [held EXCEPT ![c] = {"request"}] ELSE held
  /\ Goto(c, "start")
  /\ UNCHANGED <<given, recorded>>

FastPath(c) ==
  /\ at[c] = "start"
  /\ CanQuery
  /\ Goto(c, IF key[c] \in recorded THEN "leave" ELSE "begin")
  /\ UNCHANGED <<given, held, recorded>>

\* Mutant: the transaction is opened on a connection the pool does not count.
BeginUnmetered(c) ==
  /\ at[c] = "begin"
  /\ held' = [held EXCEPT ![c] = @ \cup {"tx"}]
  /\ Goto(c, "claim")
  /\ UNCHANGED <<given, recorded>>

Begin(c) ==
  /\ at[c] = "begin"
  /\ Free > 0
  /\ held' = [held EXCEPT ![c] = @ \cup {"tx"}]
  /\ Goto(c, "claim")
  /\ UNCHANGED <<given, recorded>>

\* ON CONFLICT DO NOTHING waits for an uncommitted row of the key.
Claim(c) ==
  /\ at[c] = "claim"
  /\ \A d \in Receives : ~(at[d] = "commit" /\ key[d] = key[c])
  /\ Goto(c, IF key[c] \in recorded THEN "rollback" ELSE "commit")
  /\ UNCHANGED <<given, held, recorded>>

Commit(c) ==
  /\ at[c] = "commit"
  /\ recorded' = recorded \cup {key[c]}
  /\ held' = [held EXCEPT ![c] = @ \ {"tx"}]
  /\ Goto(c, "leave")
  /\ UNCHANGED given

\* Mutant: the winner is read again before the transaction is given back.
RollbackLate(c) ==
  /\ at[c] = "rollback"
  /\ Goto(c, "reread")
  /\ UNCHANGED <<given, held, recorded>>

Rollback(c) ==
  /\ at[c] = "rollback"
  /\ held' = [held EXCEPT ![c] = @ \ {"tx"}]
  /\ Goto(c, "reread")
  /\ UNCHANGED <<given, recorded>>

Reread(c) ==
  /\ at[c] = "reread"
  /\ CanQuery
  /\ Goto(c, "leave")
  /\ UNCHANGED <<given, held, recorded>>

\* Mutant: the queued row is written in a transaction the provider call is in.
QueueInTransaction(s) ==
  /\ at[s] = "start"
  /\ Free > 0
  /\ held' = [held EXCEPT ![s] = @ \cup {"tx"}]
  /\ Goto(s, "provider")
  /\ UNCHANGED <<given, recorded>>

\* fetch_for_send and insert_outbound.
Queue(s) ==
  /\ at[s] = "start"
  /\ CanQuery
  /\ Goto(s, "provider")
  /\ UNCHANGED <<given, held, recorded>>

\* The provider takes its time; the call keeps what it holds meanwhile.
ProviderAnswers(s) ==
  /\ at[s] = "provider"
  /\ Goto(s, "mark")
  /\ UNCHANGED <<given, held, recorded>>

\* mark_sent and touch_last_message, or mark_failed.
Mark(s) ==
  /\ at[s] = "mark"
  /\ CanQuery
  /\ Goto(s, "leave")
  /\ UNCHANGED <<given, held, recorded>>

Leave(c) ==
  /\ at[c] = "leave"
  /\ held' = [held EXCEPT ![c] = {}]
  /\ Goto(c, "done")
  /\ UNCHANGED <<given, recorded>>

\* Waiting for a connection of the pool.
Starved(c) ==
  /\ Free = 0
  /\ \/ at[c] = "new" /\ setting.scoped
     \/ at[c] = "begin"
     \/ at[c] \in {"start", "reread", "mark"} /\ ~setting.scoped

\* PoolTimedOut: the error leaves the call, and its connections with it.
GiveUp(c) ==
  /\ ~setting.patient
  /\ Starved(c)
  /\ held' = [held EXCEPT ![c] = {}]
  /\ Goto(c, "failed")
  /\ UNCHANGED <<given, recorded>>

Step(c) ==
  \/ Enter(c) \/ Leave(c) \/ GiveUp(c)
  \/ c \in Receives /\ (FastPath(c) \/ Begin(c) \/ Claim(c) \/ Commit(c) \/ Rollback(c) \/ Reread(c))
  \/ c \in Sends /\ (Queue(c) \/ ProviderAnswers(c) \/ Mark(c))

AllEnded ==
  /\ \A c \in Calls : at[c] \in Ended
  /\ UNCHANGED vars

Next == (\E c \in Calls : Step(c)) \/ AllEnded

\* Tasks are scheduled, statements end, and the provider answers.
Spec == Init /\ [][Next]_vars /\ \A c \in Calls : WF_vars(Step(c))

(***************************************************************************)
(* Properties                                                              *)
(***************************************************************************)

\* No call waits for ever, whatever it holds while it waits: for a connection,
\* for the winner of its key, for the provider.
EveryCallEnds == \A c \in Calls : <>(at[c] \in Ended)

\* A receive_inbound call never waits for a connection with its transaction
\* open: what it may hold there is the key that other calls wait for.
NoWaitWithTheKey ==
  \A c \in Receives : Starved(c) => "tx" \notin held[c]
=============================================================================
