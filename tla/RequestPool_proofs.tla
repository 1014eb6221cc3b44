------------------------- MODULE RequestPool_proofs -------------------------
(***************************************************************************)
(* The pool for any finite number of calls, any keys, any pool size, scoped  *)
(* or not, patient or not: what a call holds follows from where it stands,    *)
(* so the pool is never overdrawn, nothing waits with its transaction open    *)
(* and nothing is left behind.                                               *)
(***************************************************************************)
EXTENDS RequestPool, FiniteSetTheorems, TLAPS

Connections == {"request", "tx"}
Places == Ended \cup {"new", "start", "begin", "claim", "commit",
                      "rollback", "reread", "provider", "mark", "leave"}

\* TypeOK without the count.
Shaped ==
  /\ setting \in Settings
  /\ key  \in [Receives -> Keys]
  /\ at   \in [Calls -> Places]
  /\ held \in [Calls -> SUBSET Connections]
  /\ recorded \subseteq Keys

\* The places between the begin and the end of the transaction, and outside the scope.
InTx      == {"claim", "commit", "rollback"}
OutOfTime == Ended \cup {"new"}

\* The connections of call c, exactly: its request's for as long as it is in its scope, and
\* its transaction's from the begin to the commit or the rollback.
HoldsWhatItShould(c) ==
  /\ "tx" \in held[c] <=> at[c] \in InTx
  /\ "request" \in held[c] <=> setting.scoped /\ at[c] \notin OutOfTime

NotOverdrawn == Cardinality(Taken) <= setting.size

PoolInv == Shaped /\ NotOverdrawn /\ \A c \in Calls : HoldsWhatItShould(c)

(***************************************************************************)
(* Counting connections                                                    *)
(***************************************************************************)

\* The taken connections are finitely many, whoever holds them.
LEMMA TakenIsFinite ==
  ASSUME held \in [Calls -> SUBSET Connections]
  PROVE  IsFiniteSet(Taken) /\ Cardinality(Taken) \in Nat
<1>1. IsFiniteSet(Connections)
  <2>1. IsFiniteSet({"request"})
    BY FS_Singleton
  <2>2. Connections = {"request"} \cup {"tx"}
    BY DEF Connections
  <2> QED BY <2>1, <2>2, FS_AddElement
<1>2. IsFiniteSet(Calls \X Connections)
  BY <1>1, FS_Product, PoolAssumption
<1>3. Taken \in SUBSET (Calls \X Connections)
  BY DEF Taken
<1>4. IsFiniteSet(Taken)
  BY <1>2, <1>3, FS_Subset
<1> QED BY <1>4, FS_CardinalityType

\* Giving connections back leaves no more taken; taking one, at most one more.
LEMMA TakenShrinks ==
  ASSUME held \in [Calls -> SUBSET Connections], held' \in [Calls -> SUBSET Connections],
         \A c \in Calls : held'[c] \subseteq held[c]
  PROVE  Cardinality(Taken') <= Cardinality(Taken)
<1>1. Taken' \in SUBSET Taken
  BY DEF Taken
<1> QED BY <1>1, TakenIsFinite, FS_Subset

LEMMA TakenGrows ==
  ASSUME held \in [Calls -> SUBSET Connections], held' \in [Calls -> SUBSET Connections],
         NEW c \in Calls, NEW x \in Connections,
         held'[c] \subseteq held[c] \cup {x},
         \A d \in Calls \ {c} : held'[d] \subseteq held[d]
  PROVE  Cardinality(Taken') <= Cardinality(Taken) + 1
<1>1. Taken' \in SUBSET (Taken \cup {<<c, x>>})
  BY DEF Taken
<1>2. IsFiniteSet(Taken) /\ Cardinality(Taken) \in Nat
  BY TakenIsFinite
<1>3. /\ IsFiniteSet(Taken \cup {<<c, x>>})
      /\ Cardinality(Taken \cup {<<c, x>>}) <= Cardinality(Taken) + 1
      /\ Cardinality(Taken \cup {<<c, x>>}) \in Nat
  <2>1. /\ IsFiniteSet(Taken \cup {<<c, x>>})
        /\ Cardinality(Taken \cup {<<c, x>>}) =
             IF <<c, x>> \in Taken THEN Cardinality(Taken) ELSE Cardinality(Taken) + 1
    BY <1>2, FS_AddElement
  <2> QED BY <1>2, <2>1
<1>4. Cardinality(Taken') <= Cardinality(Taken \cup {<<c, x>>})
  BY <1>1, <1>3, FS_Subset
<1>5. Cardinality(Taken') \in Nat
  <2>1. IsFiniteSet(Taken')
    BY <1>1, <1>3, FS_Subset
  <2> QED BY <2>1, FS_CardinalityType
<1> QED BY <1>2, <1>3, <1>4, <1>5

\* A free connection is one below the size.
LEMMA SizeTyped ==
  ASSUME Shaped
  PROVE  setting.size \in Nat /\ setting.scoped \in BOOLEAN /\ setting.patient \in BOOLEAN
BY PoolAssumption DEF Shaped

LEMMA FreeMeansRoom ==
  ASSUME Shaped
  PROVE  Free > 0 <=> Cardinality(Taken) + 1 <= setting.size
BY SizeTyped, TakenIsFinite DEF Free, Shaped

(***************************************************************************)
(* The invariant                                                           *)
(***************************************************************************)

LEMMA PoolInit == Init => PoolInv
<1> SUFFICES ASSUME Init PROVE PoolInv
  OBVIOUS
<1>1. Shaped
  BY DEF Init, Shaped, Places
<1>2. Taken = {}
  BY DEF Init, Taken
<1>3. NotOverdrawn
  BY <1>1, <1>2, SizeTyped, FS_EmptySet DEF NotOverdrawn
<1>4. \A c \in Calls : HoldsWhatItShould(c)
  BY DEF Init, HoldsWhatItShould, InTx, OutOfTime
<1> QED BY <1>1, <1>3, <1>4 DEF PoolInv

\* A step of call c that takes nothing.
LEMMA TakesNothing ==
  ASSUME PoolInv, Shaped', setting' = setting, NEW c \in Calls, HoldsWhatItShould(c)',
         \A d \in Calls \ {c} : held'[d] = held[d] /\ at'[d] = at[d],
         held'[c] \subseteq held[c]
  PROVE  PoolInv'
<1>1. Cardinality(Taken') <= Cardinality(Taken)
  <2>1. \A d \in Calls : held'[d] \subseteq held[d]
    OBVIOUS
  <2> QED BY <2>1, TakenShrinks DEF PoolInv, Shaped
<1>2. Cardinality(Taken) \in Nat /\ Cardinality(Taken') \in Nat
  <2>1. IsFiniteSet(Taken) /\ Cardinality(Taken) \in Nat
    BY TakenIsFinite DEF PoolInv, Shaped
  <2>2. Taken' \in SUBSET Taken
    BY DEF Taken
  <2>3. IsFiniteSet(Taken')
    BY <2>1, <2>2, FS_Subset
  <2> QED BY <2>1, <2>3, FS_CardinalityType
<1>3. NotOverdrawn'
  BY <1>1, <1>2, SizeTyped DEF PoolInv, NotOverdrawn
<1>4. \A d \in Calls : HoldsWhatItShould(d)'
  BY DEF PoolInv, HoldsWhatItShould
<1> QED BY <1>3, <1>4 DEF PoolInv

\* A step of call c that takes one connection while one is free.
LEMMA TakesOne ==
  ASSUME PoolInv, Shaped', setting' = setting, NEW c \in Calls, HoldsWhatItShould(c)',
         \A d \in Calls \ {c} : held'[d] = held[d] /\ at'[d] = at[d],
         Free > 0, NEW x \in Connections, held'[c] \subseteq held[c] \cup {x}
  PROVE  PoolInv'
<1>1. Cardinality(Taken') <= Cardinality(Taken) + 1
  BY TakenGrows DEF PoolInv, Shaped
<1>2. Cardinality(Taken) \in Nat /\ Cardinality(Taken') \in Nat
  <2>1. IsFiniteSet(Taken) /\ Cardinality(Taken) \in Nat
    BY TakenIsFinite DEF PoolInv, Shaped
  <2>2. Taken' \in SUBSET (Taken \cup {<<c, x>>})
    BY DEF Taken
  <2>3. IsFiniteSet(Taken')
    BY <2>1, <2>2, FS_AddElement, FS_Subset
  <2> QED BY <2>1, <2>3, FS_CardinalityType
<1>3. NotOverdrawn'
  BY <1>1, <1>2, SizeTyped, FreeMeansRoom DEF PoolInv, NotOverdrawn
<1>4. \A d \in Calls : HoldsWhatItShould(d)'
  BY DEF PoolInv, HoldsWhatItShould
<1> QED BY <1>3, <1>4 DEF PoolInv

LEMMA PoolStep ==
  ASSUME PoolInv, [Next]_vars
  PROVE  PoolInv'
<1>1. /\ at \in [Calls -> Places] /\ held \in [Calls -> SUBSET Connections]
      /\ key \in [Receives -> Keys] /\ recorded \subseteq Keys /\ setting \in Settings
      /\ Receives \subseteq Calls /\ Sends \subseteq Calls
      /\ \A c \in Calls : HoldsWhatItShould(c)
  BY DEF PoolInv, Shaped, Calls
<1> USE DEF Goto, given
<1>2. ASSUME NEW c \in Calls, Enter(c) PROVE PoolInv'
  <2>1. Shaped' /\ HoldsWhatItShould(c)'
    BY <1>1, <1>2 DEF Enter, Shaped, Places, Connections, HoldsWhatItShould, InTx, OutOfTime, Ended
  <2>2. \A d \in Calls \ {c} : held'[d] = held[d] /\ at'[d] = at[d]
    BY <1>1, <1>2 DEF Enter
  <2>3. CASE setting.scoped
    BY <1>1, <1>2, <2>1, <2>2, <2>3, TakesOne DEF Enter, Connections
  <2>4. CASE ~setting.scoped
    BY <1>1, <1>2, <2>1, <2>2, <2>4, TakesNothing DEF Enter
  <2> QED BY <2>3, <2>4
<1>3. ASSUME NEW c \in Receives, Begin(c) PROVE PoolInv'
  <2>1. Shaped' /\ HoldsWhatItShould(c)'
    BY <1>1, <1>3 DEF Begin, Shaped, Places, Connections, HoldsWhatItShould, InTx, OutOfTime, Ended
  <2>2. \A d \in Calls \ {c} : held'[d] = held[d] /\ at'[d] = at[d]
    BY <1>1, <1>3 DEF Begin
  <2> QED BY <1>1, <1>3, <2>1, <2>2, TakesOne DEF Begin, Connections
<1>4. ASSUME NEW c \in Receives, FastPath(c) \/ Claim(c) \/ Reread(c) PROVE PoolInv'
  <2>1. Shaped' /\ HoldsWhatItShould(c)'
    BY <1>1, <1>4 DEF FastPath, Claim, Reread, Shaped, Places, HoldsWhatItShould, InTx, OutOfTime, Ended
  <2> QED BY <1>1, <1>4, <2>1, TakesNothing DEF FastPath, Claim, Reread
<1>5. ASSUME NEW c \in Receives, Commit(c) \/ Rollback(c) PROVE PoolInv'
  <2>1. Shaped' /\ HoldsWhatItShould(c)'
    BY <1>1, <1>5 DEF Commit, Rollback, Shaped, Places, HoldsWhatItShould, InTx, OutOfTime, Ended
  <2> QED BY <1>1, <1>5, <2>1, TakesNothing DEF Commit, Rollback
<1>6. ASSUME NEW s \in Sends, Queue(s) \/ ProviderAnswers(s) \/ Mark(s) PROVE PoolInv'
  <2>1. Shaped' /\ HoldsWhatItShould(s)'
    BY <1>1, <1>6 DEF Queue, ProviderAnswers, Mark, Shaped, Places, HoldsWhatItShould, InTx,
                       OutOfTime, Ended
  <2> QED BY <1>1, <1>6, <2>1, TakesNothing DEF Queue, ProviderAnswers, Mark
<1>7. ASSUME NEW c \in Calls, Leave(c) \/ GiveUp(c) PROVE PoolInv'
  <2>1. Shaped' /\ HoldsWhatItShould(c)'
    BY <1>1, <1>7 DEF Leave, GiveUp, Shaped, Places, HoldsWhatItShould, InTx, OutOfTime, Ended
  <2> QED BY <1>1, <1>7, <2>1, TakesNothing DEF Leave, GiveUp
<1>8. ASSUME UNCHANGED vars PROVE PoolInv'
  BY <1>8 DEF PoolInv, Shaped, NotOverdrawn, HoldsWhatItShould, Taken, vars
<1> QED BY <1>1, <1>2, <1>3, <1>4, <1>5, <1>6, <1>7, <1>8 DEF Next, Step, AllEnded

LEMMA PoolInvHolds == Spec => []PoolInv
<1>1. PoolInv /\ [Next]_vars => PoolInv'
  BY PoolStep
<1> QED BY PoolInit, <1>1, PTL DEF Spec

(***************************************************************************)
(* The theorems                                                            *)
(***************************************************************************)

\* The pool never hands out more connections than it has, whichever calls run and stop.
THEOREM PoolNeverOverdrawn == Spec => []TypeOK
<1>1. PoolInv => TypeOK
  <2> SUFFICES ASSUME PoolInv PROVE TypeOK
    OBVIOUS
  <2>1. Free \in 0..setting.size
    BY SizeTyped, TakenIsFinite DEF PoolInv, Shaped, NotOverdrawn, Free
  <2> QED BY <2>1 DEF PoolInv, Shaped, TypeOK, Places, Connections
<1> QED BY <1>1, PoolInvHolds, PTL

\* No receive_inbound call waits for a connection with its transaction open: whoever waits
\* for its key waits for statements, not for the pool.
THEOREM KeyIsNotHeldInTheQueue == Spec => []NoWaitWithTheKey
<1>1. PoolInv => NoWaitWithTheKey
  BY DEF PoolInv, HoldsWhatItShould, NoWaitWithTheKey, Starved, InTx, Calls
<1> QED BY <1>1, PoolInvHolds, PTL

\* Once every call has ended, by an answer or by giving up, the whole pool is free again.
THEOREM NothingLeaks ==
  Spec => []((\A c \in Calls : at[c] \in Ended) => Free = setting.size)
<1>1. PoolInv => ((\A c \in Calls : at[c] \in Ended) => Free = setting.size)
  <2> SUFFICES ASSUME PoolInv, \A c \in Calls : at[c] \in Ended
               PROVE  Free = setting.size
    OBVIOUS
  <2>1. \A c \in Calls : held[c] = {}
    BY DEF PoolInv, Shaped, HoldsWhatItShould, Connections, InTx, OutOfTime, Ended
  <2>2. Taken = {}
    BY <2>1 DEF Taken
  <2> QED BY <2>2, SizeTyped, FS_EmptySet DEF PoolInv, Free
<1> QED BY <1>1, PoolInvHolds, PTL

(***************************************************************************)
(* Nobody waits for everybody                                              *)
(***************************************************************************)

\* Waiting for a connection, or for the transaction that has claimed the key.
WaitsForKey(c) == /\ c \in Receives /\ at[c] = "claim"
                  /\ \E d \in Receives : at[d] = "commit" /\ key[d] = key[c]
Waits(c) == Starved(c) \/ WaitsForKey(c)

\* Every statement takes a connection of its own, or there is one more than calls.
Roomy == ~setting.scoped \/ Cardinality(Calls) < setting.size

\* Where no call is in its transaction, a call has at most the connection of its request.
LEMMA RequestsLeaveOne ==
  ASSUME PoolInv, Roomy, \A c \in Calls : at[c] \notin InTx
  PROVE  Free > 0
<1>1. \A c \in Calls : held[c] \subseteq (IF setting.scoped THEN {"request"} ELSE {})
  BY DEF PoolInv, Shaped, HoldsWhatItShould, Connections
<1>2. Shaped /\ held \in [Calls -> SUBSET Connections]
  BY DEF PoolInv, Shaped
<1>3. CASE ~setting.scoped
  <2>1. Taken = {}
    BY <1>1, <1>3 DEF Taken
  <2>2. setting.size \in Nat \ {0}
    BY <1>2, PoolAssumption DEF Shaped
  <2> QED BY <2>1, <2>2, FS_EmptySet DEF Free
<1>4. CASE setting.scoped
  <2>1. Taken \subseteq Calls \X {"request"}
    BY <1>1, <1>4 DEF Taken
  <2>2. /\ IsFiniteSet(Calls \X {"request"})
        /\ Cardinality(Calls \X {"request"}) = Cardinality(Calls)
    <3>1. IsFiniteSet({"request"}) /\ Cardinality({"request"}) = 1
      BY FS_Singleton
    <3>2. Cardinality(Calls) \in Nat
      BY PoolAssumption, FS_CardinalityType
    <3> QED BY <3>1, <3>2, PoolAssumption, FS_Product
  <2>3. Cardinality(Taken) <= Cardinality(Calls)
    BY <2>1, <2>2, FS_Subset
  <2>4. Cardinality(Taken) \in Nat /\ Cardinality(Calls) \in Nat
    BY <1>2, TakenIsFinite, PoolAssumption, FS_CardinalityType
  <2> QED BY <1>2, <1>4, <2>3, <2>4, SizeTyped DEF Roomy, Free
<1> QED BY <1>3, <1>4

\* As long as a call has not ended, some call waits neither for a connection nor for a
\* key: without a request scope on a pool of any size, and within one where the pool has
\* a connection more than there are calls, though receive_inbound takes two.
THEOREM SomeoneCanGo ==
  Spec => [](Roomy /\ (\E c \in Calls : at[c] \notin Ended)
               => \E c \in Calls : at[c] \notin Ended /\ ~Waits(c))
<1>1. ASSUME PoolInv, Roomy, \A c \in Calls : at[c] \in Ended \/ Waits(c)
      PROVE  \A c \in Calls : at[c] \in Ended
  <2>1. \A c \in Calls : at[c] # "commit"
    BY <1>1 DEF Waits, WaitsForKey, Starved, Ended
  <2>2. \A c \in Calls : at[c] \in Ended \/ Starved(c)
    BY <1>1, <2>1 DEF Waits, WaitsForKey, Calls
  <2>3. \A c \in Calls : at[c] \notin InTx
    BY <2>2 DEF Starved, InTx, Ended
  <2>4. Free > 0
    BY <1>1, <2>3, RequestsLeaveOne
  <2> QED BY <2>2, <2>4 DEF Starved
<1>2. PoolInv => (Roomy /\ (\E c \in Calls : at[c] \notin Ended)
                    => \E c \in Calls : at[c] \notin Ended /\ ~Waits(c))
  BY <1>1
<1> QED BY <1>2, PoolInvHolds, PTL
=============================================================================
