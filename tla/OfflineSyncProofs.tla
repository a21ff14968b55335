-------------------------- MODULE OfflineSyncProofs --------------------------
(***************************************************************************)
(* Safety of the synchronisation protocol for any number of mutations,     *)
(* requests, workers and singleton rows, under every combination of the    *)
(* faults.  The inductive invariant is the conjunction of the types, the   *)
(* agreement of the outbox table with the data, and the exclusive          *)
(* ownership of outbox rows by open transactions: a commit may add the     *)
(* effects of a transaction only because no row of it is committed yet.    *)
(*                                                                         *)
(* Then, what the Valkey claim adds to that unique key.  While Valkey      *)
(* answers, a mutation is claimed once and for ever: every mutation that   *)
(* is being executed, was executed, was acknowledged or is SYNCED holds    *)
(* its key, so a second claim cannot start.  When in addition nothing but  *)
(* the network fails and no two mutations upsert one row, the one          *)
(* execution cannot be rolled back, so a key stands for an effect that is  *)
(* there or on its way.                                                    *)
(***************************************************************************)
EXTENDS OfflineSync, WellFoundedInduction, FiniteSetTheorems, TLAPS

IInv ==
  /\ TypeOK
  /\ LedgerMatchesData
  /\ RowsExclusive

-----------------------------------------------------------------------------
(* Lemmas *)

\* A non-empty set of mutations has a last one, which Upsert chooses.
LEMMA LastMutation ==
  ASSUME NEW S \in SUBSET Mutation, S # {}
  PROVE  \E m \in S : \A k \in S : k <= m
<1> USE SyncAssumption DEF Mutation
<1> DEFINE T == {NumMutations - k : k \in S}
<1>1. T \subseteq Nat /\ T # {}
  <2>1. PICK k \in S : TRUE
    OBVIOUS
  <2>2. NumMutations - k \in T
    OBVIOUS
  <2>3. \A j \in S : NumMutations - j \in Nat
    OBVIOUS
  <2> QED
    BY <2>2, <2>3
<1>2. PICK x \in T : \A y \in T : ~ (<<y, x>> \in OpToRel(<, Nat))
  BY <1>1, NatLessThanWellFounded, WFMin
<1>3. \A y \in T : x <= y
  <2>1. ASSUME NEW y \in T, y < x
        PROVE  <<y, x>> \in OpToRel(<, Nat)
    BY <1>1, <2>1 DEF OpToRel
  <2>2. \A y \in T : ~ (y < x)
    BY <1>2, <2>1
  <2> HIDE DEF T
  <2> QED
    BY <1>1, <2>2
<1>4. PICK m \in S : x = NumMutations - m
  OBVIOUS
<1>5. \A k \in S : NumMutations - m <= NumMutations - k
  BY <1>3, <1>4
<1> QED
  BY <1>5

\* Committing a transaction leaves mutations, or nothing, in the singleton rows.
LEMMA UpsertType ==
  ASSUME NEW r \in Requests, cell \in [Cells -> 0..NumMutations],
         staged[r] \subseteq Mutation, Upsert(r)
  PROVE  cell' \in [Cells -> 0..NumMutations]
<1> DEFINE last(c) == CHOOSE m \in Writers(r, c) : \A k \in Writers(r, c) : k <= m
<1>1. ASSUME NEW c \in Cells, Writers(r, c) # {}
      PROVE  last(c) \in 0..NumMutations
  <2>1. Writers(r, c) \subseteq Mutation
    BY DEF Writers
  <2>2. \E m \in Writers(r, c) : \A k \in Writers(r, c) : k <= m
    BY <1>1, <2>1, LastMutation
  <2>3. last(c) \in Writers(r, c)
    BY <2>2
  <2> QED
    BY <2>1, <2>3, SyncAssumption DEF Mutation
<1>2. cell' = [c \in Cells |-> IF Writers(r, c) = {} THEN cell[c] ELSE last(c)]
  BY DEF Upsert
<1> HIDE DEF last
<1> QED
  BY <1>1, <1>2
-----------------------------------------------------------------------------
(* Types *)

LEMMA TypeInit == Init => TypeOK
  BY SyncAssumption DEF Init, TypeOK

LEMMA TypeServerStep ==
  ASSUME TypeOK, NEW r \in Requests, ServerStep(r)
  PROVE  TypeOK'
<1> USE SyncAssumption DEF TypeOK, clientVars, requestVars, memoryVars, dbVars
<1>1. ASSUME NEW m \in Mutation, Claim(r, m)
      PROVE  TypeOK'
  BY <1>1 DEF Claim, Acknowledge
<1>2. ASSUME NEW m \in Mutation, Lookup(r, m)
      PROVE  TypeOK'
  BY <1>2 DEF Lookup, Acknowledge
<1>3. ASSUME NEW m \in Mutation, LookupFails(r, m)
      PROVE  TypeOK'
  BY <1>3 DEF LookupFails, Rollback, Reply, Close
<1>4. ASSUME NEW m \in Mutation, Refuse(r, m)
      PROVE  TypeOK'
  BY <1>4 DEF Refuse, Fail
<1>5. ASSUME NEW m \in Mutation, FallThrough(r, m)
      PROVE  TypeOK'
  BY <1>5 DEF FallThrough
<1>6. ASSUME NEW m \in Mutation, ReadCell(r, m)
      PROVE  TypeOK'
  BY <1>6 DEF ReadCell
<1>7. ASSUME NEW m \in Mutation, WriteCell(r, m)
      PROVE  TypeOK'
  BY <1>7 DEF WriteCell, Rollback, Fail
<1>8. ASSUME NEW m \in Mutation, Record(r, m)
      PROVE  TypeOK'
  BY <1>8 DEF Record, Rollback, Fail, Acknowledge
<1>9. ASSUME NEW m \in Mutation, StatementFails(r, m)
      PROVE  TypeOK'
  BY <1>9 DEF StatementFails, Rollback, Fail
<1>10. CASE Answer(r)
  BY <1>10 DEF Answer, Reply
<1>11. CASE Commit(r)
  <2>1. cell' \in [Cells -> 0..NumMutations]
    BY <1>11, UpsertType DEF Commit
  <2> QED
    BY <1>11, <2>1 DEF Commit, Execute, Rollback, Close
<1>12. CASE CommitFails(r)
  BY <1>12 DEF CommitFails, Rollback, Close
<1> QED
  BY <1>1, <1>2, <1>3, <1>4, <1>5, <1>6, <1>7, <1>8, <1>9, <1>10, <1>11, <1>12
  DEF ServerStep

LEMMA TypeStep == TypeOK /\ [Next]_vars => TypeOK'
<1> SUFFICES ASSUME TypeOK, [Next]_vars
             PROVE  TypeOK'
  OBVIOUS
<1> USE SyncAssumption DEF clientVars, requestVars, memoryVars, dbVars
<1>1. ASSUME NEW m \in Mutation, Queue(m)
      PROVE  TypeOK'
  BY <1>1 DEF TypeOK, Queue
<1>2. ASSUME NEW m \in Mutation, ForgetKey(m)
      PROVE  TypeOK'
  BY <1>2 DEF TypeOK, ForgetKey
<1>3. ASSUME NEW r \in Requests, Push(r)
      PROVE  TypeOK'
  BY <1>3 DEF TypeOK, Push, Pending
<1>4. ASSUME NEW r \in Requests, Receive(r)
      PROVE  TypeOK'
  BY <1>4 DEF TypeOK, Receive, TakeReply, MarkRows
<1>5. ASSUME NEW r \in Requests, LoseReply(r)
      PROVE  TypeOK'
  BY <1>5 DEF TypeOK, LoseReply
<1>6. ASSUME NEW r \in Requests, ServerStep(r)
      PROVE  TypeOK'
  BY <1>6, TypeServerStep
<1>7. ASSUME NEW w \in Workers, Crash(w)
      PROVE  TypeOK'
  BY <1>7 DEF TypeOK, Crash
<1>8. CASE UNCHANGED vars
  BY <1>8 DEF TypeOK, vars
<1> QED
  BY <1>1, <1>2, <1>3, <1>4, <1>5, <1>6, <1>7, <1>8 DEF Next, Rest

\* Type correctness: every variable of the device, the requests, Valkey, the
\* process caches and the database keeps to its type, whatever fails.
THEOREM TypeCorrect == Spec => []TypeOK
<1> QED
  BY TypeInit, TypeStep, PTL DEF Spec
-----------------------------------------------------------------------------
(* Ownership of outbox rows *)

\* A step that commits no row and gives no request a further one is harmless.
LEMMA ExclusiveStable ==
  ASSUME RowsExclusive, rows' = rows,
         \A q \in Requests : Recorded(q)' \subseteq Recorded(q)
  PROVE  RowsExclusive'
BY DEF RowsExclusive

\* Recording m is harmless because nobody else holds or has committed its row.
LEMMA ExclusiveRecord ==
  ASSUME TypeOK, RowsExclusive, NEW r \in Requests, NEW m \in Mutation, Record(r, m)
  PROVE  RowsExclusive'
<1> USE DEF TypeOK, clientVars, memoryVars, dbVars
<1>1. rows' = rows
  BY DEF Record
<1>2. \A q \in Requests \ {r} : Recorded(q)' = Recorded(q)
  BY DEF Record, Rollback, Fail, Acknowledge, Recorded, HoldsRow, Item
<1>3. CASE m \in rows
  <2>1. Recorded(r)' = {}
    BY <1>3 DEF Record, Rollback, Recorded
  <2> QED
    BY <1>1, <1>2, <2>1, ExclusiveStable
<1>4. CASE m \notin rows
  <2>1. Recorded(r)' \subseteq Recorded(r) \cup {m}
    <3>1. staged' = staged
      BY <1>4 DEF Record
    <3>2. ASSUME NEW k \in staged[r], Item(r, k)
          PROVE  k = m
      BY <3>2 DEF Record, Item, Mutation
    <3> QED
      BY <3>1, <3>2 DEF Recorded, HoldsRow
  <2>2. \A q \in Requests \ {r} : m \notin Recorded(q)
    <3>1. m \in todo[r] /\ Item(r, m) /\ pc[r] = "record" /\ Blockers(r) = {}
      BY DEF Record, Item
    <3>2. \A q \in Requests \ {r} : ~ HoldsRow(q, m)
      BY <3>1 DEF Blockers
    <3> QED
      BY <3>2 DEF Recorded
  <2> QED
    BY <1>1, <1>2, <1>4, <2>1, <2>2 DEF RowsExclusive
<1> QED
  BY <1>3, <1>4

\* A commit turns all rows of its transaction, and no others, into committed ones.
LEMMA ExclusiveCommit ==
  ASSUME TypeOK, RowsExclusive, NEW r \in Requests, Commit(r)
  PROVE  RowsExclusive'
<1>1. Recorded(r) = staged[r] /\ rows' = rows \cup staged[r]
  BY DEF Commit, Recorded, HoldsRow
<1>2. Recorded(r)' = {}
  BY DEF Commit, Rollback, Recorded, TypeOK
<1>3. \A q \in Requests \ {r} : Recorded(q)' = Recorded(q)
  BY DEF Commit, Rollback, Close, Recorded, HoldsRow, Item, TypeOK
<1> QED
  BY <1>1, <1>2, <1>3 DEF RowsExclusive

LEMMA ExclusiveServerStep ==
  ASSUME TypeOK, RowsExclusive, NEW r \in Requests, ServerStep(r)
  PROVE  RowsExclusive'
<1> USE DEF TypeOK, clientVars, requestVars, memoryVars, dbVars
<1> DEFINE Harmless == rows' = rows /\ \A q \in Requests : Recorded(q)' \subseteq Recorded(q)
<1>1. ASSUME NEW m \in Mutation, Claim(r, m)
      PROVE  Harmless
  BY <1>1 DEF Claim, Acknowledge, Recorded, HoldsRow, Item
<1>2. ASSUME NEW m \in Mutation, Lookup(r, m)
      PROVE  Harmless
  BY <1>2 DEF Lookup, Acknowledge, Recorded, HoldsRow, Item
<1>3. ASSUME NEW m \in Mutation, LookupFails(r, m)
      PROVE  Harmless
  BY <1>3 DEF LookupFails, Rollback, Reply, Close, Recorded, HoldsRow, Item
<1>4. ASSUME NEW m \in Mutation, Refuse(r, m)
      PROVE  Harmless
  BY <1>4 DEF Refuse, Fail, Recorded, HoldsRow, Item
<1>5. ASSUME NEW m \in Mutation, FallThrough(r, m)
      PROVE  Harmless
  BY <1>5 DEF FallThrough, Recorded, HoldsRow, Item
<1>6. ASSUME NEW m \in Mutation, ReadCell(r, m)
      PROVE  Harmless
  BY <1>6 DEF ReadCell, Recorded, HoldsRow, Item
<1>7. ASSUME NEW m \in Mutation, WriteCell(r, m)
      PROVE  Harmless
  BY <1>7 DEF WriteCell, Rollback, Fail, Recorded, HoldsRow, Item
<1>8. ASSUME NEW m \in Mutation, StatementFails(r, m)
      PROVE  Harmless
  BY <1>8 DEF StatementFails, Rollback, Fail, Recorded, HoldsRow, Item
<1>9. CASE Answer(r)
  <2>1. Harmless
    BY <1>9 DEF Answer, Reply, Recorded, HoldsRow, Item
  <2> QED
    BY <2>1, ExclusiveStable
<1>10. CASE CommitFails(r)
  <2>1. Harmless
    BY <1>10 DEF CommitFails, Rollback, Close, Recorded, HoldsRow, Item
  <2> QED
    BY <2>1, ExclusiveStable
<1>11. CASE \E m \in Mutation : Record(r, m)
  BY <1>11, ExclusiveRecord
<1>12. CASE Commit(r)
  BY <1>12, ExclusiveCommit
<1> QED
  BY <1>1, <1>2, <1>3, <1>4, <1>5, <1>6, <1>7, <1>8, <1>9, <1>10, <1>11, <1>12,
     ExclusiveStable
  DEF ServerStep

LEMMA ExclusiveStep ==
  ASSUME TypeOK, RowsExclusive, [Next]_vars
  PROVE  RowsExclusive'
<1> USE DEF TypeOK, clientVars, requestVars, memoryVars, dbVars
<1> DEFINE Harmless == rows' = rows /\ \A q \in Requests : Recorded(q)' \subseteq Recorded(q)
<1>1. ASSUME NEW m \in Mutation, Queue(m) \/ ForgetKey(m)
      PROVE  Harmless
  BY <1>1 DEF Queue, ForgetKey, Recorded, HoldsRow, Item
<1>2. ASSUME NEW r \in Requests, Push(r)
      PROVE  Harmless
  BY <1>2 DEF Push, Recorded, HoldsRow, Item
<1>3. ASSUME NEW r \in Requests, Receive(r) \/ LoseReply(r)
      PROVE  Harmless
  BY <1>3 DEF Receive, TakeReply, LoseReply, Recorded, HoldsRow, Item
<1>4. ASSUME NEW w \in Workers, Crash(w)
      PROVE  Harmless
  BY <1>4 DEF Crash, Recorded, HoldsRow, Item
<1>5. CASE UNCHANGED vars
  <2>1. Harmless
    BY <1>5 DEF vars, Recorded, HoldsRow, Item
  <2> QED
    BY <2>1, ExclusiveStable
<1>6. ASSUME NEW r \in Requests, ServerStep(r)
      PROVE  RowsExclusive'
  BY <1>6, ExclusiveServerStep
<1> QED
  BY <1>1, <1>2, <1>3, <1>4, <1>5, <1>6, ExclusiveStable DEF Next, Rest
-----------------------------------------------------------------------------
(* The outbox table and the data *)

\* Only a commit touches either, and it adds both for mutations that had neither.
LEMMA LedgerCommit ==
  ASSUME TypeOK, RowsExclusive, LedgerMatchesData, NEW r \in Requests, Commit(r)
  PROVE  LedgerMatchesData'
<1>1. staged[r] \cap rows = {}
  <2>1. Recorded(r) = staged[r]
    BY DEF Commit, Recorded, HoldsRow
  <2> QED
    BY <2>1 DEF RowsExclusive
<1>2. rows' = rows \cup staged[r]
  BY DEF Commit
<1> SUFFICES ASSUME NEW m \in Mutation
             PROVE  effects'[m] = IF m \in rows' \ Unhandled THEN 1 ELSE 0
  BY DEF LedgerMatchesData
<1>3. effects'[m] = IF m \in staged[r] \ Unhandled THEN effects[m] + 1 ELSE effects[m]
  BY DEF Commit, Execute
<1>4. effects[m] = IF m \in rows \ Unhandled THEN 1 ELSE 0
  BY DEF LedgerMatchesData
<1> QED
  BY <1>1, <1>2, <1>3, <1>4

LEMMA LedgerStep ==
  ASSUME TypeOK, RowsExclusive, LedgerMatchesData, [Next]_vars
  PROVE  LedgerMatchesData'
<1>1. CASE \E r \in Requests : Commit(r)
  BY <1>1, LedgerCommit
<1>2. CASE ~ \E r \in Requests : Commit(r)
  <2>1. UNCHANGED <<rows, effects>>
    BY <1>2
    DEF Next, ServerStep, Queue, ForgetKey, Push, Receive, TakeReply, LoseReply, Crash, Rest,
        Claim, Lookup, LookupFails, Refuse, FallThrough, ReadCell, WriteCell, Record,
        StatementFails, Answer, CommitFails, vars, dbVars
  <2> QED
    BY <2>1 DEF LedgerMatchesData
<1> QED
  BY <1>1, <1>2
-----------------------------------------------------------------------------
(* The theorems *)

LEMMA InductiveInvariant == Spec => []IInv
<1>1. Init => IInv
  <2> SUFFICES ASSUME Init
               PROVE  IInv
    OBVIOUS
  <2>1. TypeOK
    BY TypeInit
  <2>2. LedgerMatchesData
    BY DEF Init, LedgerMatchesData
  <2>3. RowsExclusive
    BY DEF Init, RowsExclusive, Recorded
  <2> QED
    BY <2>1, <2>2, <2>3 DEF IInv
<1>2. IInv /\ [Next]_vars => IInv'
  BY TypeStep, ExclusiveStep, LedgerStep DEF IInv
<1> QED
  BY <1>1, <1>2, PTL DEF Spec

\* The outbox table agrees with the data in every reachable state: a mutation
\* has its PROCESSED row exactly when its one effect is committed.
THEOREM LedgerAgrees == Spec => []LedgerMatchesData
<1> QED
  BY InductiveInvariant, PTL DEF IInv

\* No two open transactions hold the outbox row of one mutation, and none holds
\* a committed one: the primary key settles the races Valkey let through.
THEOREM RowsAreExclusive == Spec => []RowsExclusive
<1> QED
  BY InductiveInvariant, PTL DEF IInv

\* No effect is ever repeated: for any number of workers, requests and
\* retries, and whatever is lost or crashes, a mutation's effect is committed at
\* most once.
THEOREM EffectsAtMostOnce == Spec => []AtMostOnce
<1>1. IInv => AtMostOnce
  BY DEF IInv, LedgerMatchesData, AtMostOnce
<1> QED
  BY InductiveInvariant, <1>1, PTL
-----------------------------------------------------------------------------
(* Refinement of the ledger *)

\* Whatever a request has in hand was queued by the device before.
InHand(r) == todo[r] \cup staged[r] \cup acked[r]
Queued == \A r \in Requests : \A m \in InHand(r) : outbox[m] # "none"

\* A step that takes no mutation in hand and unqueues none keeps Queued.
LEMMA QueuedStable ==
  ASSUME TypeOK, Queued,
         \A m \in Mutation : outbox[m] # "none" => outbox'[m] # "none",
         \A q \in Requests : InHand(q)' \subseteq InHand(q)
  PROVE  Queued'
BY DEF Queued, InHand, TypeOK

LEMMA QueuedServerStep ==
  ASSUME TypeOK, Queued, NEW r \in Requests, ServerStep(r)
  PROVE  Queued'
<1> USE DEF TypeOK, clientVars, requestVars, memoryVars, dbVars
<1> DEFINE Harmless == outbox' = outbox /\ \A q \in Requests : InHand(q)' \subseteq InHand(q)
<1>1. ASSUME NEW m \in Mutation, Claim(r, m)
      PROVE  Harmless
  BY <1>1 DEF Claim, Acknowledge, InHand, Item
<1>2. ASSUME NEW m \in Mutation, Lookup(r, m)
      PROVE  Harmless
  BY <1>2 DEF Lookup, Acknowledge, InHand, Item
<1>3. ASSUME NEW m \in Mutation, LookupFails(r, m)
      PROVE  Harmless
  BY <1>3 DEF LookupFails, Rollback, Reply, Close, InHand
<1>4. ASSUME NEW m \in Mutation, Refuse(r, m)
      PROVE  Harmless
  BY <1>4 DEF Refuse, Fail, InHand
<1>5. ASSUME NEW m \in Mutation, FallThrough(r, m)
      PROVE  Harmless
  BY <1>5 DEF FallThrough, InHand, Item
<1>6. ASSUME NEW m \in Mutation, ReadCell(r, m)
      PROVE  Harmless
  BY <1>6 DEF ReadCell, InHand
<1>7. ASSUME NEW m \in Mutation, WriteCell(r, m)
      PROVE  Harmless
  BY <1>7 DEF WriteCell, Rollback, Fail, InHand, Item
<1>8. ASSUME NEW m \in Mutation, Record(r, m)
      PROVE  Harmless
  BY <1>8 DEF Record, Rollback, Fail, Acknowledge, InHand, Item
<1>9. ASSUME NEW m \in Mutation, StatementFails(r, m)
      PROVE  Harmless
  BY <1>9 DEF StatementFails, Rollback, Fail, InHand
<1>10. CASE Answer(r)
  <2>1. Harmless
    BY <1>10 DEF Answer, Reply, InHand
  <2> QED
    BY <2>1, QueuedStable
<1>11. CASE Commit(r) \/ CommitFails(r)
  <2>1. Harmless
    BY <1>11 DEF Commit, CommitFails, Rollback, Close, InHand
  <2> QED
    BY <2>1, QueuedStable
<1> QED
  BY <1>1, <1>2, <1>3, <1>4, <1>5, <1>6, <1>7, <1>8, <1>9, <1>10, <1>11, QueuedStable
  DEF ServerStep

LEMMA QueuedStep ==
  ASSUME TypeOK, Queued, [Next]_vars
  PROVE  Queued'
<1> USE DEF TypeOK, clientVars, requestVars, memoryVars, dbVars
<1> DEFINE Harmless == /\ \A m \in Mutation : outbox[m] # "none" => outbox'[m] # "none"
                       /\ \A q \in Requests : InHand(q)' \subseteq InHand(q)
<1>1. ASSUME NEW m \in Mutation, Queue(m) \/ ForgetKey(m)
      PROVE  Harmless
  BY <1>1 DEF Queue, ForgetKey, InHand
<1>2. ASSUME NEW r \in Requests, Push(r)
      PROVE  Queued'
  <2>1. \A q \in Requests : InHand(q)' \subseteq InHand(q) \cup Pending
    BY <1>2 DEF Push, InHand, Pending
  <2>2. outbox' = outbox
    BY <1>2 DEF Push
  <2> QED
    BY <2>1, <2>2 DEF Queued, Pending
<1>3. ASSUME NEW r \in Requests, Receive(r) \/ LoseReply(r)
      PROVE  Harmless
  BY <1>3 DEF Receive, TakeReply, MarkRows, LoseReply, InHand
<1>4. ASSUME NEW w \in Workers, Crash(w)
      PROVE  Harmless
  BY <1>4 DEF Crash, InHand
<1>5. CASE UNCHANGED vars
  <2>1. Harmless
    BY <1>5 DEF vars, InHand
  <2> QED
    BY <2>1, QueuedStable
<1>6. ASSUME NEW r \in Requests, ServerStep(r)
      PROVE  Queued'
  BY <1>6, QueuedServerStep
<1> QED
  BY <1>1, <1>2, <1>3, <1>4, <1>5, <1>6, QueuedStable DEF Next, Rest

\* A commit is the ledger's Apply of the executed mutations.
LEMMA CommitApplies ==
  ASSUME IInv, Queued, NEW r \in Requests, Commit(r)
  PROVE  Ledger!Apply(staged[r] \ Unhandled)
<1> DEFINE S == staged[r] \ Unhandled
<1>1. S \subseteq Mutation
  BY DEF IInv, TypeOK
<1>2. Recorded(r) = staged[r]
  BY DEF Commit, Recorded, HoldsRow
<1>3. \A m \in S : m \notin rows
  BY <1>2 DEF IInv, RowsExclusive
<1>4. \A m \in S : effects[m] = 0
  BY <1>1, <1>3 DEF IInv, LedgerMatchesData
<1>5. \A m \in S : outbox[m] # "none"
  BY DEF Queued, InHand
<1>6. effects' = [m \in Mutation |-> IF m \in S THEN effects[m] + 1 ELSE effects[m]]
  BY DEF Commit, Execute
<1>7. effects' = [m \in Mutation |-> IF m \in S THEN 1 ELSE effects[m]]
  BY <1>4, <1>6
<1>8. outbox' = outbox
  BY DEF Commit, clientVars
<1> QED
  BY <1>4, <1>5, <1>7, <1>8 DEF Ledger!Apply

\* A reply taken is the ledger's Settle of the acknowledged mutations.
LEMMA ReceiveSettles ==
  ASSUME IInv, Queued, NEW r \in Requests, Receive(r)
  PROVE  \E S \in SUBSET Mutation : Ledger!Settle(S)
<1> DEFINE S == IF reply[r] = "ok" THEN acked[r] ELSE {}
<1>1. S \in SUBSET Mutation
  BY DEF IInv, TypeOK
<1>2. \A m \in S : outbox[m] # "none"
  BY DEF Queued, InHand
<1>3. outbox' = [m \in Mutation |-> IF m \in S THEN "SYNCED" ELSE outbox[m]]
  BY DEF Receive, MarkRows
<1>4. effects' = effects
  BY DEF Receive, TakeReply, dbVars
<1> QED
  BY <1>1, <1>2, <1>3, <1>4 DEF Ledger!Settle

LEMMA StepRefines ==
  ASSUME IInv, Queued, [Next]_vars
  PROVE  [Ledger!Next]_(Ledger!ledgerVars)
<1>1. ASSUME NEW m \in Mutation, Queue(m)
      PROVE  Ledger!Next
  BY <1>1 DEF Queue, dbVars, Ledger!Queue, Ledger!Next
<1>2. ASSUME NEW r \in Requests, Receive(r)
      PROVE  Ledger!Next
  BY <1>2, ReceiveSettles DEF Ledger!Next
<1>3. ASSUME NEW r \in Requests, Commit(r)
      PROVE  Ledger!Next
  BY <1>3, CommitApplies DEF Ledger!Next, IInv, TypeOK
<1>4. CASE /\ ~ \E m \in Mutation : Queue(m)
           /\ ~ \E r \in Requests : Receive(r) \/ Commit(r)
  <2>1. UNCHANGED <<outbox, effects>>
    BY <1>4
    DEF Next, ServerStep, ForgetKey, Push, LoseReply, Crash, Rest, Claim, Lookup, LookupFails,
        Refuse, FallThrough, ReadCell, WriteCell, Record, StatementFails, Answer,
        CommitFails, vars, dbVars, clientVars
  <2> QED
    BY <2>1 DEF Ledger!ledgerVars
<1> QED
  BY <1>1, <1>2, <1>3, <1>4

\* The protocol implements the ledger: to the user, every step of client,
\* servers and faults queues a mutation, gives mutations their first effect,
\* settles queued ones, or changes nothing.
THEOREM SyncRefinesLedger == Spec => RefinesLedger
<1>1. Init => Ledger!Init
  BY DEF Init, Ledger!Init
<1>2. Init => Queued
  BY DEF Init, Queued, InHand
<1>3. IInv /\ Queued /\ [Next]_vars => Queued'
  BY QueuedStep DEF IInv
<1>4. IInv /\ Queued /\ [Next]_vars => [Ledger!Next]_(Ledger!ledgerVars)
  BY StepRefines
<1> QED
  BY <1>1, <1>2, <1>3, <1>4, InductiveInvariant, PTL DEF Spec, RefinesLedger, Ledger!Spec
-----------------------------------------------------------------------------
(* The claim *)

\* r is executing m, or has executed it in its open transaction.
Executing(r, m) ==
  m \in staged[r] \/ (pc[r] \in {"lookup", "read", "write", "record"} /\ Item(r, m))

ClaimInv ==
  /\ \A r \in Requests, m \in Mutation : Executing(r, m) => m \in keys \ rows
  /\ \A r, q \in Requests, m \in Mutation : Executing(r, m) /\ Executing(q, m) => r = q
  /\ rows \subseteq keys
  /\ \A w \in Workers : cache[w] \subseteq keys
  /\ \A r \in Requests : acked[r] \subseteq keys
  /\ \A m \in Mutation : outbox[m] = "SYNCED" => m \in keys
  /\ \A r \in Requests, m \in Mutation : pc[r] = "record" /\ Item(r, m) => m \in staged[r]

\* Every claimed mutation that its handler takes has its effect or will have it.
NothingLost ==
  \A m \in keys \ (Invalid \cup Unhandled) : effects[m] = 1 \/ \E r \in Requests : Executing(r, m)

\* No two mutations upsert one row.
CellsApart ==
  \A m, k \in Mutation : CellOf[m] = CellOf[k] /\ CellOf[m] # NoCell => m = k

-----------------------------------------------------------------------------
(* Singleton rows *)

LEMMA CellsStep ==
  ASSUME IInv, CellsFromLedger, [Next]_vars
  PROVE  CellsFromLedger'
<1> USE DEF IInv
<1>1. ASSUME NEW r \in Requests, Commit(r) PROVE CellsFromLedger'
  <2>1. staged[r] \cap rows = {} /\ staged[r] \subseteq Mutation
    <3>1. Recorded(r) = staged[r]
      BY <1>1 DEF Commit, Recorded, HoldsRow
    <3> QED
      BY <3>1 DEF RowsExclusive, TypeOK
  <2>2. /\ \A m \in Mutation : effects'[m] = IF m \in staged[r] \ Unhandled THEN effects[m] + 1 ELSE effects[m]
        /\ \A m \in Mutation : effects[m] = IF m \in rows \ Unhandled THEN 1 ELSE 0
    BY <1>1 DEF Commit, Execute, LedgerMatchesData
  <2>3. ASSUME NEW c \in Cells, cell'[c] # 0
        PROVE  CellOf[cell'[c]] = c /\ effects'[cell'[c]] = 1
    <3>1. CASE Writers(r, c) = {}
      <4>1. cell'[c] = cell[c]
        BY <1>1, <3>1 DEF Commit, Upsert
      <4>2. cell[c] \in Mutation /\ CellOf[cell[c]] = c /\ effects[cell[c]] = 1
        BY <2>3, <4>1, SyncAssumption DEF CellsFromLedger, TypeOK, Mutation
      <4>3. cell[c] \in rows
        BY <2>2, <4>2
      <4> QED
        BY <2>1, <2>2, <4>1, <4>2, <4>3
    <3>2. CASE Writers(r, c) # {}
      <4>1. \E m \in Writers(r, c) : \A k \in Writers(r, c) : k <= m
        BY <2>1, <3>2, LastMutation DEF Writers
      <4>2. cell'[c] = CHOOSE m \in Writers(r, c) : \A k \in Writers(r, c) : k <= m
        BY <1>1, <3>2 DEF Commit, Upsert
      <4>3. cell'[c] \in Writers(r, c)
        BY <4>1, <4>2
      <4> QED
        BY <2>1, <2>2, <4>3 DEF Writers
    <3> QED
      BY <3>1, <3>2
  <2> QED
    BY <2>3 DEF CellsFromLedger
<1>2. CASE ~ \E r \in Requests : Commit(r)
  <2>1. UNCHANGED <<cell, effects>>
    BY <1>2
    DEF Next, ServerStep, Queue, ForgetKey, Push, Receive, TakeReply, LoseReply, Crash, Rest,
        Claim, Lookup, LookupFails, Refuse, FallThrough, ReadCell, WriteCell, Record,
        StatementFails, Answer, CommitFails, vars, dbVars
  <2> QED
    BY <2>1 DEF CellsFromLedger
<1> QED
  BY <1>1, <1>2

LEMMA CellsSafe == Spec => [](IInv /\ CellsFromLedger)
<1>1. Init => CellsFromLedger
  BY DEF Init, CellsFromLedger
<1>2. IInv /\ CellsFromLedger /\ [Next]_vars => CellsFromLedger'
  BY CellsStep
<1> QED
  BY <1>1, <1>2, InductiveInvariant, PTL DEF Spec

\* A rating or a title state always shows what a committed mutation of that row
\* gave it (the upserts of the handlers and the outbox insert share the
\* transaction of the request), under every combination of the faults.
THEOREM CellsAgree == Spec => []CellsFromLedger
<1> QED
  BY CellsSafe, PTL
-----------------------------------------------------------------------------
(* The claim *)

\* A step in which nobody starts to execute anything.
LEMMA Fewer ==
  ASSUME ClaimInv, rows' = rows, keys' = keys,
         \A r \in Requests, m \in Mutation : Executing(r, m)' => Executing(r, m),
         \A w \in Workers : cache'[w] \subseteq keys,
         \A r \in Requests : acked'[r] \subseteq keys,
         \A m \in Mutation : outbox'[m] = "SYNCED" => m \in keys,
         \A r \in Requests, m \in Mutation : pc'[r] = "record" /\ Item(r, m)' => m \in staged'[r]
  PROVE  ClaimInv'
  BY DEF ClaimInv

\* What a step of r leaves to the others.
LEMMA Others ==
  ASSUME NEW q \in Requests, NEW m \in Mutation,
         pc'[q] = pc[q], todo'[q] = todo[q], staged'[q] = staged[q]
  PROVE  (Executing(q, m)' <=> Executing(q, m)) /\ (Item(q, m)' <=> Item(q, m))
  BY DEF Executing, Item

LEMMA ItemUnique ==
  ASSUME TypeOK, NEW r \in Requests, NEW m \in Mutation, NEW k \in Mutation, Item(r, m), Item(r, k)
  PROVE  m = k
<1>1. m <= k /\ k <= m /\ m \in Nat /\ k \in Nat
  BY SyncAssumption DEF Item, Mutation
<1> QED
  BY <1>1

LEMMA ClaimServerStep ==
  ASSUME "valkey" \notin Faults, TypeOK, ClaimInv, NEW r \in Requests, ServerStep(r)
  PROVE  ClaimInv'
<1>1. ASSUME NEW m \in Mutation, Claim(r, m) PROVE ClaimInv'
  <2>1. /\ keys' = keys \cup {m} /\ pc[r] = "claim" /\ Item(r, m)
        /\ UNCHANGED <<outbox, staged, cache, rows>>
        /\ IF m \notin keys /\ m \notin cache[worker[r]]
           THEN pc' = [pc EXCEPT ![r] = "lookup"] /\ UNCHANGED <<acked, todo>>
           ELSE Acknowledge(r, m)
    BY <1>1 DEF Claim, clientVars, dbVars
  <2>2. \A q \in Requests \ {r} : pc'[q] = pc[q] /\ todo'[q] = todo[q] /\ acked'[q] = acked[q]
    BY <2>1 DEF TypeOK, Acknowledge
  <2>3. \A q \in Requests \ {r}, k \in Mutation :
          (Executing(q, k)' <=> Executing(q, k)) /\ (Item(q, k)' <=> Item(q, k))
    BY <2>1, <2>2, Others
  <2>4. pc'[r] \in {"lookup", "claim"} /\ acked'[r] \subseteq acked[r] \cup {m}
    BY <2>1 DEF TypeOK, Acknowledge
  <2>5. \A k \in Mutation : Executing(r, k)' => Executing(r, k) \/ (k = m /\ m \notin keys)
    <3>1. CASE m \notin keys /\ m \notin cache[worker[r]]
      <4>1. \A k \in Mutation : Item(r, k)' => k = m
        BY <2>1, <3>1, ItemUnique DEF Item
      <4> QED
        BY <2>1, <3>1, <4>1 DEF Executing
    <3>2. CASE ~(m \notin keys /\ m \notin cache[worker[r]])
      <4>1. pc'[r] = "claim"
        BY <2>1, <3>2 DEF Acknowledge, TypeOK
      <4> QED
        BY <2>1, <4>1 DEF Executing
    <3> QED
      BY <3>1, <3>2
  <2>6. \A q \in Requests, k \in Mutation : Executing(q, k)' => k \in keys' \ rows'
    BY <2>1, <2>3, <2>5 DEF ClaimInv
  <2>7. \A p, q \in Requests, k \in Mutation : Executing(p, k)' /\ Executing(q, k)' => p = q
    BY <2>3, <2>5 DEF ClaimInv
  <2>8. \A q \in Requests, k \in Mutation : pc'[q] = "record" /\ Item(q, k)' => k \in staged'[q]
    BY <2>1, <2>2, <2>3, <2>4 DEF ClaimInv
  <2>9. /\ rows' \subseteq keys' /\ \A w \in Workers : cache'[w] \subseteq keys'
        /\ \A q \in Requests : acked'[q] \subseteq keys'
        /\ \A k \in Mutation : outbox'[k] = "SYNCED" => k \in keys'
    BY <2>1, <2>2, <2>4 DEF ClaimInv
  <2> QED
    BY <2>6, <2>7, <2>8, <2>9 DEF ClaimInv
<1>2. ASSUME NEW m \in Mutation,
             Lookup(r, m) \/ LookupFails(r, m) \/ Refuse(r, m) \/ FallThrough(r, m) \/ ReadCell(r, m)
               \/ WriteCell(r, m) \/ Record(r, m) \/ StatementFails(r, m)
      PROVE  ClaimInv'
  <2>1. Executing(r, m) /\ m \in keys /\ Item(r, m) /\ UNCHANGED <<outbox, keys, rows>>
    <3>1. pc[r] \in {"lookup", "read", "write", "record"} /\ Item(r, m) /\ UNCHANGED <<outbox, keys, rows>>
      BY <1>2 DEF Lookup, LookupFails, Refuse, FallThrough, ReadCell, WriteCell, Record, StatementFails,
                  clientVars, memoryVars, dbVars
    <3> QED
      BY <3>1 DEF Executing, ClaimInv
  <2>2. /\ \A q \in Requests \ {r} : /\ pc'[q] = pc[q] /\ todo'[q] = todo[q]
                                     /\ staged'[q] = staged[q] /\ acked'[q] = acked[q]
        /\ acked'[r] \subseteq acked[r] \cup {m}
        /\ staged'[r] \subseteq staged[r] \cup {m}
        /\ pc'[r] \in {"lookup", "read", "write", "record"} => todo'[r] = todo[r]
        /\ pc'[r] = "record" => m \in staged'[r]
    BY <1>2 DEF Lookup, LookupFails, Refuse, FallThrough, ReadCell, WriteCell, Record, StatementFails,
                Acknowledge, Fail, Rollback, Reply, Close, TypeOK
  <2>3. \A w \in Workers : cache'[w] \subseteq cache[w] \cup {m}
    BY <1>2 DEF Lookup, LookupFails, Refuse, FallThrough, ReadCell, WriteCell, Record, StatementFails,
                TypeOK, memoryVars
  <2>4. \A q \in Requests \ {r}, k \in Mutation :
          (Executing(q, k)' <=> Executing(q, k)) /\ (Item(q, k)' <=> Item(q, k))
    BY <2>2, Others
  <2>5. \A k \in Mutation : pc'[r] \in {"lookup", "read", "write", "record"} /\ Item(r, k)' => k = m
    BY <2>1, <2>2, ItemUnique DEF Item
  <2>6. \A q \in Requests, k \in Mutation : Executing(q, k)' => Executing(q, k)
    BY <2>1, <2>2, <2>4, <2>5 DEF Executing
  <2>7. \A q \in Requests, k \in Mutation : pc'[q] = "record" /\ Item(q, k)' => k \in staged'[q]
    BY <2>2, <2>4, <2>5 DEF ClaimInv
  <2>8. /\ \A w \in Workers : cache'[w] \subseteq keys
        /\ \A q \in Requests : acked'[q] \subseteq keys
        /\ \A k \in Mutation : outbox'[k] = "SYNCED" => k \in keys
    BY <2>1, <2>2, <2>3 DEF ClaimInv
  <2> QED
    BY <2>1, <2>6, <2>7, <2>8, Fewer
<1>3. ASSUME Answer(r) \/ CommitFails(r) PROVE ClaimInv'
  <2>1. /\ UNCHANGED <<outbox, keys, rows, cache, todo>> /\ pc'[r] \in {"commit", "idle"}
        /\ acked'[r] \subseteq acked[r] /\ staged'[r] \subseteq staged[r]
        /\ \A q \in Requests \ {r} : pc'[q] = pc[q] /\ staged'[q] = staged[q] /\ acked'[q] = acked[q]
    BY <1>3 DEF Answer, CommitFails, Reply, Rollback, Close, TypeOK, clientVars, memoryVars, dbVars
  <2>2. \A q \in Requests \ {r}, k \in Mutation :
          (Executing(q, k)' <=> Executing(q, k)) /\ (Item(q, k)' <=> Item(q, k))
    BY <2>1, Others
  <2>3. \A q \in Requests, k \in Mutation : Executing(q, k)' => Executing(q, k)
    BY <2>1, <2>2 DEF Executing
  <2>4. \A q \in Requests, k \in Mutation : pc'[q] = "record" /\ Item(q, k)' => k \in staged'[q]
    BY <2>1, <2>2 DEF ClaimInv
  <2>5. /\ \A w \in Workers : cache'[w] \subseteq keys
        /\ \A q \in Requests : acked'[q] \subseteq keys
        /\ \A k \in Mutation : outbox'[k] = "SYNCED" => k \in keys
    BY <2>1 DEF ClaimInv
  <2> QED
    BY <2>1, <2>3, <2>4, <2>5, Fewer
<1>4. ASSUME Commit(r) PROVE ClaimInv'
  <2>1. /\ UNCHANGED <<outbox, keys, cache, acked, todo>> /\ rows' = rows \cup staged[r]
        /\ pc'[r] = "idle" /\ staged'[r] = {}
        /\ \A q \in Requests \ {r} : pc'[q] = pc[q] /\ staged'[q] = staged[q]
    BY <1>4 DEF Commit, Rollback, Close, TypeOK, clientVars, memoryVars
  <2>2. \A q \in Requests \ {r}, k \in Mutation :
          (Executing(q, k)' <=> Executing(q, k)) /\ (Item(q, k)' <=> Item(q, k))
    BY <2>1, Others
  <2>3. \A k \in Mutation : ~Executing(r, k)'
    BY <2>1 DEF Executing
  <2>4. staged[r] \subseteq Mutation /\ \A k \in staged[r] : Executing(r, k)
    BY DEF Executing, TypeOK
  <2>5. \A q \in Requests, k \in Mutation : Executing(q, k)' => k \in keys' \ rows'
    BY <2>1, <2>2, <2>3, <2>4 DEF ClaimInv
  <2>6. \A p, q \in Requests, k \in Mutation : Executing(p, k)' /\ Executing(q, k)' => p = q
    BY <2>2, <2>3 DEF ClaimInv
  <2>7. \A q \in Requests, k \in Mutation : pc'[q] = "record" /\ Item(q, k)' => k \in staged'[q]
    BY <2>1, <2>2 DEF ClaimInv
  <2>8. rows' \subseteq keys'
    BY <2>1, <2>4 DEF ClaimInv
  <2> QED
    BY <2>1, <2>5, <2>6, <2>7, <2>8 DEF ClaimInv
<1> QED
  BY <1>1, <1>2, <1>3, <1>4 DEF ServerStep

LEMMA ClaimStep ==
  ASSUME "valkey" \notin Faults, TypeOK, ClaimInv, [Next]_vars
  PROVE  ClaimInv'
<1>1. ASSUME NEW m \in Mutation, Queue(m) PROVE ClaimInv'
  <2>1. UNCHANGED <<pc, todo, staged, acked, keys, cache, rows>>
        /\ \A k \in Mutation : outbox'[k] = "SYNCED" => outbox[k] = "SYNCED"
    BY <1>1 DEF Queue, TypeOK, requestVars, memoryVars, dbVars
  <2> QED
    BY <2>1, Fewer DEF ClaimInv, Executing, Item
<1>2. ASSUME NEW m \in Mutation, ForgetKey(m) PROVE ClaimInv'
  BY <1>2 DEF ForgetKey
<1>3. ASSUME NEW r \in Requests, Push(r) PROVE ClaimInv'
  <2>1. /\ UNCHANGED <<outbox, staged, acked, keys, cache, rows>> /\ pc'[r] = "claim"
        /\ \A q \in Requests \ {r} : pc'[q] = pc[q] /\ todo'[q] = todo[q]
    BY <1>3 DEF Push, TypeOK, memoryVars, dbVars
  <2>2. \A q \in Requests \ {r}, k \in Mutation :
          (Executing(q, k)' <=> Executing(q, k)) /\ (Item(q, k)' <=> Item(q, k))
    BY <2>1, Others
  <2>3. \A q \in Requests, k \in Mutation : Executing(q, k)' => Executing(q, k)
    BY <2>1, <2>2 DEF Executing
  <2>4. \A q \in Requests, k \in Mutation : pc'[q] = "record" /\ Item(q, k)' => k \in staged'[q]
    BY <2>1, <2>2 DEF ClaimInv
  <2> QED
    BY <2>1, <2>3, <2>4, Fewer DEF ClaimInv
<1>4. ASSUME NEW r \in Requests, Receive(r) \/ LoseReply(r) PROVE ClaimInv'
  <2>1. /\ UNCHANGED <<pc, todo, staged, keys, cache, rows>>
        /\ \A q \in Requests : acked'[q] \subseteq acked[q]
        /\ \A k \in Mutation : outbox'[k] = "SYNCED" => outbox[k] = "SYNCED" \/ k \in acked[r]
    BY <1>4 DEF Receive, LoseReply, TakeReply, MarkRows, TypeOK, requestVars, memoryVars, dbVars
  <2> QED
    BY <2>1, Fewer DEF ClaimInv, Executing, Item
<1>5. ASSUME NEW w \in Workers, Crash(w) PROVE ClaimInv'
  <2>1. /\ UNCHANGED <<outbox, keys, rows>> /\ \A v \in Workers : cache'[v] \subseteq cache[v]
        /\ \A q \in Requests : /\ acked'[q] \subseteq acked[q]
                               /\ \/ pc'[q] = "idle" /\ staged'[q] = {}
                                  \/ pc'[q] = pc[q] /\ todo'[q] = todo[q] /\ staged'[q] = staged[q]
    BY <1>5 DEF Crash, TypeOK, clientVars, dbVars
  <2>2. \A q \in Requests, k \in Mutation : Executing(q, k)' => Executing(q, k)
    BY <2>1 DEF Executing, Item
  <2>3. \A q \in Requests, k \in Mutation : pc'[q] = "record" /\ Item(q, k)' => k \in staged'[q]
    BY <2>1 DEF ClaimInv, Item
  <2> QED
    BY <2>1, <2>2, <2>3, Fewer DEF ClaimInv
<1>6. CASE UNCHANGED vars
  BY <1>6, Fewer DEF vars, clientVars, requestVars, memoryVars, dbVars, ClaimInv, Executing, Item
<1> QED
  BY <1>1, <1>2, <1>3, <1>4, <1>5, <1>6, ClaimServerStep DEF Next, Rest

LEMMA ClaimSafe ==
  ASSUME "valkey" \notin Faults
  PROVE  Spec => [](IInv /\ CellsFromLedger /\ ClaimInv)
<1>1. Init => ClaimInv
  BY DEF Init, ClaimInv, Executing
<1>2. IInv /\ ClaimInv /\ [Next]_vars => ClaimInv'
  BY ClaimStep DEF IInv
<1> QED
  BY <1>1, <1>2, CellsSafe, PTL DEF Spec

\* While Valkey answers, concurrent pushes of the same rows are told apart by
\* check_and_set_idempotency alone: whatever else fails, one request at most is
\* executing a given mutation.
THEOREM OneExecutor ==
  ASSUME "valkey" \notin Faults
  PROVE  Spec => []SingleExecutor
<1>1. ClaimInv => SingleExecutor
  <2> SUFFICES ASSUME ClaimInv, NEW m \in Mutation
               PROVE  Cardinality({r \in Requests : Executing(r, m)}) <= 1
    BY DEF SingleExecutor, Executing
  <2> DEFINE S == {r \in Requests : Executing(r, m)}
  <2>1. CASE S = {}
    <3>1. Cardinality({}) = 0
      BY FS_EmptySet
    <3> QED
      BY <2>1, <3>1
  <2>2. CASE S # {}
    <3>1. PICK r \in S : TRUE
      BY <2>2
    <3>2. S = {r}
      BY <3>1 DEF ClaimInv
    <3>3. Cardinality({r}) = 1
      BY FS_Singleton
    <3> QED
      BY <3>2, <3>3
  <2> QED
    BY <2>1, <2>2
<1> QED
  BY <1>1, ClaimSafe, PTL
-----------------------------------------------------------------------------
(* Nothing but the network fails *)

LEMMA NobodyWaits ==
  ASSUME CellsApart, TypeOK, ClaimInv, NEW r \in Requests
  PROVE  Blockers(r) = {}
<1> SUFFICES ASSUME NEW q \in Requests \ {r}, NEW m \in todo[r], Item(r, m),
                    \/ pc[r] = "write" /\ HoldsCell(q, CellOf[m])
                    \/ pc[r] = "record" /\ HoldsRow(q, m)
             PROVE  FALSE
  BY DEF Blockers
<1>1. m \in Mutation /\ staged[q] \subseteq Mutation
  BY DEF TypeOK
<1>2. m \in staged[q]
  BY <1>1 DEF HoldsCell, HoldsRow, CellsApart
<1>3. Executing(q, m) /\ Executing(r, m)
  BY <1>2 DEF Executing
<1> QED
  BY <1>1, <1>3 DEF ClaimInv

LEMMA NoDeadlock ==
  ASSUME CellsApart, TypeOK, ClaimInv, NEW r \in Requests
  PROVE  ~Deadlocked(r)
<1> SUFFICES ASSUME NEW S \in SUBSET Requests, r \in S, Blockers(r) \cap S # {}
             PROVE  FALSE
  BY DEF Deadlocked
<1> QED
  BY NobodyWaits

\* A request runs on a worker, and one that is over holds nothing.
Staffed == \A r \in Requests : IF pc[r] = "idle" THEN staged[r] = {} ELSE worker[r] \in Workers

LEMMA StaffedStep ==
  ASSUME TypeOK, Staffed, [Next]_vars
  PROVE  Staffed'
<1>1. ASSUME NEW r \in Requests, ServerStep(r) PROVE Staffed'
  <2>1. /\ \A q \in Requests \ {r} : pc'[q] = pc[q] /\ staged'[q] = staged[q] /\ worker'[q] = worker[q]
        /\ IF pc'[r] = "idle" THEN staged'[r] = {} ELSE worker'[r] = worker[r] /\ pc[r] # "idle"
    BY <1>1 DEF ServerStep, Claim, Lookup, LookupFails, Refuse, FallThrough, ReadCell, WriteCell, Record,
                StatementFails, Answer, Commit, CommitFails, Acknowledge, Fail, Rollback, Reply, Close, TypeOK
  <2> QED
    BY <2>1 DEF Staffed
<1>2. ASSUME NEW r \in Requests, Push(r) PROVE Staffed'
  BY <1>2 DEF Push, Staffed, TypeOK
<1>3. ASSUME NEW w \in Workers, Crash(w) PROVE Staffed'
  BY <1>3 DEF Crash, Staffed
<1>4. CASE UNCHANGED <<pc, staged, worker>>
  BY <1>4 DEF Staffed
<1>5. CASE \/ \E m \in Mutation : Queue(m) \/ ForgetKey(m)
           \/ \E r \in Requests : Receive(r) \/ LoseReply(r)
           \/ UNCHANGED vars
  BY <1>4, <1>5 DEF Queue, ForgetKey, Receive, TakeReply, LoseReply, vars, requestVars
<1> QED
  BY <1>1, <1>2, <1>3, <1>5 DEF Next, Rest

\* A step that neither claims nor commits, and lets go of nothing.
LEMMA StillHeld ==
  ASSUME NothingLost, keys' = keys, effects' = effects,
         \A r \in Requests, m \in Mutation \ (Invalid \cup Unhandled) : Executing(r, m) => Executing(r, m)',
         keys \subseteq Mutation
  PROVE  NothingLost'
  BY DEF NothingLost

LEMMA HeldServerStep ==
  ASSUME Faults \subseteq {"network"}, CellsApart, IInv, CellsFromLedger, ClaimInv, Staffed, NothingLost,
         NEW r \in Requests, ServerStep(r)
  PROVE  NothingLost'
<1> USE DEF IInv
<1> DEFINE Good == Mutation \ (Invalid \cup Unhandled)
<1>1. ASSUME NEW m \in Mutation, Claim(r, m) PROVE NothingLost'
  <2>1. /\ keys' = keys \cup {m} /\ pc[r] = "claim" /\ Item(r, m) /\ UNCHANGED <<effects, staged>>
        /\ IF m \notin keys /\ m \notin cache[worker[r]]
           THEN pc' = [pc EXCEPT ![r] = "lookup"] /\ UNCHANGED <<acked, todo>>
           ELSE Acknowledge(r, m)
    BY <1>1 DEF Claim, dbVars
  <2>2. \A q \in Requests \ {r} : pc'[q] = pc[q] /\ todo'[q] = todo[q]
    BY <2>1 DEF TypeOK, Acknowledge
  <2>3. \A q \in Requests, k \in Mutation : Executing(q, k) => Executing(q, k)'
    BY <2>1, <2>2, Others DEF Executing
  <2>4. m \in keys \/ Executing(r, m)'
    <3>1. CASE m \notin keys /\ m \notin cache[worker[r]]
      BY <2>1, <3>1 DEF Executing, Item, TypeOK
    <3>2. CASE m \in cache[worker[r]] /\ m \notin keys
      <4>1. worker[r] \in Workers
        BY <2>1 DEF Staffed
      <4> QED
        BY <3>2, <4>1 DEF ClaimInv
    <3> QED
      BY <3>1, <3>2
  <2> QED
    BY <2>1, <2>3, <2>4 DEF NothingLost, TypeOK
<1>2. ASSUME NEW m \in Mutation, Lookup(r, m) PROVE NothingLost'
  <2>1. /\ pc[r] = "lookup" /\ Item(r, m) /\ UNCHANGED <<keys, effects, staged>> /\ m \notin rows
    BY <1>2 DEF Lookup, memoryVars, dbVars, ClaimInv, Executing
  <2>2. pc' = [pc EXCEPT ![r] = "read"] /\ UNCHANGED todo
    BY <1>2, <2>1 DEF Lookup
  <2>3. \A q \in Requests, k \in Good : Executing(q, k) => Executing(q, k)'
    BY <2>1, <2>2 DEF Executing, Item, TypeOK
  <2> QED
    BY <2>1, <2>3, StillHeld DEF TypeOK
<1>3. ASSUME NEW m \in Mutation, Refuse(r, m) PROVE NothingLost'
  <2>1. /\ Item(r, m) /\ m \in Invalid /\ UNCHANGED <<keys, effects, staged>>
        /\ \A q \in Requests \ {r} : pc'[q] = pc[q] /\ todo'[q] = todo[q]
    BY <1>3 DEF Refuse, Fail, memoryVars, dbVars, TypeOK
  <2>2. \A q \in Requests \ {r}, k \in Good : Executing(q, k) => Executing(q, k)'
    BY <2>1, Others
  <2>3. \A k \in Good : Executing(r, k) => Executing(r, k)'
    <3>1. \A k \in Good : ~Item(r, k)
      BY <2>1, ItemUnique
    <3> QED
      BY <2>1, <3>1 DEF Executing
  <2> QED
    BY <2>1, <2>2, <2>3, StillHeld DEF TypeOK
<1>4. ASSUME NEW m \in Mutation, FallThrough(r, m) \/ ReadCell(r, m) PROVE NothingLost'
  <2>1. /\ UNCHANGED <<keys, effects, todo>> /\ \A q \in Requests : staged[q] \subseteq staged'[q]
        /\ pc'[r] \in {"record", "write"} /\ \A q \in Requests \ {r} : pc'[q] = pc[q]
    BY <1>4 DEF FallThrough, ReadCell, memoryVars, dbVars, TypeOK
  <2>2. \A q \in Requests, k \in Good : Executing(q, k) => Executing(q, k)'
    BY <2>1 DEF Executing, Item
  <2> QED
    BY <2>1, <2>2, StillHeld DEF TypeOK
<1>5. ASSUME NEW m \in Mutation, WriteCell(r, m) PROVE NothingLost'
  <2>1. Executing(r, m) /\ Item(r, m) /\ pc[r] = "write" /\ UNCHANGED <<keys, effects>>
    BY <1>5 DEF WriteCell, Executing, dbVars
  <2>2. ~InsertConflict(r, m)
    <3> SUFFICES ASSUME CellOf[m] # NoCell, cell[CellOf[m]] # 0
                 PROVE  FALSE
      BY DEF InsertConflict
    <3> DEFINE k == cell[CellOf[m]]
    <3>1. CellOf[m] \in Cells /\ k \in Mutation
      BY SyncAssumption DEF TypeOK, Mutation
    <3>2. CellOf[k] = CellOf[m] /\ effects[k] = 1
      BY <3>1 DEF CellsFromLedger
    <3>3. k = m
      BY <3>1, <3>2 DEF CellsApart
    <3>4. m \in rows
      BY <3>2, <3>3 DEF LedgerMatchesData
    <3> QED
      BY <2>1, <3>4 DEF ClaimInv
  <2>3. staged' = [staged EXCEPT ![r] = @ \cup {m}] /\ pc' = [pc EXCEPT ![r] = "record"] /\ UNCHANGED todo
    BY <1>5, <2>2 DEF WriteCell
  <2>4. \A q \in Requests, k \in Good : Executing(q, k) => Executing(q, k)'
    BY <2>1, <2>3 DEF Executing, Item, TypeOK
  <2> QED
    BY <2>1, <2>4, StillHeld DEF TypeOK
<1>6. ASSUME NEW m \in Mutation, Record(r, m) PROVE NothingLost'
  <2>1. Executing(r, m) /\ Item(r, m) /\ pc[r] = "record" /\ UNCHANGED <<keys, effects>>
    BY <1>6 DEF Record, Executing, memoryVars, dbVars
  <2>2. m \notin rows /\ m \in staged[r]
    BY <2>1 DEF ClaimInv
  <2>3. UNCHANGED staged /\ \A q \in Requests \ {r} : pc'[q] = pc[q] /\ todo'[q] = todo[q]
    BY <1>6, <2>2 DEF Record, Acknowledge, TypeOK
  <2>4. \A q \in Requests \ {r}, k \in Good : Executing(q, k) => Executing(q, k)'
    BY <2>3, Others
  <2>5. ASSUME NEW k \in Good, Executing(r, k) PROVE Executing(r, k)'
    <3>1. k \in staged[r]
      BY <2>1, <2>2, <2>5, ItemUnique DEF Executing
    <3> QED
      BY <2>3, <3>1 DEF Executing
  <2> QED
    BY <2>1, <2>4, <2>5, StillHeld DEF TypeOK
<1>7. CASE Answer(r)
  <2>1. /\ pc[r] = "claim" /\ UNCHANGED <<keys, effects, staged, todo>>
        /\ \A q \in Requests \ {r} : pc'[q] = pc[q]
    BY <1>7 DEF Answer, memoryVars, dbVars, TypeOK
  <2>2. \A q \in Requests, k \in Good : Executing(q, k) => Executing(q, k)'
    BY <2>1 DEF Executing, Item
  <2> QED
    BY <2>1, <2>2, StillHeld DEF TypeOK
<1>8. CASE Commit(r)
  <2>1. /\ pc[r] = "commit" /\ UNCHANGED <<keys, todo>>
        /\ \A q \in Requests \ {r} : pc'[q] = pc[q] /\ staged'[q] = staged[q]
        /\ \A k \in Mutation : effects'[k] = IF k \in staged[r] \ Unhandled THEN effects[k] + 1 ELSE effects[k]
    BY <1>8 DEF Commit, Rollback, Close, Execute, memoryVars, TypeOK
  <2>2. ASSUME NEW k \in Good, k \in keys
        PROVE  effects'[k] = 1 \/ \E q \in Requests : Executing(q, k)'
    <3>1. CASE k \in staged[r]
      <4>1. k \notin rows
        BY <3>1 DEF ClaimInv, Executing
      <4>2. effects[k] = 0
        BY <4>1 DEF LedgerMatchesData
      <4> QED
        BY <2>1, <3>1, <4>2
    <3>2. CASE k \notin staged[r]
      <4>1. ~Executing(r, k) /\ effects'[k] = effects[k]
        BY <2>1, <3>2 DEF Executing
      <4>2. \A q \in Requests \ {r} : Executing(q, k) => Executing(q, k)'
        BY <2>1, Others
      <4> QED
        BY <2>2, <4>1, <4>2 DEF NothingLost
    <3> QED
      BY <3>1, <3>2
  <2> QED
    BY <2>1, <2>2 DEF NothingLost, TypeOK
<1>9. ~CommitFails(r) /\ \A m \in Mutation : ~LookupFails(r, m) /\ ~StatementFails(r, m)
  BY NoDeadlock DEF CommitFails, LookupFails, StatementFails
<1> QED
  BY <1>1, <1>2, <1>3, <1>4, <1>5, <1>6, <1>7, <1>8, <1>9 DEF ServerStep

LEMMA HeldStep ==
  ASSUME Faults \subseteq {"network"}, CellsApart, IInv, CellsFromLedger, ClaimInv, Staffed, NothingLost, [Next]_vars
  PROVE  NothingLost'
<1>1. keys \subseteq Mutation
  BY DEF IInv, TypeOK
<1>2. ASSUME NEW r \in Requests, Push(r) PROVE NothingLost'
  <2>1. /\ UNCHANGED <<keys, effects, staged>> /\ pc[r] = "idle"
        /\ \A q \in Requests \ {r} : pc'[q] = pc[q] /\ todo'[q] = todo[q]
    BY <1>2 DEF Push, IInv, TypeOK, memoryVars, dbVars
  <2>2. \A q \in Requests, k \in Mutation : Executing(q, k) => Executing(q, k)'
    BY <2>1, Others DEF Executing
  <2> QED
    BY <1>1, <2>1, <2>2, StillHeld
<1>3. CASE UNCHANGED <<keys, effects, staged, pc, todo>>
  <2>1. \A q \in Requests, k \in Mutation : Executing(q, k) => Executing(q, k)'
    BY <1>3 DEF Executing, Item
  <2> QED
    BY <1>1, <1>3, <2>1, StillHeld
<1>4. ASSUME NEW m \in Mutation, Queue(m) PROVE NothingLost'
  BY <1>3, <1>4 DEF Queue, requestVars, memoryVars, dbVars
<1>5. ASSUME NEW r \in Requests, Receive(r) \/ LoseReply(r) PROVE NothingLost'
  BY <1>3, <1>5 DEF Receive, LoseReply, TakeReply, requestVars, memoryVars, dbVars
<1>6. CASE UNCHANGED vars
  BY <1>3, <1>6 DEF vars, requestVars, memoryVars, dbVars
<1>7. (\A m \in Mutation : ~ForgetKey(m)) /\ \A w \in Workers : ~Crash(w)
  BY DEF ForgetKey, Crash
<1> QED
  BY <1>2, <1>4, <1>5, <1>6, <1>7, HeldServerStep DEF Next, Rest

\* One refused item of a batch costs the batch nothing: when only replies are
\* lost and every mutation has a row of its own, whatever the device has stopped
\* sending has taken effect or is in the hands of a request that will commit it
\* (process_push_mutations goes on after a ValueError without a rollback).
THEOREM RefusalsIsolated ==
  ASSUME Faults \subseteq {"network"}, CellsApart
  PROVE  Spec => []RefusalIsolated
<1>1. Init => NothingLost
  BY DEF Init, NothingLost
<1>2. IInv /\ CellsFromLedger /\ ClaimInv /\ Staffed /\ NothingLost /\ [Next]_vars => NothingLost'
  BY HeldStep
<1>3. ClaimInv /\ NothingLost /\ Staffed => RefusalIsolated
  <2> SUFFICES ASSUME ClaimInv, NothingLost, Staffed, NEW m \in Mutation \ (Invalid \cup Unhandled),
                      outbox[m] = "SYNCED"
               PROVE  effects[m] = 1 \/ \E r \in Requests : Holds(r, m)
    BY DEF RefusalIsolated, Safe
  <2>1. m \in keys
    BY DEF ClaimInv
  <2>2. ASSUME NEW r \in Requests, Executing(r, m) PROVE Holds(r, m)
    BY <2>2 DEF Staffed, Executing, Holds, Item
  <2> QED
    BY <2>1, <2>2 DEF NothingLost
<1>4. "valkey" \notin Faults
  OBVIOUS
<1>5. Init => Staffed
  BY DEF Init, Staffed
<1>6. IInv /\ Staffed /\ [Next]_vars => Staffed'
  BY StaffedStep DEF IInv
<1>7. Spec => [](IInv /\ CellsFromLedger /\ ClaimInv)
  BY <1>4, ClaimSafe
<1> QED
  BY <1>1, <1>2, <1>3, <1>5, <1>6, <1>7, PTL DEF Spec
=============================================================================
