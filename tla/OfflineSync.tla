----------------------------- MODULE OfflineSync -----------------------------
(***************************************************************************)
(* Offline synchronisation of one user's mutations (ADR-004), end to end:  *)
(*                                                                         *)
(*   - the mobile client's durable outbox and its push coroutines, which   *)
(*     are not guarded against each other (sync_provider.dart,             *)
(*     sync_repository_impl.dart);                                         *)
(*   - POST /v1/sync/push in several API worker processes, one step per    *)
(*     await of process_push_mutations (repositories/sync.py): the Valkey  *)
(*     claim, the per-process cache, the outbox-table lookup, the domain   *)
(*     handler, the outbox insert, the reply, the commit of get_db;        *)
(*   - PostgreSQL seen through that code: one READ COMMITTED transaction   *)
(*     per request, unique keys that make a second writer wait for the     *)
(*     first, whole-transaction rollback, deadlock detection.              *)
(*                                                                         *)
(* Mutations are numbered in the order they are queued, the order in which *)
(* the UUIDv7 ids are generated and the outbox table is read back.  A      *)
(* mutation upserts at most one singleton row (a rating, a title state, a  *)
(* streak): its cell.  Notes and reviews are plain inserts with no cell.   *)
(* Seed fallback is off, as in every environment but local development.    *)
(***************************************************************************)
EXTENDS Naturals, FiniteSets

CONSTANTS
  NumMutations,   \* bound on the mutations the user records
  Requests,       \* push attempts that may be open at the same time
  Workers,        \* API worker processes
  NoWorker,       \* the request is not running
  Cells,          \* singleton rows that mutations upsert
  NoCell,         \* the mutation inserts a row of its own only
  CellOf,         \* the cell of each mutation
  Invalid,        \* mutations whose payload the domain handler refuses
  Unhandled,      \* mutations of a type no dispatch branch handles
  Faults          \* the faults that may happen

FaultKinds == {"network", "valkey", "db", "commit", "crash"}

Mutation == 1..NumMutations

ASSUME SyncAssumption ==
  /\ NumMutations \in Nat
  /\ NoWorker \notin Workers
  /\ NoCell \notin Cells
  /\ CellOf \in [Mutation -> Cells \cup {NoCell}]
  /\ Invalid \subseteq Mutation
  /\ Unhandled \subseteq Mutation
  /\ Faults \subseteq FaultKinds

VARIABLES
  \* the device
  outbox,      \* status of each mutation's row in the local outbox table
  flow,        \* push coroutines awaiting a reply
  \* the requests, each on one worker with one database session
  pc, worker,
  todo,        \* mutations of the batch not yet dealt with
  acked,       \* acknowledged_ids
  staged,      \* mutations whose effects the open transaction holds
  seen,        \* the handler's SELECT found the cell's row
  reply,       \* none | ok (with acked) | error
  \* memory of the server side
  keys,        \* idempotency keys held by Valkey
  cache,       \* PROCESSED_MUTATIONS_CACHE of each worker process
  \* committed state of the database
  rows,        \* personal.sync_outbox_mutation
  effects,     \* committed executions of each mutation's handler
  cell         \* last writer of each singleton row, 0 when there is none

clientVars  == <<outbox, flow>>
requestVars == <<pc, worker, todo, acked, staged, seen, reply>>
memoryVars  == <<keys, cache>>
dbVars      == <<rows, effects, cell>>
vars == <<clientVars, requestVars, memoryVars, dbVars>>

TypeOK ==
  /\ outbox \in [Mutation -> {"none", "PENDING", "SYNCED"}]
  /\ flow \in [Requests -> {"idle", "waiting"}]
  /\ pc \in [Requests -> {"idle", "claim", "lookup", "read", "write", "record", "commit"}]
  /\ worker \in [Requests -> Workers \cup {NoWorker}]
  /\ todo \in [Requests -> SUBSET Mutation]
  /\ acked \in [Requests -> SUBSET Mutation]
  /\ staged \in [Requests -> SUBSET Mutation]
  /\ seen \in [Requests -> BOOLEAN]
  /\ reply \in [Requests -> {"none", "ok", "error"}]
  /\ keys \subseteq Mutation
  /\ cache \in [Workers -> SUBSET Mutation]
  /\ rows \subseteq Mutation
  /\ effects \in [Mutation -> Nat]
  /\ cell \in [Cells -> 0..NumMutations]

Init ==
  /\ outbox = [m \in Mutation |-> "none"]
  /\ flow = [r \in Requests |-> "idle"]
  /\ pc = [r \in Requests |-> "idle"]
  /\ worker = [r \in Requests |-> NoWorker]
  /\ todo = [r \in Requests |-> {}]
  /\ acked = [r \in Requests |-> {}]
  /\ staged = [r \in Requests |-> {}]
  /\ seen = [r \in Requests |-> FALSE]
  /\ reply = [r \in Requests |-> "none"]
  /\ keys = {}
  /\ cache = [w \in Workers |-> {}]
  /\ rows = {}
  /\ effects = [m \in Mutation |-> 0]
  /\ cell = [c \in Cells |-> 0]
-----------------------------------------------------------------------------
(* The device *)

Pending == {m \in Mutation : outbox[m] = "PENDING"}

\* queueAndSync, first half: the next mutation gets its durable outbox row.
Queue(m) ==
  /\ outbox[m] = "none"
  /\ \A k \in 1..(m - 1) : outbox[k] # "none"
  /\ outbox' = [outbox EXCEPT ![m] = "PENDING"]
  /\ UNCHANGED <<flow, requestVars, memoryVars, dbVars>>

\* triggerSyncPush: read the pending rows and post them as one batch.  It is
\* called after a queue, on reconnect and from the sync screen, and nothing
\* stops it while an earlier push of the same rows is still open.
Push(r) ==
  /\ flow[r] = "idle" /\ pc[r] = "idle"
  /\ Pending # {}
  /\ flow' = [flow EXCEPT ![r] = "waiting"]
  /\ pc' = [pc EXCEPT ![r] = "claim"]
  /\ \E w \in Workers : worker' = [worker EXCEPT ![r] = w]
  /\ todo' = [todo EXCEPT ![r] = Pending]
  /\ UNCHANGED <<outbox, acked, staged, seen, reply, memoryVars, dbVars>>

\* The coroutine of r has its reply and ends.
TakeReply(r) ==
  /\ flow[r] = "waiting" /\ reply[r] # "none"
  /\ flow' = [flow EXCEPT ![r] = "idle"]
  /\ reply' = [reply EXCEPT ![r] = "none"]
  /\ acked' = [acked EXCEPT ![r] = {}]
  /\ UNCHANGED <<pc, worker, todo, staged, seen, memoryVars, dbVars>>

\* The rows of S get the given status.
MarkRows(S, status) ==
  outbox' = [m \in Mutation |-> IF m \in S THEN status ELSE outbox[m]]

\* Mutant of Receive: an error gives the pending rows a status of their own.
ReceiveMarksFailed(r) ==
  /\ TakeReply(r)
  /\ IF reply[r] = "ok" THEN MarkRows(acked[r], "SYNCED") ELSE MarkRows(Pending, "FAILED")

\* processOutboxSync, second half: acknowledged rows become SYNCED; a failed
\* mutation or an error leaves its row PENDING.
Receive(r) ==
  /\ TakeReply(r)
  /\ MarkRows(IF reply[r] = "ok" THEN acked[r] ELSE {}, "SYNCED")

\* The reply will not arrive: the connection drops, the call times out or the
\* app is killed.  The request itself runs on.  A reply lost on its way, or not
\* processed, shows in nothing from one that was given up just before.
LoseReply(r) ==
  /\ "network" \in Faults
  /\ flow[r] = "waiting" /\ reply[r] = "none"
  /\ flow' = [flow EXCEPT ![r] = "idle"]
  /\ UNCHANGED <<outbox, requestVars, memoryVars, dbVars>>
-----------------------------------------------------------------------------
(* One request *)

\* m is the item the request's loop is at, in batch order.
Item(r, m) == m \in todo[r] /\ \A k \in todo[r] : m <= k

\* The item is acknowledged and the loop goes on.
Acknowledge(r, m) ==
  /\ acked' = [acked EXCEPT ![r] = @ \cup {m}]
  /\ todo' = [todo EXCEPT ![r] = @ \ {m}]
  /\ pc' = [pc EXCEPT ![r] = "claim"]

\* The item goes to failed_mutations and the loop goes on; earlier
\* acknowledgements stay in the list.
Fail(r, m) ==
  /\ todo' = [todo EXCEPT ![r] = @ \ {m}]
  /\ pc' = [pc EXCEPT ![r] = "claim"]
  /\ UNCHANGED acked

\* db.rollback(): everything this request has done so far is undone.
Rollback(r) == staged' = [staged EXCEPT ![r] = {}]

\* The reply goes to the caller, with acknowledged_ids when it is ok, or is
\* dropped when the caller has gone.
Reply(r, kind) ==
  LET heard == flow[r] = "waiting"
  IN /\ reply' = [reply EXCEPT ![r] = IF heard THEN kind ELSE "none"]
     /\ acked' = [acked EXCEPT ![r] = IF heard /\ kind = "ok" THEN @ ELSE {}]

\* The request has ended and its worker turns to others.
Close(r) ==
  /\ pc' = [pc EXCEPT ![r] = "idle"]
  /\ worker' = [worker EXCEPT ![r] = NoWorker]

\* The transaction holds a lock on the row of cell c, or on m's outbox row.
HoldsCell(r, c) == \E m \in staged[r] \ Unhandled : CellOf[m] = c /\ c # NoCell
HoldsRow(r, m)  == m \in staged[r] /\ ~(pc[r] = "record" /\ Item(r, m))

\* Transactions that r must wait for before its next statement completes.
Blockers(r) ==
  {q \in Requests \ {r} :
     \E m \in todo[r] : Item(r, m) /\ \/ pc[r] = "write" /\ HoldsCell(q, CellOf[m])
                                      \/ pc[r] = "record" /\ HoldsRow(q, m)}

\* Mutant of Claim: the key is looked up but not set.
ClaimWithoutSet(r, m) ==
  /\ pc[r] = "claim" /\ Item(r, m)
  /\ IF m \notin keys \cup cache[worker[r]]
     THEN pc' = [pc EXCEPT ![r] = "lookup"] /\ UNCHANGED <<acked, todo>>
     ELSE Acknowledge(r, m)
  /\ UNCHANGED <<clientVars, worker, staged, seen, reply, memoryVars, dbVars>>

\* Mutant of Claim: a duplicate is reported as failed.
ClaimFailsDuplicate(r, m) ==
  /\ pc[r] = "claim" /\ Item(r, m)
  /\ keys' = keys \cup {m}
  /\ IF m \notin keys \cup cache[worker[r]]
     THEN pc' = [pc EXCEPT ![r] = "lookup"] /\ UNCHANGED <<acked, todo>>
     ELSE Fail(r, m)
  /\ UNCHANGED <<clientVars, worker, staged, seen, reply, cache, dbVars>>

\* check_and_set_idempotency and the process cache, with no await between
\* them.  When Valkey cannot be reached the key counts as new, and it may or
\* may not have been set.
Claim(r, m) ==
  /\ pc[r] = "claim" /\ Item(r, m)
  /\ \E isNew \in BOOLEAN :
       /\ \/ isNew = (m \notin keys) /\ keys' = keys \cup {m}
          \/ "valkey" \in Faults /\ isNew /\ keys' \in {keys, keys \cup {m}}
       /\ IF isNew /\ m \notin cache[worker[r]]
          THEN pc' = [pc EXCEPT ![r] = "lookup"] /\ UNCHANGED <<acked, todo>>
          ELSE Acknowledge(r, m)
  /\ UNCHANGED <<clientVars, worker, staged, seen, reply, cache, dbVars>>

\* SELECT from sync_outbox_mutation: a committed row means a duplicate.
Lookup(r, m) ==
  /\ pc[r] = "lookup" /\ Item(r, m)
  /\ IF m \in rows
     THEN Acknowledge(r, m)
     ELSE pc' = [pc EXCEPT ![r] = "read"] /\ UNCHANGED <<acked, todo>>
  /\ UNCHANGED <<clientVars, worker, staged, seen, reply, memoryVars, dbVars>>

\* That SELECT fails: rollback, and the exception leaves the endpoint, since
\* it is raised outside the per-item try.
LookupFails(r, m) ==
  /\ "db" \in Faults
  /\ pc[r] = "lookup" /\ Item(r, m)
  /\ Rollback(r)
  /\ todo' = [todo EXCEPT ![r] = {}]
  /\ Reply(r, "error")
  /\ Close(r)
  /\ UNCHANGED <<clientVars, seen, memoryVars, dbVars>>

\* Mutant of Refuse: the whole transaction is rolled back.
RefuseRollsBack(r, m) ==
  /\ pc[r] = "read" /\ Item(r, m)
  /\ m \in Invalid \ Unhandled
  /\ Fail(r, m)
  /\ Rollback(r)
  /\ UNCHANGED <<clientVars, worker, seen, reply, memoryVars, dbVars>>

\* The payload is refused with a ValueError: no rollback, the item fails.
Refuse(r, m) ==
  /\ pc[r] = "read" /\ Item(r, m)
  /\ m \in Invalid \ Unhandled
  /\ Fail(r, m)
  /\ UNCHANGED <<clientVars, worker, staged, seen, reply, memoryVars, dbVars>>

\* No branch of the dispatch matches: nothing is executed and the mutation is
\* remembered as processed.
FallThrough(r, m) ==
  /\ pc[r] = "read" /\ Item(r, m)
  /\ m \in Unhandled
  /\ staged' = [staged EXCEPT ![r] = @ \cup {m}]
  /\ cache' = [cache EXCEPT ![worker[r]] = @ \cup {m}]
  /\ pc' = [pc EXCEPT ![r] = "record"]
  /\ UNCHANGED <<clientVars, worker, todo, acked, seen, reply, keys, dbVars>>

\* The handler's SELECT: is there already a row to update?
ReadCell(r, m) ==
  /\ pc[r] = "read" /\ Item(r, m)
  /\ m \notin Invalid \cup Unhandled
  /\ LET c == CellOf[m]
     IN seen' = [seen EXCEPT ![r] = /\ c # NoCell
                                    /\ cell[c] # 0 \/ HoldsCell(r, c)]
  /\ pc' = [pc EXCEPT ![r] = "write"]
  /\ UNCHANGED <<clientVars, worker, todo, acked, staged, reply, memoryVars, dbVars>>

\* The row that the SELECT missed has been committed since: the INSERT meets
\* the unique key.
InsertConflict(r, m) ==
  /\ CellOf[m] # NoCell
  /\ ~seen[r] /\ cell[CellOf[m]] # 0

\* The handler's flush.  It waits while another transaction holds the row.
WriteCell(r, m) ==
  /\ pc[r] = "write" /\ Item(r, m)
  /\ Blockers(r) = {}
  /\ IF InsertConflict(r, m)
     THEN Rollback(r) /\ Fail(r, m) /\ UNCHANGED cache
     ELSE /\ staged' = [staged EXCEPT ![r] = @ \cup {m}]
          /\ cache' = [cache EXCEPT ![worker[r]] = @ \cup {m}]
          /\ pc' = [pc EXCEPT ![r] = "record"]
          /\ UNCHANGED <<todo, acked>>
  /\ seen' = [seen EXCEPT ![r] = FALSE]
  /\ UNCHANGED <<clientVars, worker, reply, keys, dbVars>>

\* Mutant of Record: a row that is already there is overwritten.
RecordUpserts(r, m) ==
  /\ pc[r] = "record" /\ Item(r, m)
  /\ Blockers(r) = {}
  /\ Acknowledge(r, m)
  /\ UNCHANGED <<clientVars, worker, staged, seen, reply, memoryVars, dbVars>>

\* INSERT into sync_outbox_mutation, then the acknowledgement.  The primary key
\* makes it wait for, and then lose to, a concurrent execution of m.
Record(r, m) ==
  /\ pc[r] = "record" /\ Item(r, m)
  /\ Blockers(r) = {}
  /\ IF m \in rows
     THEN Rollback(r) /\ Fail(r, m)
     ELSE Acknowledge(r, m) /\ UNCHANGED staged
  /\ UNCHANGED <<clientVars, worker, seen, reply, memoryVars, dbVars>>

\* Transactions waiting for each other in a circle.
Deadlocked(r) ==
  \E S \in SUBSET Requests :
    /\ r \in S
    /\ \A q \in S : Blockers(q) \cap S # {} /\ \E p \in S : q \in Blockers(p)

\* A statement of the handler or the outbox insert fails: PostgreSQL breaks a
\* deadlock, or the database misbehaves.  The transaction is rolled back and
\* the item fails.
StatementFails(r, m) ==
  /\ pc[r] \in {"write", "record"} /\ Item(r, m)
  /\ "db" \in Faults \/ Deadlocked(r)
  /\ Rollback(r)
  /\ Fail(r, m)
  /\ seen' = [seen EXCEPT ![r] = FALSE]
  /\ UNCHANGED <<clientVars, worker, reply, memoryVars, dbVars>>

\* The endpoint returns and the response is sent; the dependency get_db commits
\* only afterwards.
Answer(r) ==
  /\ pc[r] = "claim" /\ todo[r] = {}
  /\ Reply(r, "ok")
  /\ pc' = [pc EXCEPT ![r] = "commit"]
  /\ UNCHANGED <<clientVars, worker, todo, staged, seen, memoryVars, dbVars>>

\* Staged writers of cell c; the last of the batch is the one that stays.
Writers(r, c) == {m \in staged[r] \ Unhandled : CellOf[m] = c}

\* The transaction's upserts and its executions become visible.
Upsert(r) ==
  cell' = [c \in Cells |->
             IF Writers(r, c) = {} THEN cell[c]
             ELSE CHOOSE m \in Writers(r, c) : \A k \in Writers(r, c) : k <= m]

Execute(r) ==
  effects' = [m \in Mutation |->
                IF m \in staged[r] \ Unhandled THEN effects[m] + 1 ELSE effects[m]]

\* Mutant of Commit: the session is not reset for its next user.
CommitKeepsSession(r) ==
  /\ pc[r] = "commit"
  /\ rows' = rows \cup staged[r]
  /\ Execute(r)
  /\ Upsert(r)
  /\ Close(r)
  /\ UNCHANGED <<clientVars, todo, acked, staged, seen, reply, memoryVars>>

Commit(r) ==
  /\ pc[r] = "commit"
  /\ rows' = rows \cup staged[r]
  /\ Execute(r)
  /\ Upsert(r)
  /\ Rollback(r)
  /\ Close(r)
  /\ UNCHANGED <<clientVars, todo, acked, seen, reply, memoryVars>>

\* Mutant of CommitFails: the outbox rows had a transaction of their own.
CommitFailsRowsStay(r) ==
  /\ "commit" \in Faults
  /\ pc[r] = "commit"
  /\ rows' = rows \cup staged[r]
  /\ Rollback(r)
  /\ Close(r)
  /\ UNCHANGED <<clientVars, todo, acked, seen, reply, memoryVars, effects, cell>>

\* Mutant of CommitFails: the upserts of the handlers were committed one by one.
CommitFailsCellsStay(r) ==
  /\ "commit" \in Faults
  /\ pc[r] = "commit"
  /\ Upsert(r)
  /\ Rollback(r)
  /\ Close(r)
  /\ UNCHANGED <<clientVars, todo, acked, seen, reply, memoryVars, rows, effects>>

CommitFails(r) ==
  /\ "commit" \in Faults
  /\ pc[r] = "commit"
  /\ Rollback(r)
  /\ Close(r)
  /\ UNCHANGED <<clientVars, todo, acked, seen, reply, memoryVars, dbVars>>
-----------------------------------------------------------------------------
(* The environment *)

\* A worker process dies: its sessions are rolled back by PostgreSQL, its cache
\* is gone, callers not yet answered get a connection error.
Crash(w) ==
  /\ "crash" \in Faults
  /\ LET down == {r \in Requests : worker[r] = w}
         unanswered == {r \in down : pc[r] # "commit"}
     IN /\ pc' = [r \in Requests |-> IF r \in down THEN "idle" ELSE pc[r]]
        /\ worker' = [r \in Requests |-> IF r \in down THEN NoWorker ELSE worker[r]]
        /\ staged' = [r \in Requests |-> IF r \in down THEN {} ELSE staged[r]]
        /\ seen' = [r \in Requests |-> seen[r] /\ r \notin down]
        /\ todo' = [r \in Requests |-> IF r \in down THEN {} ELSE todo[r]]
        /\ acked' = [r \in Requests |-> IF r \in unanswered THEN {} ELSE acked[r]]
        /\ reply' = [r \in Requests |->
                       IF r \in unanswered /\ flow[r] = "waiting" THEN "error" ELSE reply[r]]
  /\ cache' = [cache EXCEPT ![w] = {}]
  /\ UNCHANGED <<clientVars, keys, dbVars>>

\* A key reaches its 24 h time to live, or Valkey restarts without it.
ForgetKey(m) ==
  /\ "valkey" \in Faults
  /\ m \in keys
  /\ keys' = keys \ {m}
  /\ UNCHANGED <<clientVars, requestVars, cache, dbVars>>

\* Nothing is left to do: the only way the system may stand still.
Quiescent == Pending = {} /\ \A r \in Requests : pc[r] = "idle" /\ flow[r] = "idle"
Rest == Quiescent /\ UNCHANGED vars
-----------------------------------------------------------------------------
ServerStep(r) ==
  \/ \E m \in Mutation :
       \/ Claim(r, m) \/ Lookup(r, m) \/ LookupFails(r, m)
       \/ Refuse(r, m) \/ FallThrough(r, m)
       \/ ReadCell(r, m) \/ WriteCell(r, m)
       \/ Record(r, m) \/ StatementFails(r, m)
  \/ Answer(r) \/ Commit(r) \/ CommitFails(r)

Next ==
  \/ \E m \in Mutation : Queue(m) \/ ForgetKey(m)
  \/ \E r \in Requests : Push(r) \/ Receive(r) \/ LoseReply(r) \/ ServerStep(r)
  \/ \E w \in Workers : Crash(w)
  \/ Rest

Spec == Init /\ [][Next]_vars

\* Requests run to completion, a reply that has arrived is processed, and the
\* app keeps being triggered to push while it has pending rows.
Fairness ==
  \A r \in Requests : WF_vars(ServerStep(r)) /\ WF_vars(Receive(r)) /\ WF_vars(Push(r))

\* The network may lose replies for as long as it likes, but not for ever.
NetworkRecovers == <>[][\A r \in Requests : ~LoseReply(r)]_vars

FairSpec == Spec /\ Fairness /\ NetworkRecovers
-----------------------------------------------------------------------------
(* Properties *)

\* Mutations whose outbox row the transaction of r has inserted.
Recorded(r) == {m \in staged[r] : HoldsRow(r, m)}

\* r is responsible for m: m is in its batch, not dealt with or not committed.
Holds(r, m) == pc[r] # "idle" /\ m \in todo[r] \cup staged[r]

\* Retrying never repeats an effect: whatever the interleaving of retries on
\* several workers, lost keys, crashes and failed commits, the handler's effect
\* of a mutation is committed at most once.  (ADR-004: "retrying the same
\* operation does not create duplicate effects".)
AtMostOnce == \A m \in Mutation : effects[m] <= 1

\* The outbox table never disagrees with the data: a mutation has its
\* PROCESSED row exactly when its effect is there, across rollbacks of half-done
\* batches.  Types without a handler have a row and no effect.
LedgerMatchesData ==
  \A m \in Mutation : effects[m] = (IF m \in rows \ Unhandled THEN 1 ELSE 0)

\* Two open transactions never both hold the outbox row of a mutation, and
\* none holds one that is committed: the unique key arbitrates every race that
\* Valkey let through.
RowsExclusive ==
  \A r \in Requests :
    /\ Recorded(r) \cap rows = {}
    /\ \A q \in Requests \ {r} : Recorded(r) \cap Recorded(q) = {}

\* A singleton row always shows a value some committed mutation gave it, and a
\* batch in progress is never partly visible in it.
CellsFromLedger ==
  \A c \in Cells : cell[c] # 0 => CellOf[cell[c]] = c /\ effects[cell[c]] = 1

\* m is still sent by the device, or has taken effect, or may yet be committed
\* by a request working on it.
Safe(m) == outbox[m] = "SYNCED" => effects[m] = 1 \/ \E r \in Requests : Holds(r, m)

\* No silent loss: once the device has stopped sending a mutation, the mutation
\* has taken effect or a request still working on it may yet commit it.
\* (ADR-004: "User-owned data remains ... protected from silent loss".)
NoSilentLoss == \A m \in Mutation : Safe(m)

\* One item of a batch that its handler refuses, or that no handler takes, does
\* not cost the batch its other items: they are never acknowledged and lost.
RefusalIsolated == \A m \in Mutation \ (Invalid \cup Unhandled) : Safe(m)

\* While Valkey answers, concurrent pushes of the same rows are told apart by
\* the claim: one request at most is executing a given mutation.
SingleExecutor ==
  \A m \in Mutation :
    Cardinality({r \in Requests : m \in staged[r] \/
                    (pc[r] \in {"lookup", "read", "write", "record"} /\ Item(r, m))}) <= 1

\* Every queued mutation that a handler accepts is in the end applied, and its
\* row leaves the pending outbox, refused items in the same batches or not.
Delivered ==
  \A m \in Mutation \ (Invalid \cup Unhandled) :
    outbox[m] = "PENDING" ~> (outbox[m] = "SYNCED" /\ effects[m] = 1)

\* The protocol implements the ledger: every step queues one mutation, gives a
\* set of mutations their first effect, settles acknowledged mutations on the
\* device, or changes nothing the user sees.
Ledger == INSTANCE MutationLedger WITH Mutation <- Mutation, outbox <- outbox, effects <- effects
RefinesLedger == Ledger!Spec
=============================================================================
