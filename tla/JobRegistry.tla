----------------------------- MODULE JobRegistry -----------------------------
(***************************************************************************)
(* The registry of background jobs of an API worker (jobs.py,              *)
(* routers/jobs.py).                                                       *)
(*                                                                         *)
(* Every method runs under one lock, so each is a step.  What runs the     *)
(* jobs is not part of the repository: only the tests call mark_running,   *)
(* mark_succeeded and mark_failed.  A runner here looks a job up, starts   *)
(* it if it is PENDING or FAILED, and reports how it went; meanwhile the   *)
(* job may have been cancelled, recovered as stuck and started by another. *)
(***************************************************************************)
EXTENDS Naturals, Sequences, FiniteSets

CONSTANTS
  Jobs,          \* jobs of one job_type; each is submitted under a key of its own
  Limit,         \* BACKPRESSURE_LIMITS of the type
  Attempts,      \* max_attempts: MAX_RETRIES of the type and one
  MaxStarts,     \* bound on how often a job is started
  Runners,
  None

Status == {"PENDING", "RUNNING", "SUCCEEDED", "FAILED", "DEAD_LETTER", "CANCELLED"}
Job == [status : Status, attempts : 0..MaxStarts]

ASSUME JobAssumption ==
  /\ Limit \in Nat \ {0} /\ Attempts \in Nat \ {0} /\ MaxStarts \in Nat
  /\ IsFiniteSet(Jobs) /\ None \notin Jobs \cup Job

VARIABLES
  jobs,          \* _jobs and _idempotency_index
  pending,       \* _pending_by_type
  dead,          \* _dead_letter
  runner         \* what each runner has found or started

vars == <<jobs, pending, dead, runner>>

TypeOK ==
  /\ jobs \in [Jobs -> Job \cup {None}]
  /\ pending \subseteq Jobs
  /\ dead \in Seq(Jobs)
  /\ runner \in [Runners -> [at : {"idle", "found", "started"}, job : Jobs \cup {None}]]

Idle == [at |-> "idle", job |-> None]

Init ==
  /\ jobs = [j \in Jobs |-> None]
  /\ pending = {}
  /\ dead = <<>>
  /\ runner = [w \in Runners |-> Idle]

\* submit: a key that is known returns its job and changes nothing; a queue at
\* its limit refuses.
Submit(j) ==
  /\ jobs[j] = None
  /\ Cardinality(pending) < Limit
  /\ jobs' = [jobs EXCEPT ![j] = [status |-> "PENDING", attempts |-> 0]]
  /\ pending' = pending \cup {j}
  /\ UNCHANGED <<dead, runner>>

\* Mutant of Find: a runner starts whatever job it gets.
FindAny(w, j) ==
  /\ runner[w] = Idle
  /\ jobs[j] # None
  /\ runner' = [runner EXCEPT ![w] = [at |-> "found", job |-> j]]
  /\ UNCHANGED <<jobs, pending, dead>>

\* get_job does not take the lock.
Find(w, j) ==
  /\ runner[w] = Idle
  /\ jobs[j] # None /\ jobs[j].status \in {"PENDING", "FAILED"}
  /\ runner' = [runner EXCEPT ![w] = [at |-> "found", job |-> j]]
  /\ UNCHANGED <<jobs, pending, dead>>

\* mark_running, whatever the status is by now.
MarkRunning(w) ==
  /\ runner[w].at = "found"
  /\ LET j == runner[w].job
     IN /\ jobs[j].attempts < MaxStarts
        /\ jobs' = [jobs EXCEPT ![j] = [status |-> "RUNNING", attempts |-> @.attempts + 1]]
  /\ runner' = [runner EXCEPT ![w].at = "started"]
  /\ UNCHANGED <<pending, dead>>

\* mark_succeeded, whatever the status is by now.
MarkSucceeded(w) ==
  /\ runner[w].at = "started"
  /\ jobs' = [jobs EXCEPT ![runner[w].job].status = "SUCCEEDED"]
  /\ pending' = pending \ {runner[w].job}
  /\ runner' = [runner EXCEPT ![w] = Idle]
  /\ UNCHANGED dead

\* Mutant of MarkFailed: the initial attempt is not counted.
MarkFailedEarly(w) ==
  /\ runner[w].at = "started"
  /\ LET j == runner[w].job
     IN IF jobs[j].attempts + 1 >= Attempts
        THEN /\ jobs' = [jobs EXCEPT ![j].status = "DEAD_LETTER"]
             /\ dead' = Append(dead, j)
             /\ pending' = pending \ {j}
        ELSE jobs' = [jobs EXCEPT ![j].status = "FAILED"] /\ UNCHANGED <<pending, dead>>
  /\ runner' = [runner EXCEPT ![w] = Idle]

\* mark_failed: a job that has had its attempts goes to the dead letters, any
\* other keeps its place in the queue.
MarkFailed(w) ==
  /\ runner[w].at = "started"
  /\ LET j == runner[w].job
     IN IF jobs[j].attempts >= Attempts
        THEN /\ jobs' = [jobs EXCEPT ![j].status = "DEAD_LETTER"]
             /\ dead' = Append(dead, j)
             /\ pending' = pending \ {j}
        ELSE jobs' = [jobs EXCEPT ![j].status = "FAILED"] /\ UNCHANGED <<pending, dead>>
  /\ runner' = [runner EXCEPT ![w] = Idle]

\* Mutant of Cancel: the place in the queue is freed before the status is asked.
CancelFirst(j) ==
  /\ jobs[j] # None
  /\ pending' = pending \ {j}
  /\ jobs' = IF jobs[j].status = "FAILED" THEN [jobs EXCEPT ![j].status = "CANCELLED"] ELSE jobs
  /\ UNCHANGED <<dead, runner>>

\* cancel
Cancel(j) ==
  /\ jobs[j] # None /\ jobs[j].status \in {"PENDING", "FAILED"}
  /\ jobs' = [jobs EXCEPT ![j].status = "CANCELLED"]
  /\ pending' = pending \ {j}
  /\ UNCHANGED <<dead, runner>>

\* recover_stuck_jobs, for the jobs that have been RUNNING too long.  It leaves
\* the place in the queue to those it moves to the dead letters.
Recover(stuck) ==
  /\ stuck # {} /\ \A j \in stuck : jobs[j] # None /\ jobs[j].status = "RUNNING"
  /\ LET over == {j \in stuck : jobs[j].attempts >= Attempts}
     IN /\ jobs' = [j \in Jobs |->
                      IF j \in over THEN [jobs[j] EXCEPT !.status = "DEAD_LETTER"]
                      ELSE IF j \in stuck THEN [jobs[j] EXCEPT !.status = "FAILED"] ELSE jobs[j]]
        /\ \E order \in [1..Cardinality(over) -> over] :
             /\ \A j \in over : \E i \in DOMAIN order : order[i] = j
             /\ dead' = dead \o order
  /\ UNCHANGED <<pending, runner>>

\* A runner stops, or never comes to an end with its job.
Vanish(w) ==
  /\ runner[w] # Idle
  /\ runner' = [runner EXCEPT ![w] = Idle]
  /\ UNCHANGED <<jobs, pending, dead>>

Next ==
  \/ \E j \in Jobs : Submit(j) \/ Cancel(j) \/ \E w \in Runners : Find(w, j)
  \/ \E w \in Runners : MarkRunning(w) \/ MarkSucceeded(w) \/ MarkFailed(w) \/ Vanish(w)
  \/ \E stuck \in SUBSET Jobs : Recover(stuck)

Spec == Init /\ [][Next]_vars
-----------------------------------------------------------------------------
(* Properties *)

InDead(j) == \E i \in DOMAIN dead : dead[i] = j

\* However late results and recoveries interleave: a job comes to the dead
\* letters only after all its attempts, and one that is there by its status is
\* in the list.
DeadLetterEarned ==
  \A j \in Jobs :
    /\ InDead(j) => jobs[j] # None /\ jobs[j].attempts >= Attempts
    /\ jobs[j] # None /\ jobs[j].status = "DEAD_LETTER" => InDead(j)

\* A job that has succeeded or was cancelled stays so, once no runner is left
\* that found it earlier.
Closed(j) ==
  /\ jobs[j] # None /\ jobs[j].status \in {"SUCCEEDED", "CANCELLED"}
  /\ \A w \in Runners : runner[w].job # j

ClosedForGood == [][\A j \in Jobs : Closed(j) => Closed(j)']_vars

\* The back-pressure limit bounds jobs that are still to be done: a job that is
\* finished for good holds no place.
NoLeak == \A j \in pending : jobs[j].status \notin {"SUCCEEDED", "CANCELLED", "DEAD_LETTER"}
=============================================================================
