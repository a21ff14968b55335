-------------------------- MODULE OperationsProofs --------------------------
(***************************************************************************)
(* Safety of what runs beside the requests: of the job registry for any    *)
(* number of jobs, runners, attempts and places, and of the refreshes and  *)
(* bulk imports for any number of workers and titles, although a refresh   *)
(* that has lost its lock runs on beside the next one.  A runner keeps the *)
(* id of a job and nothing else: its invariant is inductive because ids    *)
(* are of jobs that exist.  The argument for FreshImport is about days:    *)
(* whatever the refreshes' directory holds, or is being written to it, is  *)
(* as new as every refresh that is running, since each begins by           *)
(* unlinking.  A sync of artwork forgets no title because the batch that   *)
(* LIMIT did not fill is all there was: the argument counts the titles     *)
(* that are ahead of another one.                                          *)
(***************************************************************************)
EXTENDS MCOperations, SequenceTheorems, FiniteSetTheorems, TLAPS

-----------------------------------------------------------------------------
(* The job registry *)

\* What a runner holds is a job that was submitted.
Known ==
  \A w \in Runners : IF runner[w].at = "idle" THEN runner[w].job = None
                     ELSE runner[w].job \in Jobs /\ jobs[runner[w].job] # None

IInv == TypeOK /\ Known /\ DeadLetterEarned

-----------------------------------------------------------------------------
(* Lemmas on the list of dead letters *)

LEMMA Buried ==
  ASSUME TypeOK, NEW j \in Jobs, dead' = Append(dead, j)
  PROVE  /\ dead' \in Seq(Jobs)
         /\ \A k \in Jobs : InDead(k)' <=> InDead(k) \/ k = j
<1>1. dead \in Seq(Jobs)
  BY DEF TypeOK
<1>2. /\ dead' \in Seq(Jobs) /\ Len(dead') = Len(dead) + 1
      /\ \A i \in 1..Len(dead) : dead'[i] = dead[i]
      /\ dead'[Len(dead) + 1] = j
  BY <1>1
<1>3. DOMAIN dead = 1..Len(dead) /\ DOMAIN dead' = 1..(Len(dead) + 1) /\ Len(dead) \in Nat
  BY <1>1, <1>2
<1> QED
  BY <1>2, <1>3 DEF InDead

LEMMA BuriedAll ==
  ASSUME TypeOK, NEW over \in SUBSET Jobs, NEW n \in Nat, NEW order \in [1..n -> over],
         \A j \in over : \E i \in DOMAIN order : order[i] = j,
         dead' = dead \o order
  PROVE  /\ dead' \in Seq(Jobs)
         /\ \A k \in Jobs : InDead(k)' <=> InDead(k) \/ k \in over
<1>1. dead \in Seq(Jobs)
  BY DEF TypeOK
<1>2. order \in Seq(Jobs) /\ Len(order) = n /\ DOMAIN order = 1..n
  <2>1. order \in Seq(over)
    OBVIOUS
  <2> QED
    BY <2>1
<1>3. /\ dead' \in Seq(Jobs) /\ Len(dead') = Len(dead) + n
      /\ \A i \in 1..(Len(dead) + n) :
           dead'[i] = IF i <= Len(dead) THEN dead[i] ELSE order[i - Len(dead)]
  <2>1. ASSUME NEW d \in Seq(Jobs), NEW e \in Seq(Jobs)
        PROVE  /\ d \o e \in Seq(Jobs) /\ Len(d \o e) = Len(d) + Len(e)
               /\ \A i \in 1..(Len(d) + Len(e)) :
                    (d \o e)[i] = IF i <= Len(d) THEN d[i] ELSE e[i - Len(d)]
    BY ConcatProperties
  <2>2. /\ dead \o order \in Seq(Jobs) /\ Len(dead \o order) = Len(dead) + n
        /\ \A i \in 1..(Len(dead) + n) :
             (dead \o order)[i] = IF i <= Len(dead) THEN dead[i] ELSE order[i - Len(dead)]
    BY <1>1, <1>2, <2>1, Zenon
  <2> QED
    BY <2>2, Zenon
<1>4. DOMAIN dead = 1..Len(dead) /\ DOMAIN dead' = 1..(Len(dead) + n) /\ Len(dead) \in Nat
  BY <1>1, <1>3
<1>5. ASSUME NEW k \in Jobs, InDead(k)'
      PROVE  InDead(k) \/ k \in over
  <2>1. PICK i \in 1..(Len(dead) + n) : dead'[i] = k
    BY <1>4, <1>5 DEF InDead
  <2>2. CASE i <= Len(dead)
    <3>1. i \in 1..Len(dead) /\ dead[i] = k
      BY <1>3, <1>4, <2>1, <2>2
    <3> QED
      BY <1>4, <3>1 DEF InDead
  <2>3. CASE i > Len(dead)
    <3>1. i - Len(dead) \in 1..n
      BY <1>4, <2>3
    <3> QED
      BY <1>3, <1>4, <2>1, <2>3, <3>1
  <2> QED
    BY <1>4, <2>2, <2>3
<1>6. ASSUME NEW k \in Jobs, InDead(k)
      PROVE  InDead(k)'
  <2>1. PICK i \in 1..Len(dead) : dead[i] = k
    BY <1>4, <1>6 DEF InDead
  <2>2. i \in 1..(Len(dead) + n) /\ dead'[i] = k
    BY <1>3, <1>4, <2>1
  <2> QED
    BY <1>4, <2>2 DEF InDead
<1>7. ASSUME NEW k \in over
      PROVE  InDead(k)'
  <2>1. PICK i \in 1..n : order[i] = k
    BY <1>2
  <2>2. Len(dead) + i \in 1..(Len(dead) + n) /\ dead'[Len(dead) + i] = k
    BY <1>3, <1>4, <2>1
  <2> QED
    BY <1>4, <2>2 DEF InDead
<1> QED
  BY <1>3, <1>5, <1>6, <1>7
-----------------------------------------------------------------------------
(* Lemmas on the jobs *)

\* What a change of status leaves alone.
Restated(j, s) ==
  /\ jobs' \in [Jobs -> Job \cup {None}]
  /\ \A k \in Jobs \ {j} : jobs'[k] = jobs[k]
  /\ jobs'[j] # None /\ jobs'[j].status = s /\ jobs'[j].attempts = jobs[j].attempts

LEMMA StatusSet ==
  ASSUME TypeOK, NEW j \in Jobs, jobs[j] # None, NEW s \in Status,
         jobs' = [jobs EXCEPT ![j].status = s]
  PROVE  Restated(j, s)
<1> DEFINE row == [jobs[j] EXCEPT !.status = s]
<1>1. jobs[j] \in Job
  BY DEF TypeOK
<1>2. row \in Job /\ row.status = s /\ row.attempts = jobs[j].attempts
  BY <1>1 DEF Job
<1>3. row # None
  BY <1>2, JobAssumption
<1>4. jobs' = [jobs EXCEPT ![j] = row]
  OBVIOUS
<1> HIDE DEF row
<1> QED
  BY <1>2, <1>3, <1>4 DEF TypeOK, Restated
-----------------------------------------------------------------------------
(* Each step *)

LEMMA InitSafe == ASSUME Init PROVE IInv
  BY JobAssumption DEF Init, IInv, TypeOK, Known, Idle, DeadLetterEarned, InDead, Job, Status

\* Steps that leave the dead letters as they are and neither take attempts away
\* nor make a status DEAD_LETTER.
Harmless ==
  /\ dead' = dead
  /\ \A j \in Jobs : jobs[j] # None =>
       /\ jobs'[j] # None /\ jobs'[j].attempts >= jobs[j].attempts
       /\ jobs'[j].status = "DEAD_LETTER" => jobs[j].status = "DEAD_LETTER"
  /\ \A j \in Jobs : jobs[j] = None /\ jobs'[j] # None => jobs'[j].status # "DEAD_LETTER"

LEMMA HarmlessSafe ==
  ASSUME IInv, TypeOK', Harmless
  PROVE  DeadLetterEarned'
<1> SUFFICES ASSUME NEW j \in Jobs
             PROVE  /\ InDead(j)' => jobs'[j] # None /\ jobs'[j].attempts >= Attempts
                    /\ jobs'[j] # None /\ jobs'[j].status = "DEAD_LETTER" => InDead(j)'
  BY DEF DeadLetterEarned
<1>1. InDead(j)' <=> InDead(j)
  BY DEF Harmless, InDead
<1>2. jobs[j] # None => jobs[j].attempts \in Nat /\ jobs'[j] # None /\ jobs'[j].attempts \in Nat
  BY JobAssumption DEF IInv, TypeOK, Job, Harmless
<1> QED
  BY <1>1, <1>2, JobAssumption DEF IInv, DeadLetterEarned, Harmless

LEMMA StepSafe == ASSUME IInv, [Next]_vars PROVE IInv'
<1> USE JobAssumption
<1> USE DEF IInv
<1>1. ASSUME NEW j \in Jobs, Submit(j) PROVE IInv'
  <2>1. TypeOK' /\ Known'
    BY <1>1 DEF Submit, TypeOK, Known, Job, Status
  <2>2. Harmless
    BY <1>1 DEF Submit, Harmless, TypeOK, Job
  <2> QED
    BY <2>1, <2>2, HarmlessSafe
<1>2. ASSUME NEW j \in Jobs, Cancel(j) PROVE IInv'
  <2>1. Restated(j, "CANCELLED") /\ dead' = dead /\ runner' = runner /\ pending' = pending \ {j}
    BY <1>2, StatusSet DEF Cancel, Status
  <2>2. TypeOK' /\ Known'
    BY <2>1 DEF Restated, TypeOK, Known
  <2>3. Harmless
    BY <2>1 DEF Restated, Harmless, TypeOK, Job
  <2> QED
    BY <2>2, <2>3, HarmlessSafe
<1>3. ASSUME NEW w \in Runners, NEW j \in Jobs, Find(w, j) PROVE IInv'
  <2>1. TypeOK' /\ Known'
    BY <1>3 DEF Find, Idle, TypeOK, Known
  <2>2. Harmless
    BY <1>3 DEF Find, Harmless, TypeOK, Job
  <2> QED
    BY <2>1, <2>2, HarmlessSafe
<1>4. ASSUME NEW w \in Runners, MarkRunning(w) PROVE IInv'
  <2> DEFINE j == runner[w].job
             row == [status |-> "RUNNING", attempts |-> jobs[j].attempts + 1]
  <2>1. j \in Jobs /\ jobs[j] \in Job /\ jobs[j] # None
    BY <1>4 DEF MarkRunning, Known, TypeOK
  <2>2. row \in Job /\ row # None
    BY <1>4, <2>1 DEF MarkRunning, Job, Status
  <2>3. /\ jobs' = [jobs EXCEPT ![j] = row] /\ runner' = [runner EXCEPT ![w].at = "started"]
        /\ dead' = dead /\ pending' = pending
    BY <1>4, <2>1 DEF MarkRunning, TypeOK
  <2>4. row.attempts >= jobs[j].attempts /\ row.status = "RUNNING"
    BY <2>1 DEF Job
  <2> HIDE DEF row, j
  <2>5. TypeOK'
    BY <2>1, <2>2, <2>3 DEF TypeOK
  <2>6. Known'
    BY <2>1, <2>2, <2>3 DEF TypeOK, Known, j
  <2>7. Harmless
    BY <2>1, <2>2, <2>3, <2>4 DEF Harmless, TypeOK, Job
  <2> QED
    BY <2>5, <2>6, <2>7, HarmlessSafe
<1>5. ASSUME NEW w \in Runners, MarkSucceeded(w) PROVE IInv'
  <2> DEFINE j == runner[w].job
  <2>1. j \in Jobs /\ jobs[j] # None
    BY <1>5 DEF MarkSucceeded, Known
  <2>2. /\ Restated(j, "SUCCEEDED") /\ dead' = dead /\ pending' = pending \ {j}
        /\ runner' = [runner EXCEPT ![w] = Idle]
    BY <1>5, <2>1, StatusSet DEF MarkSucceeded, Status
  <2> HIDE DEF j
  <2>3. TypeOK' /\ Known'
    BY <2>1, <2>2 DEF Restated, Idle, TypeOK, Known
  <2>4. Harmless
    BY <2>1, <2>2 DEF Restated, Harmless, TypeOK, Job
  <2> QED
    BY <2>3, <2>4, HarmlessSafe
<1>6. ASSUME NEW w \in Runners, MarkFailed(w) PROVE IInv'
  <2> DEFINE j == runner[w].job
  <2>1. j \in Jobs /\ jobs[j] # None
    BY <1>6 DEF MarkFailed, Known
  <2>2. runner' = [runner EXCEPT ![w] = Idle]
    BY <1>6 DEF MarkFailed
  <2>3. CASE jobs[j].attempts >= Attempts
    <3>1. /\ jobs' = [jobs EXCEPT ![j].status = "DEAD_LETTER"] /\ dead' = Append(dead, j)
          /\ pending' = pending \ {j}
      BY <1>6, <2>3 DEF MarkFailed
    <3>2. Restated(j, "DEAD_LETTER")
      BY <2>1, <3>1, StatusSet DEF Status
    <3>3. /\ dead' \in Seq(Jobs)
          /\ \A k \in Jobs : InDead(k)' <=> InDead(k) \/ k = j
      BY <2>1, <3>1, Buried
    <3> HIDE DEF j
    <3>4. TypeOK' /\ Known'
      BY <2>1, <2>2, <3>1, <3>2, <3>3 DEF Restated, TypeOK, Known, Idle
    <3>5. DeadLetterEarned'
      BY <2>1, <2>3, <3>2, <3>3 DEF Restated, DeadLetterEarned
    <3> QED
      BY <3>4, <3>5
  <2>4. CASE ~(jobs[j].attempts >= Attempts)
    <3>1. jobs' = [jobs EXCEPT ![j].status = "FAILED"] /\ dead' = dead /\ pending' = pending
      BY <1>6, <2>4 DEF MarkFailed
    <3>2. Restated(j, "FAILED")
      BY <2>1, <3>1, StatusSet DEF Status
    <3> HIDE DEF j
    <3>3. TypeOK' /\ Known'
      BY <2>1, <2>2, <3>1, <3>2 DEF Restated, TypeOK, Known, Idle
    <3>4. Harmless
      BY <2>1, <3>1, <3>2 DEF Restated, Harmless, TypeOK, Job
    <3> QED
      BY <3>3, <3>4, HarmlessSafe
  <2> QED
    BY <2>3, <2>4
<1>7. ASSUME NEW stuck \in SUBSET Jobs, Recover(stuck) PROVE IInv'
  <2> DEFINE over == {j \in stuck : jobs[j].attempts >= Attempts}
  <2>1. /\ \A j \in stuck : jobs[j] # None /\ jobs[j].status = "RUNNING"
        /\ jobs' = [j \in Jobs |->
                      IF j \in over THEN [jobs[j] EXCEPT !.status = "DEAD_LETTER"]
                      ELSE IF j \in stuck THEN [jobs[j] EXCEPT !.status = "FAILED"] ELSE jobs[j]]
        /\ pending' = pending /\ runner' = runner
    BY <1>7 DEF Recover
  <2>2. /\ dead' \in Seq(Jobs)
        /\ \A k \in Jobs : InDead(k)' <=> InDead(k) \/ k \in over
    <3>1. IsFiniteSet(over)
      BY <1>7, JobAssumption, FS_Subset DEF Recover
    <3>2. Cardinality(over) \in Nat
      BY <3>1, FS_CardinalityType
    <3>3. PICK order \in [1..Cardinality(over) -> over] :
            (\A j \in over : \E i \in DOMAIN order : order[i] = j) /\ dead' = dead \o order
      BY <1>7 DEF Recover
    <3>4. over \in SUBSET Jobs
      OBVIOUS
    <3> HIDE DEF over
    <3> QED
      BY <3>2, <3>3, <3>4, BuriedAll
  <2>3. over \subseteq stuck /\ \A j \in over : jobs[j].attempts >= Attempts
    OBVIOUS
  <2> HIDE DEF over
  <2>4. \A j \in stuck : jobs[j] \in Job /\ jobs'[j] \in Job /\ jobs'[j].attempts = jobs[j].attempts
    BY <2>1 DEF TypeOK, Job, Status
  <2>5. \A j \in Jobs \ stuck : jobs'[j] = jobs[j]
    BY <2>1, <2>3
  <2>6. \A j \in stuck : jobs'[j] # None /\ (jobs'[j].status = "DEAD_LETTER" => j \in over)
    BY <2>1, <2>3, <2>4 DEF Job
  <2>7. TypeOK'
    BY <2>1, <2>2, <2>4, <2>5 DEF TypeOK
  <2>8. Known'
    BY <2>1, <2>5, <2>6 DEF Known
  <2>9. DeadLetterEarned'
    BY <2>2, <2>3, <2>4, <2>5, <2>6 DEF DeadLetterEarned
  <2> QED
    BY <2>7, <2>8, <2>9
<1>8. ASSUME NEW w \in Runners, Vanish(w) PROVE IInv'
  <2>1. TypeOK' /\ Known'
    BY <1>8 DEF Vanish, Idle, TypeOK, Known
  <2>2. Harmless
    BY <1>8 DEF Vanish, Harmless, TypeOK, Job
  <2> QED
    BY <2>1, <2>2, HarmlessSafe
<1>9. ASSUME UNCHANGED vars PROVE IInv'
  BY <1>9 DEF vars, TypeOK, Known, DeadLetterEarned, InDead
<1> QED
  BY <1>1, <1>2, <1>3, <1>4, <1>5, <1>6, <1>7, <1>8, <1>9 DEF Next

LEMMA Safety == Spec => []IInv
  BY InitSafe, StepSafe, PTL DEF Spec
-----------------------------------------------------------------------------
(* Theorems *)

\* The registry's tables keep their shape, for every number of jobs and runners.
THEOREM TypeCorrect == Spec => []TypeOK
  BY Safety, PTL DEF IInv

\* jobs.py, mark_failed and recover_stuck_jobs: a job reaches the dead letters only
\* after all its attempts, whatever late results and recoveries interleave, and
\* one whose status says so is in the list.
THEOREM DeadLettersEarned == Spec => []DeadLetterEarned
  BY Safety, PTL DEF IInv

LEMMA ClosedStep == ASSUME IInv, [Next]_vars, NEW j \in Jobs, Closed(j) PROVE Closed(j)'
<1> USE DEF IInv, Closed
<1>1. ASSUME NEW k \in Jobs, Submit(k) PROVE Closed(j)'
  BY <1>1 DEF Submit, TypeOK, Job
<1>2. ASSUME NEW k \in Jobs, Cancel(k) PROVE Closed(j)'
  BY <1>2 DEF Cancel, TypeOK, Job
<1>3. ASSUME NEW w \in Runners, NEW k \in Jobs, Find(w, k) PROVE Closed(j)'
  BY <1>3 DEF Find, TypeOK, Job
<1>4. ASSUME NEW w \in Runners, MarkRunning(w) PROVE Closed(j)'
  BY <1>4 DEF MarkRunning, TypeOK, Job, Known
<1>5. ASSUME NEW w \in Runners, MarkSucceeded(w) PROVE Closed(j)'
  BY <1>5, JobAssumption DEF MarkSucceeded, TypeOK, Job, Known, Idle
<1>6. ASSUME NEW w \in Runners, MarkFailed(w) PROVE Closed(j)'
  BY <1>6, JobAssumption DEF MarkFailed, TypeOK, Job, Known, Idle
<1>7. ASSUME NEW stuck \in SUBSET Jobs, Recover(stuck) PROVE Closed(j)'
  BY <1>7 DEF Recover, TypeOK, Job
<1>8. ASSUME NEW w \in Runners, Vanish(w) PROVE Closed(j)'
  BY <1>8, JobAssumption DEF Vanish, Idle, TypeOK, Job
<1>9. ASSUME UNCHANGED vars PROVE Closed(j)'
  BY <1>9 DEF vars
<1> QED
  BY <1>1, <1>2, <1>3, <1>4, <1>5, <1>6, <1>7, <1>8, <1>9 DEF Next

\* jobs.py, mark_succeeded and cancel: a job that has succeeded or was cancelled,
\* and that no runner still holds from earlier, is never taken up again.
THEOREM ClosedStaysClosed == Spec => ClosedForGood
<1>1. IInv /\ [Next]_vars => [\A j \in Jobs : Closed(j) => Closed(j)']_vars
  BY ClosedStep
<1> QED
  BY <1>1, Safety, PTL DEF Spec, ClosedForGood
-----------------------------------------------------------------------------
(* The refreshes and imports *)

Datasets == {"basics", "ratings", "akas"}

\* While no connection was lost, a refresh that runs holds the lock.
LockHeld == ~lost => \A w \in Workers : run[w].at # "idle" => lock = w

\* No refresh is ahead of the files that it or another one will read.
NewEnough ==
  \A w \in Workers :
    /\ run[w].began <= day
    /\ \A f \in Datasets : files["scheduler"][f].is # "absent" => run[w].began <= files["scheduler"][f].day
    /\ \A v \in Workers : \A o \in run[v].open : run[w].began <= o[2]

\* What is staged is all that was published, and is in the catalogue when the
\* ids are inserted.
StagedAll ==
  /\ \A w \in Workers : run[w].at \in {"basics", "titles", "ids"} => U!Dataset(run[w].began) \subseteq run[w].staged
  /\ \A r \in U!Runs : run[r].at = "ids" => run[r].staged \subseteq catalog

UpkeepInv == U!TypeOK /\ LockHeld /\ NewEnough /\ StagedAll /\ U!ImportComplete

-----------------------------------------------------------------------------
(* Lemmas *)

LEMMA IdleRun == ASSUME U!UpkeepAssumption PROVE U!Idle \in U!Run /\ U!Idle.began = 0 /\ U!Idle.at = "idle" /\ U!Idle.open = {}
  BY DEF U!Idle, U!Run, U!Days, U!UpkeepAssumption

LEMMA Later ==
  ASSUME U!UpkeepAssumption, NEW d \in U!Days, NEW e \in U!Days, d <= e
  PROVE  U!Dataset(d) \subseteq U!Dataset(e)
<1>1. \A t \in Titles : Since[t] \in Nat
  BY DEF U!UpkeepAssumption
<1>2. d \in Nat /\ e \in Nat
  BY DEF U!Days, U!UpkeepAssumption
<1> QED
  BY <1>1, <1>2 DEF U!Dataset

\* A field of one run takes another value.
LEMMA RunFields ==
  ASSUME U!UpkeepAssumption, NEW j \in U!Run
  PROVE  /\ \A a \in {"idle", "download", "ratings", "basics", "titles", "ids", "genres", "akas", "known", "countries"} :
              [j EXCEPT !.at = a] \in U!Run
         /\ \A S \in SUBSET Datasets : [j EXCEPT !.todo = S] \in U!Run
         /\ \A S \in SUBSET (Datasets \X U!Days) :
              [j EXCEPT !.open = S] \in U!Run /\ \A T \in SUBSET Datasets : [j EXCEPT !.todo = T, !.open = S] \in U!Run
         /\ j.open \in SUBSET (Datasets \X U!Days) /\ j.todo \in SUBSET Datasets
         /\ \A S \in SUBSET Titles : [j EXCEPT !.staged = S] \in U!Run /\ [j EXCEPT !.done = S] \in U!Run
  BY DEF U!Run, Datasets

LEMMA FilesAfter ==
  ASSUME U!TypeOK, NEW p \in {"scheduler", "admin"}, NEW f \in Datasets, NEW x \in U!File,
         files' = [files EXCEPT ![p][f] = x]
  PROVE  /\ files' \in [{"scheduler", "admin"} -> [Datasets -> U!File]]
         /\ files'[p][f] = x
         /\ \A g \in Datasets : g # f => files'[p][g] = files[p][g]
         /\ p # "scheduler" => files'["scheduler"] = files["scheduler"]
<1>1. files \in [{"scheduler", "admin"} -> [Datasets -> U!File]]
  BY DEF U!TypeOK, Datasets
<1> HIDE DEF Datasets
<1> QED
  BY <1>1

LEMMA TypeEnd ==
  ASSUME U!UpkeepAssumption, U!TypeOK, NEW r \in U!Runs, U!End(r)
  PROVE  run' \in [U!Runs -> U!Run] /\ lock' \in Workers \cup {None}
  BY IdleRun DEF U!TypeOK, U!End

LEMMA UpkeepTypeStep ==
  ASSUME U!UpkeepAssumption, U!TypeOK, [U!Next]_(U!vars)
  PROVE  U!TypeOK'
<1>1. CASE U!NextDay
  BY <1>1 DEF U!NextDay, U!TypeOK, U!data, U!Days, U!UpkeepAssumption
<1>2. CASE U!LoseSession
  BY <1>2 DEF U!LoseSession, U!TypeOK, U!data
<1>3. ASSUME NEW w \in Workers, U!Refresh(w) PROVE U!TypeOK'
  <2>1. U!NoFile \in U!File
    BY DEF U!NoFile, U!File, U!Days, U!UpkeepAssumption
  <2>2. files' \in [{"scheduler", "admin"} -> [Datasets -> U!File]]
    BY <1>3, <2>1 DEF U!Refresh, U!TypeOK, Datasets
  <2>3. \A v \in U!Runs : run'[v] \in U!Run
    <3>1. ASSUME NEW v \in U!Runs PROVE run'[v] \in U!Run
      <4>1. [U!Idle EXCEPT !.at = "download", !.began = day, !.todo = U!Bulk] \in U!Run
        BY DEF U!Idle, U!Run, U!TypeOK, U!Bulk
      <4>2. [run[v] EXCEPT !.open = {}] \in U!Run /\ run[v] \in U!Run
        BY RunFields DEF U!TypeOK
      <4> QED
        BY <1>3, <4>1, <4>2 DEF U!Refresh
    <3> QED
      BY <3>1
  <2> QED
    BY <1>3, <2>2, <2>3 DEF U!Refresh, U!TypeOK, Datasets, U!data
<1>4. ASSUME NEW a \in Admins, NEW skip \in BOOLEAN, U!BulkSync(a, skip) PROVE U!TypeOK'
  <2> DEFINE todo == IF skip THEN {} ELSE {f \in U!Bulk : files["admin"][f].is \in {"absent", "empty"}}
             j == [U!Idle EXCEPT !.at = "download", !.began = day, !.todo = todo]
  <2>1. j \in U!Run /\ a \in U!Runs
    BY DEF U!Idle, U!Run, U!TypeOK, U!Bulk, U!Runs
  <2>2. run' = [run EXCEPT ![a] = j]
    BY <1>4 DEF U!BulkSync
  <2> HIDE DEF j
  <2> QED
    BY <1>4, <2>1, <2>2 DEF U!BulkSync, U!TypeOK, U!data
<1>5. ASSUME NEW r \in U!Runs, NEW f \in Datasets, U!OpenFile(r, f) PROVE U!TypeOK'
  <2> DEFINE j == [run[r] EXCEPT !.todo = @ \ {f}, !.open = @ \cup {<<f, day>>}]
  <2>1. j \in U!Run
    <3>1. run[r] \in U!Run /\ day \in U!Days
      BY DEF U!TypeOK
    <3>2. run[r].todo \in SUBSET Datasets /\ run[r].open \in SUBSET (Datasets \X U!Days)
      BY <3>1, RunFields
    <3>3. run[r].todo \ {f} \in SUBSET Datasets /\ run[r].open \cup {<<f, day>>} \in SUBSET (Datasets \X U!Days)
      BY <3>1, <3>2
    <3> QED
      BY <3>1, <3>3, RunFields
  <2>2. run' = [run EXCEPT ![r] = j]
    BY <1>5 DEF U!OpenFile
  <2>3. PICK is \in {"empty", "partial"} : files' = [files EXCEPT ![U!Dir(r)][f] = [is |-> is, day |-> day]]
    BY <1>5 DEF U!OpenFile
  <2>4. files' \in [{"scheduler", "admin"} -> [Datasets -> U!File]]
    <3>1. \A x \in {"empty", "partial", "whole"} : [is |-> x, day |-> day] \in U!File
      BY DEF U!File, U!TypeOK
    <3>2. U!Dir(r) \in {"scheduler", "admin"}
      BY DEF U!Dir
    <3> QED
      BY <2>3, <3>1, <3>2, FilesAfter
  <2> HIDE DEF j
  <2> QED
    BY <1>5, <2>1, <2>2, <2>4 DEF U!OpenFile, U!TypeOK, U!data, Datasets
<1>6. ASSUME NEW r \in U!Runs, NEW f \in Datasets, NEW d \in U!Days, U!FinishFile(r, f, d) PROVE U!TypeOK'
  <2> DEFINE j == [run[r] EXCEPT !.open = @ \ {<<f, d>>}]
  <2>1. j \in U!Run
    <3>1. run[r] \in U!Run
      BY DEF U!TypeOK
    <3>2. run[r].open \ {<<f, d>>} \in SUBSET (Datasets \X U!Days)
      BY <3>1, RunFields
    <3> QED
      BY <3>1, <3>2, RunFields
  <2>2. run' = [run EXCEPT ![r] = j]
    BY <1>6 DEF U!FinishFile
  <2>3. \E is \in {"partial", "whole"} : files' = [files EXCEPT ![U!Dir(r)][f] = [is |-> is, day |-> d]]
    BY <1>6 DEF U!FinishFile
  <2>4. files' \in [{"scheduler", "admin"} -> [Datasets -> U!File]]
    <3>1. \A x \in {"empty", "partial", "whole"} : [is |-> x, day |-> d] \in U!File
      BY DEF U!File, U!TypeOK
    <3>2. U!Dir(r) \in {"scheduler", "admin"}
      BY DEF U!Dir
    <3> QED
      BY <2>3, <3>1, <3>2, FilesAfter
  <2> HIDE DEF j
  <2> QED
    BY <1>6, <2>1, <2>2, <2>4 DEF U!FinishFile, U!TypeOK, U!data, Datasets
<1>7. ASSUME NEW r \in U!Runs, U!FailDownload(r) PROVE U!TypeOK'
  <2>1. U!End(r) /\ UNCHANGED <<day, lost, U!data>>
    BY <1>7 DEF U!FailDownload
  <2>2. files' \in [{"scheduler", "admin"} -> [Datasets -> U!File]]
    <3>1. CASE UNCHANGED files
      BY <3>1 DEF U!TypeOK, Datasets
    <3>2. ASSUME NEW f, files' = [files EXCEPT ![U!Dir(r)][f].is = IF @ = "empty" THEN "partial" ELSE @]
          PROVE  files' \in [{"scheduler", "admin"} -> [Datasets -> U!File]]
      <4>1. files \in [{"scheduler", "admin"} -> [Datasets -> U!File]]
        BY DEF U!TypeOK, Datasets
      <4>2. \A x \in U!File : [x EXCEPT !.is = IF @ = "empty" THEN "partial" ELSE @] \in U!File
        BY DEF U!File
      <4> QED
        BY <3>2, <4>1, <4>2
    <3> QED
      BY <1>7, <3>1, <3>2 DEF U!FailDownload
  <2> QED
    BY <2>1, <2>2, TypeEnd DEF U!TypeOK, U!data, Datasets
<1>8. ASSUME NEW r \in U!Runs, U!FailRead(r) \/ U!Fail(r) \/ U!Countries(r) PROVE U!TypeOK'
  <2>1. U!End(r) /\ UNCHANGED <<day, files, lost, catalog, ids, imported>>
    BY <1>8 DEF U!FailRead, U!Fail, U!Countries, U!data
  <2>2. genres' \subseteq Titles
    BY <1>8 DEF U!FailRead, U!Fail, U!Countries, U!data, U!TypeOK
  <2>3. country' \in [Titles -> SUBSET U!Days]
    <3>1. files[U!Dir(r)]["akas"].day \in U!Days /\ run[r].staged \subseteq Titles
      BY DEF U!TypeOK, U!Dir, U!File, U!Run
    <3>2. CASE UNCHANGED country
      BY <3>2 DEF U!TypeOK
    <3>3. ASSUME NEW S \in SUBSET Titles,
                 country' = [t \in Titles |-> IF t \in S THEN country[t] \cup {files[U!Dir(r)]["akas"].day} ELSE country[t]]
          PROVE  country' \in [Titles -> SUBSET U!Days]
      BY <3>1, <3>3 DEF U!TypeOK
    <3>4. CASE U!Countries(r)
      <4>1. (run[r].staged \cap U!Dataset(files[U!Dir(r)]["akas"].day)) \ run[r].done \in SUBSET Titles
        BY <3>1
      <4> QED
        BY <3>3, <3>4, <4>1 DEF U!Countries, U!FileOf
    <3>5. CASE U!Fail(r)
      <4>1. ASSUME NEW t \in run[r].staged, country' = [country EXCEPT ![t] = @ \cup {files[U!Dir(r)]["akas"].day}]
            PROVE  country' \in [Titles -> SUBSET U!Days]
        BY <3>1, <4>1 DEF U!TypeOK
      <4> QED
        BY <3>2, <3>5, <4>1 DEF U!Fail, U!FileOf
    <3> QED
      BY <1>8, <3>2, <3>4, <3>5 DEF U!FailRead, U!data
  <2> QED
    BY <2>1, <2>2, <2>3, TypeEnd DEF U!TypeOK
<1>9. ASSUME NEW r \in U!Runs,
             U!Downloaded(r) \/ U!ReadRatings(r) \/ U!ReadBasics(r) \/ U!InsertTitles(r) \/ U!Genres(r) \/ U!KnownCountries(r)
      PROVE  U!TypeOK'
  <2>1. run[r] \in U!Run /\ run[r].staged \subseteq Titles
    BY DEF U!TypeOK, U!Run
  <2>2. \A d \in U!Days : U!Dataset(d) \subseteq Titles
    BY DEF U!Dataset
  <2>3. run' \in [U!Runs -> U!Run]
    BY <1>9, <2>1, <2>2 DEF U!Downloaded, U!ReadRatings, U!ReadBasics, U!InsertTitles, U!Genres, U!KnownCountries,
                            U!TypeOK, U!Run, U!Dataset
  <2>4. /\ UNCHANGED <<day, files, lock, lost, ids, country, imported>>
        /\ catalog' \subseteq Titles /\ genres' \subseteq Titles
    BY <1>9, <2>1 DEF U!Downloaded, U!ReadRatings, U!ReadBasics, U!InsertTitles, U!Genres, U!KnownCountries, U!TypeOK, U!data
  <2> QED
    BY <2>3, <2>4 DEF U!TypeOK
<1>10. ASSUME NEW r \in U!Runs, U!InsertIds(r) PROVE U!TypeOK'
  <2>1. run[r] \in U!Run /\ run[r].staged \subseteq Titles
    BY DEF U!TypeOK, U!Run
  <2>2. run' \in [U!Runs -> U!Run] /\ lock' \in Workers \cup {None}
    BY <1>10, <2>1, RunFields, TypeEnd DEF U!InsertIds, U!TypeOK
  <2> QED
    BY <1>10, <2>1, <2>2 DEF U!InsertIds, U!TypeOK
<1>11. CASE UNCHANGED U!vars
  BY <1>11 DEF U!vars, U!data, U!TypeOK
<1> QED
  BY <1>1, <1>2, <1>3, <1>4, <1>5, <1>6, <1>7, <1>8, <1>9, <1>10, <1>11 DEF U!Next, Datasets
-----------------------------------------------------------------------------
(* The lock *)

\* What a step means for the lock: a run ends, or a run that goes on keeps it.
LEMMA LockStep ==
  ASSUME U!UpkeepAssumption, U!TypeOK, LockHeld, [U!Next]_(U!vars)
  PROVE  LockHeld'
<1> DEFINE Calm == lock' = lock /\ lost' = lost /\ \A w \in Workers : run'[w].at # "idle" => run[w].at # "idle"
<1>1. Calm => LockHeld'
  BY DEF LockHeld
<1>2. ASSUME NEW r \in U!Runs, U!End(r), UNCHANGED lost PROVE LockHeld'
  <2>1. run'[r].at = "idle" /\ \A w \in U!Runs \ {r} : run'[w] = run[w]
    BY <1>2, IdleRun DEF U!End, U!TypeOK
  <2>2. lock # r => lock' = lock
    BY <1>2 DEF U!End
  <2> QED
    BY <1>2, <2>1, <2>2 DEF LockHeld, U!Runs
<1>3. ASSUME NEW w \in Workers, U!Refresh(w) PROVE LockHeld'
  <2>1. lock = None /\ lock' = w /\ lost' = lost
    BY <1>3 DEF U!Refresh
  <2>2. ~lost => \A v \in Workers : run[v].at = "idle"
    BY <2>1 DEF LockHeld, U!UpkeepAssumption
  <2>3. ASSUME NEW v \in Workers, v # w PROVE run'[v].at = run[v].at
    <3>1. run'[v] = [run[v] EXCEPT !.open = {}] /\ run[v] \in U!Run
      BY <1>3, <2>3 DEF U!Refresh, U!TypeOK, U!Runs
    <3> QED
      BY <3>1 DEF U!Run
  <2> QED
    BY <2>1, <2>2, <2>3 DEF LockHeld
<1>4. CASE U!LoseSession
  BY <1>4 DEF U!LoseSession, LockHeld
<1>5. ASSUME NEW a \in Admins, NEW skip \in BOOLEAN, U!BulkSync(a, skip) PROVE LockHeld'
  <2>1. \A w \in Workers : run'[w] = run[w]
    BY <1>5 DEF U!BulkSync, U!UpkeepAssumption, U!TypeOK, U!Runs
  <2> QED
    BY <1>1, <1>5, <2>1 DEF U!BulkSync
<1>6. ASSUME NEW r \in U!Runs, NEW f \in Datasets, U!OpenFile(r, f) \/ \E d \in U!Days : U!FinishFile(r, f, d)
      PROVE  LockHeld'
  <2>1. \A w \in U!Runs : run'[w].at = run[w].at
    <3>1. CASE U!OpenFile(r, f)
      BY <3>1 DEF U!OpenFile, U!TypeOK, U!Run
    <3>2. ASSUME NEW d \in U!Days, U!FinishFile(r, f, d) PROVE \A w \in U!Runs : run'[w].at = run[w].at
      BY <3>2 DEF U!FinishFile, U!TypeOK, U!Run
    <3> QED
      BY <1>6, <3>1, <3>2
  <2> QED
    BY <1>1, <1>6, <2>1 DEF U!OpenFile, U!FinishFile, U!Runs
<1>7. ASSUME NEW r \in U!Runs, U!FailDownload(r) \/ U!FailRead(r) \/ U!Countries(r) \/ U!Fail(r) PROVE LockHeld'
  BY <1>2, <1>7 DEF U!FailDownload, U!FailRead, U!Countries, U!Fail
<1>8. ASSUME NEW r \in U!Runs,
             U!Downloaded(r) \/ U!ReadRatings(r) \/ U!ReadBasics(r) \/ U!InsertTitles(r) \/ U!Genres(r) \/ U!KnownCountries(r)
               \/ (U!InsertIds(r) /\ r \notin Admins)
      PROVE  LockHeld'
  <2>1. run[r].at # "idle" /\ (\A w \in U!Runs \ {r} : run'[w] = run[w]) /\ lock' = lock /\ lost' = lost
    BY <1>8 DEF U!Downloaded, U!ReadRatings, U!ReadBasics, U!InsertTitles, U!Genres, U!KnownCountries, U!InsertIds, U!TypeOK
  <2> QED
    BY <1>1, <2>1 DEF U!Runs
<1>9. ASSUME NEW r \in U!Runs, U!InsertIds(r), r \in Admins PROVE LockHeld'
  BY <1>2, <1>9 DEF U!InsertIds
<1>10. CASE U!NextDay \/ UNCHANGED U!vars
  BY <1>1, <1>10 DEF U!NextDay, U!vars
<1> QED
  BY <1>3, <1>4, <1>5, <1>6, <1>7, <1>8, <1>9, <1>10 DEF U!Next, Datasets
-----------------------------------------------------------------------------
(* The age of the files *)

\* A run that was not started goes on, or ends, and opens no file.
LEMMA RunsOn ==
  ASSUME U!UpkeepAssumption, U!TypeOK, NEW r \in U!Runs,
         \/ U!FailDownload(r) \/ U!FailRead(r) \/ U!Countries(r) \/ U!Fail(r)
         \/ U!Downloaded(r) \/ U!ReadRatings(r) \/ U!ReadBasics(r) \/ U!InsertTitles(r) \/ U!Genres(r)
         \/ U!KnownCountries(r) \/ U!InsertIds(r)
  PROVE  /\ \A w \in U!Runs : /\ run'[w].began \in {0, run[w].began}
                            /\ run'[w].open \subseteq run[w].open
         /\ \A w \in U!Runs \ {r} : run'[w] = run[w]
         /\ day' = day
<1>1. CASE U!End(r)
  <2>1. \A w \in U!Runs : run'[w] = IF w = r THEN U!Idle ELSE run[w]
    BY <1>1 DEF U!End, U!TypeOK
  <2>2. day' = day
    BY DEF U!FailDownload, U!FailRead, U!Countries, U!Fail, U!Downloaded, U!ReadRatings, U!ReadBasics, U!InsertTitles,
           U!Genres, U!KnownCountries, U!InsertIds
  <2> QED
    BY <2>1, <2>2, IdleRun
<1>2. CASE ~U!End(r)
  <2>1. run[r] \in U!Run
    BY DEF U!TypeOK
  <2> QED
    BY <1>2, <2>1 DEF U!FailDownload, U!FailRead, U!Countries, U!Fail, U!Downloaded, U!ReadRatings, U!ReadBasics, U!InsertTitles,
           U!Genres, U!KnownCountries, U!InsertIds, U!TypeOK, U!Run
<1> QED
  BY <1>1, <1>2

LEMMA AgeStep ==
  ASSUME U!UpkeepAssumption, U!TypeOK, NewEnough, [U!Next]_(U!vars)
  PROVE  NewEnough'
<1>0. /\ day \in Nat /\ \A w \in Workers : run[w].began \in Nat
      /\ \A f \in Datasets : files["scheduler"][f].day \in Nat
      /\ \A w \in Workers : \A o \in run[w].open : o[2] \in Nat
  <2>1. \A d \in U!Days : d \in Nat
    BY DEF U!Days, U!UpkeepAssumption
  <2>2. \A w \in Workers : run[w] \in U!Run
    BY DEF U!TypeOK, U!Runs
  <2>3. \A w \in Workers : run[w].began \in U!Days /\ \A o \in run[w].open : o[2] \in U!Days
    BY <2>2 DEF U!Run
  <2>4. \A f \in Datasets : files["scheduler"][f].day \in U!Days
    BY DEF U!TypeOK, Datasets, U!File
  <2> QED
    BY <2>1, <2>3, <2>4 DEF U!TypeOK
<1>1. ASSUME UNCHANGED files, day' = day,
             \A w \in Workers : run'[w].began \in {0, run[w].began} /\ run'[w].open \subseteq run[w].open
      PROVE  NewEnough'
  BY <1>0, <1>1 DEF NewEnough
<1>2. CASE U!NextDay
  BY <1>0, <1>2 DEF U!NextDay, NewEnough
<1>3. ASSUME NEW w \in Workers, U!Refresh(w) PROVE NewEnough'
  <2>1. day' = day /\ \A f \in Datasets : files'["scheduler"][f].is = "absent"
    BY <1>3 DEF U!Refresh, U!TypeOK, Datasets, U!NoFile
  <2>2. ASSUME NEW v \in Workers PROVE run'[v].began \in {day, run[v].began} /\ run'[v].open = {}
    <3>1. CASE v = w
      BY <1>3, <3>1 DEF U!Refresh, U!Runs, U!Idle
    <3>2. CASE v # w
      <4>1. run'[v] = [run[v] EXCEPT !.open = {}] /\ run[v] \in U!Run
        BY <1>3, <3>2 DEF U!Refresh, U!TypeOK, U!Runs
      <4> QED
        BY <4>1 DEF U!Run
    <3> QED
      BY <3>1, <3>2
  <2> QED
    BY <1>0, <2>1, <2>2 DEF NewEnough
<1>4. ASSUME NEW a \in Admins, NEW skip \in BOOLEAN, U!BulkSync(a, skip) PROVE NewEnough'
  <2>1. \A w \in Workers : run'[w] = run[w]
    BY <1>4 DEF U!BulkSync, U!UpkeepAssumption, U!TypeOK, U!Runs
  <2> QED
    BY <1>1, <1>4, <2>1 DEF U!BulkSync
<1>5. ASSUME NEW r \in U!Runs, NEW f \in Datasets, NEW d \in U!Days, NEW is \in {"empty", "partial", "whole"},
             files' = [files EXCEPT ![U!Dir(r)][f] = [is |-> is, day |-> d]], day' = day,
             r \in Workers => \A w \in Workers : run[w].began <= d,
             \A w \in U!Runs : run'[w].began = run[w].began,
             \A w \in U!Runs : \A o \in run'[w].open : o \in run[w].open \/ o[2] = day
      PROVE  NewEnough'
  <2>1. [is |-> is, day |-> d] \in U!File /\ U!Dir(r) \in {"scheduler", "admin"}
    BY DEF U!File, U!Dir
  <2>2. \A g \in Datasets : \/ files'["scheduler"][g] = files["scheduler"][g]
                            \/ r \in Workers /\ files'["scheduler"][g].day = d
    <3>1. CASE r \in Workers
      <4>1. files' = [files EXCEPT !["scheduler"][f] = [is |-> is, day |-> d]]
        BY <1>5, <3>1 DEF U!Dir
      <4>2. /\ files'["scheduler"][f] = [is |-> is, day |-> d]
            /\ \A g \in Datasets : g # f => files'["scheduler"][g] = files["scheduler"][g]
        BY <2>1, <4>1, FilesAfter
      <4> QED
        BY <3>1, <4>2
    <3>2. CASE r \notin Workers
      <4>1. files' = [files EXCEPT !["admin"][f] = [is |-> is, day |-> d]]
        BY <1>5, <3>2 DEF U!Dir
      <4>2. files'["scheduler"] = files["scheduler"]
        BY <2>1, <4>1, FilesAfter
      <4> QED
        BY <4>2
    <3> QED
      BY <3>1, <3>2
  <2> QED
    BY <1>0, <1>5, <2>2 DEF NewEnough, U!Runs
<1>6. ASSUME NEW r \in U!Runs, NEW f \in Datasets, U!OpenFile(r, f) PROVE NewEnough'
  <2>1. run' = [run EXCEPT ![r].todo = @ \ {f}, ![r].open = @ \cup {<<f, day>>}] /\ day' = day
    BY <1>6 DEF U!OpenFile
  <2>2. \A w \in U!Runs : /\ run'[w].began = run[w].began
                        /\ \A o \in run'[w].open : o \in run[w].open \/ o[2] = day
    BY <2>1 DEF U!TypeOK, U!Run
  <2>3. PICK is \in {"empty", "partial"} : files' = [files EXCEPT ![U!Dir(r)][f] = [is |-> is, day |-> day]]
    BY <1>6 DEF U!OpenFile
  <2>4. day \in U!Days /\ \A w \in Workers : run[w].began <= day
    BY DEF NewEnough, U!TypeOK
  <2> QED
    BY <1>5, <2>1, <2>2, <2>3, <2>4
<1>7. ASSUME NEW r \in U!Runs, NEW f \in Datasets, NEW d \in U!Days, U!FinishFile(r, f, d) PROVE NewEnough'
  <2>1. <<f, d>> \in run[r].open /\ run' = [run EXCEPT ![r].open = @ \ {<<f, d>>}] /\ day' = day
    BY <1>7 DEF U!FinishFile
  <2>2. \A w \in U!Runs : run'[w].began = run[w].began /\ run'[w].open \subseteq run[w].open
    BY <2>1 DEF U!TypeOK, U!Run
  <2>3. PICK is \in {"partial", "whole"} : files' = [files EXCEPT ![U!Dir(r)][f] = [is |-> is, day |-> d]]
    BY <1>7 DEF U!FinishFile
  <2>4. r \in Workers => \A w \in Workers : run[w].began <= d
    BY <2>1 DEF NewEnough
  <2> QED
    BY <1>5, <2>1, <2>2, <2>3, <2>4
<1>8. ASSUME NEW r \in U!Runs, U!FailDownload(r) PROVE NewEnough'
  <2>1. \A w \in Workers : run'[w].began \in {0, run[w].began} /\ run'[w].open \subseteq run[w].open
    BY <1>8, RunsOn DEF U!Runs
  <2>2. \A g \in Datasets : /\ files'["scheduler"][g].day = files["scheduler"][g].day
                            /\ files'["scheduler"][g].is # "absent" => files["scheduler"][g].is # "absent"
    <3>1. files \in [{"scheduler", "admin"} -> [Datasets -> U!File]]
      BY DEF U!TypeOK, Datasets
    <3>2. ASSUME NEW f, files' = [files EXCEPT ![U!Dir(r)][f].is = IF @ = "empty" THEN "partial" ELSE @], NEW g \in Datasets
          PROVE  /\ files'["scheduler"][g].day = files["scheduler"][g].day
                 /\ files'["scheduler"][g].is # "absent" => files["scheduler"][g].is # "absent"
      <4>1. files["scheduler"][g] \in U!File
        BY <3>1
      <4> QED
        BY <3>1, <3>2, <4>1 DEF U!File
    <3> QED
      BY <1>8, <3>2 DEF U!FailDownload
  <2>3. day' = day
    BY <1>8, RunsOn
  <2>4. ASSUME NEW w \in Workers, NEW g \in Datasets, files'["scheduler"][g].is # "absent"
        PROVE  run'[w].began <= files'["scheduler"][g].day
    <3>1. run[w].began <= files["scheduler"][g].day
      BY <2>2, <2>4 DEF NewEnough
    <3>2. files'["scheduler"][g].day = files["scheduler"][g].day /\ run'[w].began \in {0, run[w].began}
      BY <2>1, <2>2
    <3>3. files["scheduler"][g].day \in Nat
      BY <1>0
    <3> QED
      BY <3>1, <3>2, <3>3
  <2>5. ASSUME NEW w \in Workers, NEW v \in Workers, NEW o \in run'[v].open
        PROVE  run'[w].began <= o[2]
    BY <1>0, <2>1 DEF NewEnough
  <2>6. \A w \in Workers : run'[w].began <= day'
    BY <1>0, <2>1, <2>3 DEF NewEnough
  <2> QED
    BY <2>4, <2>5, <2>6 DEF NewEnough
<1>9. ASSUME NEW r \in U!Runs,
             \/ U!FailRead(r) \/ U!Countries(r) \/ U!Fail(r) \/ U!Downloaded(r) \/ U!ReadRatings(r) \/ U!ReadBasics(r)
             \/ U!InsertTitles(r) \/ U!Genres(r) \/ U!KnownCountries(r) \/ U!InsertIds(r)
      PROVE  NewEnough'
  <2>1. UNCHANGED files
    BY <1>9 DEF U!FailRead, U!Countries, U!Fail, U!Downloaded, U!ReadRatings, U!ReadBasics, U!InsertTitles, U!Genres,
                U!KnownCountries, U!InsertIds
  <2> QED
    BY <1>1, <1>9, <2>1, RunsOn DEF U!Runs
<1>10. CASE U!LoseSession \/ UNCHANGED U!vars
  BY <1>10 DEF U!LoseSession, U!vars, NewEnough
<1> QED
  BY <1>2, <1>3, <1>4, <1>6, <1>7, <1>8, <1>9, <1>10 DEF U!Next, Datasets
-----------------------------------------------------------------------------
(* What is imported *)

\* A dataset file of the refreshes' directory has all that was published when any
\* of them began.
LEMMA WholeFile ==
  ASSUME U!UpkeepAssumption, U!TypeOK, NewEnough, NEW w \in Workers, NEW f \in Datasets, U!FileOf(w, f).is = "whole"
  PROVE  U!Dataset(run[w].began) \subseteq U!Dataset(U!FileOf(w, f).day)
<1>1. U!FileOf(w, f) = files["scheduler"][f]
  BY DEF U!FileOf, U!Dir
<1>2. run[w].began \in U!Days /\ U!FileOf(w, f).day \in U!Days
  BY <1>1 DEF U!TypeOK, U!Runs, U!Run, Datasets, U!File
<1>3. run[w].began <= U!FileOf(w, f).day
  BY <1>1 DEF NewEnough
<1> QED
  BY <1>2, <1>3, Later

LEMMA StagedStep ==
  ASSUME U!UpkeepAssumption, U!TypeOK, NewEnough, StagedAll, [U!Next]_(U!vars)
  PROVE  StagedAll'
<1>1. ASSUME catalog \subseteq catalog',
             \A r \in U!Runs : run'[r].at \in {"basics", "titles", "ids"} =>
               run'[r].at = run[r].at /\ run'[r].began = run[r].began /\ run'[r].staged = run[r].staged
      PROVE  StagedAll'
  BY <1>1 DEF StagedAll, U!Runs
<1>2. ASSUME NEW r \in U!Runs, run'[r].at \notin {"basics", "titles", "ids"},
             \A q \in U!Runs \ {r} : run'[q] = run[q], catalog \subseteq catalog'
      PROVE  StagedAll'
  BY <1>1, <1>2
<1>3. CASE U!NextDay \/ U!LoseSession \/ UNCHANGED U!vars
  BY <1>1, <1>3 DEF U!NextDay, U!LoseSession, U!vars, U!data
<1>4. ASSUME NEW w \in Workers, U!Refresh(w) PROVE StagedAll'
  <2>1. ASSUME NEW v \in U!Runs, run'[v].at \in {"basics", "titles", "ids"}
        PROVE  run'[v].at = run[v].at /\ run'[v].began = run[v].began /\ run'[v].staged = run[v].staged
    <3>1. v # w
      BY <1>4, <2>1 DEF U!Refresh, U!Idle
    <3>2. run'[v] = [run[v] EXCEPT !.open = {}] \/ run'[v] = run[v]
      BY <1>4, <3>1 DEF U!Refresh
    <3>3. run[v] \in U!Run
      BY DEF U!TypeOK
    <3> QED
      BY <3>2, <3>3 DEF U!Run
  <2> QED
    BY <1>1, <1>4, <2>1 DEF U!Refresh, U!data
<1>5. ASSUME NEW a \in Admins, NEW skip \in BOOLEAN, U!BulkSync(a, skip) PROVE StagedAll'
  <2>1. run'[a].at = "download" /\ \A q \in U!Runs \ {a} : run'[q] = run[q]
    BY <1>5 DEF U!BulkSync, U!TypeOK, U!Idle, U!Runs
  <2> QED
    BY <1>2, <1>5, <2>1 DEF U!BulkSync, U!data, U!Runs
<1>6. ASSUME NEW r \in U!Runs, NEW f \in Datasets, U!OpenFile(r, f) \/ \E d \in U!Days : U!FinishFile(r, f, d)
      PROVE  StagedAll'
  <2>1. \A q \in U!Runs : run'[q].at = run[q].at /\ run'[q].began = run[q].began /\ run'[q].staged = run[q].staged
    <3>1. CASE U!OpenFile(r, f)
      BY <3>1 DEF U!OpenFile, U!TypeOK, U!Run
    <3>2. ASSUME NEW d \in U!Days, U!FinishFile(r, f, d)
          PROVE  \A q \in U!Runs : /\ run'[q].at = run[q].at /\ run'[q].began = run[q].began
                                 /\ run'[q].staged = run[q].staged
      BY <3>2 DEF U!FinishFile, U!TypeOK, U!Run
    <3> QED
      BY <1>6, <3>1, <3>2
  <2> QED
    BY <1>1, <1>6, <2>1 DEF U!OpenFile, U!FinishFile, U!data
<1>7. ASSUME NEW r \in U!Runs, U!End(r), catalog \subseteq catalog' PROVE StagedAll'
  <2>1. run'[r].at = "idle" /\ \A q \in U!Runs \ {r} : run'[q] = run[q]
    BY <1>7, IdleRun DEF U!End, U!TypeOK
  <2> QED
    BY <1>2, <1>7, <2>1
<1>8. ASSUME NEW r \in U!Runs, U!FailDownload(r) \/ U!FailRead(r) \/ U!Countries(r) \/ U!Fail(r) PROVE StagedAll'
  BY <1>7, <1>8 DEF U!FailDownload, U!FailRead, U!Countries, U!Fail, U!data
<1>9. ASSUME NEW r \in U!Runs, U!InsertIds(r) PROVE StagedAll'
  <2>1. CASE U!End(r)
    BY <1>7, <1>9, <2>1 DEF U!InsertIds
  <2>2. CASE run' = [run EXCEPT ![r].at = "genres"]
    <3>1. run'[r].at = "genres" /\ \A q \in U!Runs \ {r} : run'[q] = run[q]
      BY <2>2 DEF U!TypeOK, U!Run
    <3> QED
      BY <1>2, <1>9, <3>1 DEF U!InsertIds
  <2> QED
    BY <1>9, <2>1, <2>2 DEF U!InsertIds
<1>10. ASSUME NEW r \in U!Runs, U!Downloaded(r) PROVE StagedAll'
  <2>1. run'[r].at \in {"ratings", "known"} /\ \A q \in U!Runs \ {r} : run'[q] = run[q]
    BY <1>10 DEF U!Downloaded, U!TypeOK, U!Run
  <2> QED
    BY <1>2, <1>10, <2>1 DEF U!Downloaded, U!data
<1>11. ASSUME NEW r \in U!Runs, U!Genres(r) \/ U!KnownCountries(r) PROVE StagedAll'
  <2>1. run'[r].at \in {"akas", "countries"} /\ \A q \in U!Runs \ {r} : run'[q] = run[q]
    BY <1>11 DEF U!Genres, U!KnownCountries, U!TypeOK, U!Run
  <2> QED
    BY <1>2, <1>11, <2>1 DEF U!Genres, U!KnownCountries, U!data
<1>12. ASSUME NEW r \in U!Runs, U!ReadRatings(r) PROVE StagedAll'
  <2>1. /\ run'[r].at = "basics" /\ run'[r].began = run[r].began /\ catalog' = catalog
        /\ run'[r].staged = U!Dataset(U!FileOf(r, "ratings").day)
        /\ \A q \in U!Runs \ {r} : run'[q] = run[q]
    BY <1>12 DEF U!ReadRatings, U!TypeOK, U!Run, U!data
  <2>2. r \in Workers => U!Dataset(run[r].began) \subseteq run'[r].staged
    BY <1>12, <2>1, WholeFile DEF U!ReadRatings, Datasets
  <2> QED
    BY <2>1, <2>2 DEF StagedAll, U!Runs
<1>13. ASSUME NEW r \in U!Runs, U!ReadBasics(r) PROVE StagedAll'
  <2>1. /\ run[r].at = "basics" /\ run'[r].at = "titles" /\ run'[r].began = run[r].began /\ catalog' = catalog
        /\ run'[r].staged = run[r].staged \cap U!Dataset(U!FileOf(r, "basics").day)
        /\ \A q \in U!Runs \ {r} : run'[q] = run[q]
    BY <1>13 DEF U!ReadBasics, U!TypeOK, U!Run, U!data
  <2>2. r \in Workers => U!Dataset(run[r].began) \subseteq run'[r].staged
    BY <1>13, <2>1, WholeFile DEF U!ReadBasics, Datasets, StagedAll
  <2> QED
    BY <2>1, <2>2 DEF StagedAll, U!Runs
<1>14. ASSUME NEW r \in U!Runs, U!InsertTitles(r) PROVE StagedAll'
  <2>1. /\ run[r].at = "titles" /\ run'[r].at = "ids" /\ run'[r].began = run[r].began
        /\ run'[r].staged = run[r].staged /\ catalog' = catalog \cup run[r].staged
        /\ \A q \in U!Runs \ {r} : run'[q] = run[q]
    BY <1>14 DEF U!InsertTitles, U!TypeOK, U!Run
  <2> QED
    BY <2>1 DEF StagedAll, U!Runs
<1> QED
  BY <1>3, <1>4, <1>5, <1>6, <1>8, <1>9, <1>10, <1>11, <1>12, <1>13, <1>14 DEF U!Next, Datasets

LEMMA ImportStep ==
  ASSUME StagedAll, U!ImportComplete, [U!Next]_(U!vars)
  PROVE  U!ImportComplete'
<1>1. ASSUME NEW r \in U!Runs, U!InsertIds(r) PROVE U!ImportComplete'
  <2>1. run[r].staged \subseteq catalog
    BY <1>1 DEF U!InsertIds, StagedAll
  <2> QED
    BY <1>1, <2>1 DEF U!InsertIds, U!ImportComplete
<1>2. CASE ~ \E r \in U!Runs : U!InsertIds(r)
  <2>1. UNCHANGED <<ids, imported>> /\ catalog \subseteq catalog'
    BY <1>2 DEF U!Next, U!NextDay, U!LoseSession, U!Refresh, U!BulkSync, U!OpenFile, U!FinishFile, U!FailDownload, U!Downloaded,
                U!FailRead, U!ReadRatings, U!ReadBasics, U!InsertTitles, U!Genres, U!KnownCountries, U!Countries, U!Fail, U!vars, U!data
  <2> QED
    BY <2>1 DEF U!ImportComplete
<1> QED
  BY <1>1, <1>2
-----------------------------------------------------------------------------
(* Theorems *)

LEMMA UpkeepSafety ==
  ASSUME U!UpkeepAssumption
  PROVE  U!Spec => []UpkeepInv
<1>1. U!Init => UpkeepInv
  <2> SUFFICES ASSUME U!Init PROVE UpkeepInv
    OBVIOUS
  <2>1. day \in U!Days /\ day = 0 /\ U!NoFile \in U!File
    BY DEF U!Init, U!Days, U!File, U!NoFile, U!UpkeepAssumption
  <2>2. U!TypeOK
    BY <2>1, IdleRun DEF U!Init, U!TypeOK
  <2>3. LockHeld /\ StagedAll /\ U!ImportComplete
    BY IdleRun DEF U!Init, LockHeld, StagedAll, U!ImportComplete, U!Runs
  <2>4. NewEnough
    BY <2>1, IdleRun DEF U!Init, NewEnough, U!Runs, Datasets, U!NoFile
  <2> QED
    BY <2>2, <2>3, <2>4 DEF UpkeepInv
<1>2. UpkeepInv /\ [U!Next]_(U!vars) => UpkeepInv'
  BY UpkeepTypeStep, LockStep, AgeStep, StagedStep, ImportStep DEF UpkeepInv
<1> QED
  BY <1>1, <1>2, PTL DEF U!Spec

\* One refresh at a time while no connection of the advisory lock is lost, and
\* none imports less than IMDb had published when it began, whoever else downloads
\* to the directory (run_catalog_refresh_job and process_and_import).
THEOREM ImportsAreFresh ==
  ASSUME U!UpkeepAssumption
  PROVE  U!Spec => []FreshImport
<1>1. UpkeepInv => FreshImport
  BY DEF UpkeepInv, LockHeld, StagedAll, FreshImport, U!FreshImport
<1> QED
  BY <1>1, UpkeepSafety, PTL

\* Every title of an import that completed is in the catalogue with its external
\* id, although its two INSERTs commit one by one and runs are cut off between
\* them (seed_bulk_imdb.py).
THEOREM ImportsAreComplete ==
  ASSUME U!UpkeepAssumption
  PROVE  U!Spec => []ImportComplete
<1>1. UpkeepInv => ImportComplete
  BY DEF UpkeepInv, ImportComplete
<1> QED
  BY <1>1, UpkeepSafety, PTL
-----------------------------------------------------------------------------
(* The syncs of artwork *)

\* The last batch of a sync without a limit: what is not in it any more has
\* been asked for.  A batch that is full says nothing of the titles after it.
NothingMissed ==
  \A s \in Syncs :
    /\ MaxBatches[s] = None /\ failures = 0
    /\ syncs[s].at \in {"next", "write"} /\ ~ syncs[s].full
    => \A t \in Films : rows[t].status = "PENDING" => t \in syncs[s].left

PosterInv == P!TypeOK /\ NothingMissed

LEMMA OneCardinality ==
  ASSUME NEW S PROVE P!Cardinality(S) = Cardinality(S)
BY DEF P!Cardinality, Cardinality

LEMMA FilmsFinite == ASSUME P!PosterAssumption PROVE IsFiniteSet(Films)
BY DEF P!PosterAssumption, P!IsFiniteSet, IsFiniteSet

Ahead(W, t) == {s \in W : <<s, t>> \in Newer}

LEMMA AheadIs ==
  ASSUME P!PosterAssumption, NEW W \in SUBSET Films, NEW t \in W
  PROVE  /\ IsFiniteSet(W) /\ IsFiniteSet(Ahead(W, t)) /\ Cardinality(Ahead(W, t)) \in Nat
         /\ \A s \in Ahead(W, t) : s \in W /\ Cardinality(Ahead(W, s)) < Cardinality(Ahead(W, t))
<1>1. IsFiniteSet(W)
  BY FS_Subset, FilmsFinite
<1>2. IsFiniteSet(Ahead(W, t)) /\ Cardinality(Ahead(W, t)) \in Nat
  BY <1>1, FS_Subset, FS_CardinalityType DEF Ahead
<1>3. ASSUME NEW s \in Ahead(W, t) PROVE s \in W /\ Cardinality(Ahead(W, s)) < Cardinality(Ahead(W, t))
  <2>1. s \in W /\ s \in Films /\ t \in Films /\ <<s, t>> \in Newer
    BY DEF Ahead
  <2>2. Ahead(W, s) \subseteq Ahead(W, t)
    BY <2>1 DEF Ahead, P!PosterAssumption
  <2>3. s \notin Ahead(W, s)
    BY <2>1 DEF Ahead, P!PosterAssumption
  <2>4. Ahead(W, s) # Ahead(W, t)
    BY <2>3
  <2> QED
    BY <1>2, <2>1, <2>2, <2>4, FS_Subset, FS_CardinalityType
<1> QED
  BY <1>1, <1>2, <1>3

LEMMA BatchIs ==
  ASSUME NEW W PROVE P!Batch(W) = {t \in W : Cardinality(Ahead(W, t)) < BatchSize}
BY OneCardinality DEF P!Batch, Ahead

\* Of any titles one is the newest, and the fewest of them are ahead of one.
LEMMA FewestAhead ==
  ASSUME P!PosterAssumption, NEW W \in SUBSET Films, NEW T \in SUBSET W, T # {}
  PROVE  \E t \in T : \A s \in T : ~ (Cardinality(Ahead(W, s)) < Cardinality(Ahead(W, t)))
<1> DEFINE Counts == {Cardinality(Ahead(W, s)) : s \in T}
<1>1. Counts \subseteq Nat /\ Counts # {}
  BY AheadIs
<1>2. PICK n \in Counts : \A m \in Counts : ~ (<<m, n>> \in OpToRel(<, Nat))
  <2> HIDE DEF Counts
  <2> QED
    BY <1>1, NatLessThanWellFounded, WFMin
<1>3. PICK t \in T : n = Cardinality(Ahead(W, t))
  BY <1>2
<1>4. ASSUME NEW s \in T PROVE ~ (Cardinality(Ahead(W, s)) < n)
  <2>1. Cardinality(Ahead(W, s)) \in Counts
    OBVIOUS
  <2> HIDE DEF Counts
  <2> QED
    BY <1>1, <1>2, <2>1 DEF OpToRel
<1> QED
  BY <1>3, <1>4

LEMMA MostAhead ==
  ASSUME P!PosterAssumption, NEW W \in SUBSET Films, NEW T \in SUBSET W, T # {}
  PROVE  \E t \in T : \A s \in T : ~ (Cardinality(Ahead(W, t)) < Cardinality(Ahead(W, s)))
<1> DEFINE Size == Cardinality(W)
           Counts == {Size - Cardinality(Ahead(W, s)) : s \in T}
<1>1. \A s \in T : Cardinality(Ahead(W, s)) \in Nat /\ Cardinality(Ahead(W, s)) <= Size /\ Size \in Nat
  BY AheadIs, FS_Subset, FS_CardinalityType DEF Ahead
<1> HIDE DEF Size
<1>2. Counts \subseteq Nat /\ Counts # {}
  BY <1>1
<1>3. PICK n \in Counts : \A m \in Counts : ~ (<<m, n>> \in OpToRel(<, Nat))
  <2> HIDE DEF Counts
  <2> QED
    BY <1>2, NatLessThanWellFounded, WFMin
<1>4. PICK t \in T : n = Size - Cardinality(Ahead(W, t))
  BY <1>3
<1>5. ASSUME NEW s \in T PROVE ~ (Cardinality(Ahead(W, t)) < Cardinality(Ahead(W, s)))
  <2>1. Size - Cardinality(Ahead(W, s)) \in Counts
    OBVIOUS
  <2>2. ~ (Size - Cardinality(Ahead(W, s)) < n)
    <3> HIDE DEF Counts
    <3> QED
      BY <1>2, <1>3, <2>1 DEF OpToRel
  <2> QED
    BY <1>1, <1>4, <2>2
<1> QED
  BY <1>5

LEMMA NewestIs ==
  ASSUME P!PosterAssumption, NEW W \in SUBSET Films, W # {}
  PROVE  /\ P!First(W) \in W
         /\ P!Batch(W) # {}
<1>1. PICK t \in W : \A s \in W : ~ (Cardinality(Ahead(W, s)) < Cardinality(Ahead(W, t)))
  BY FewestAhead
<1>2. Ahead(W, t) = {}
  BY <1>1, AheadIs
<1>3. \A s \in W \ {t} : <<t, s>> \in Newer
  BY <1>2 DEF Ahead, P!PosterAssumption
<1>4. Cardinality(Ahead(W, t)) < BatchSize
  BY <1>2, FS_EmptySet DEF P!PosterAssumption
<1>5. t \in P!Batch(W)
  BY <1>4, BatchIs
<1> QED
  BY <1>3, <1>5 DEF P!First

\* LIMIT: a batch that is not full is all there is.
LEMMA ShortBatch ==
  ASSUME P!PosterAssumption, NEW W \in SUBSET Films, Cardinality(P!Batch(W)) # BatchSize
  PROVE  P!Batch(W) = W
<1> DEFINE B == P!Batch(W)
           Behind == W \ B
<1>1. BatchSize \in Nat \ {0}
  BY DEF P!PosterAssumption
<1>2. B = {t \in W : Cardinality(Ahead(W, t)) < BatchSize}
  BY BatchIs
<1>3. IsFiniteSet(W) /\ IsFiniteSet(B) /\ Cardinality(B) \in Nat
  BY <1>2, FilmsFinite, FS_Subset, FS_CardinalityType
<1> SUFFICES ASSUME Behind # {} PROVE FALSE
  BY <1>2
<1>4. PICK t \in Behind : \A s \in Behind : ~ (Cardinality(Ahead(W, s)) < Cardinality(Ahead(W, t)))
  <2>1. Behind \in SUBSET W
    OBVIOUS
  <2> HIDE DEF Behind
  <2> QED
    BY <2>1, FewestAhead
<1>5. t \in W /\ ~ (Cardinality(Ahead(W, t)) < BatchSize)
  BY <1>2, <1>4
<1>6. Ahead(W, t) \subseteq B
  BY <1>2, <1>4, <1>5, AheadIs
<1>7. Cardinality(B) > BatchSize
  <2>1. Cardinality(Ahead(W, t)) <= Cardinality(B) /\ Cardinality(Ahead(W, t)) \in Nat
    BY <1>3, <1>5, <1>6, FS_Subset, AheadIs
  <2> QED
    BY <1>1, <1>3, <1>5, <2>1 DEF P!PosterAssumption
<1>8. B # {} /\ B \in SUBSET W
  BY <1>1, <1>2, <1>3, <1>7, FS_EmptySet
<1>9. PICK u \in B : \A s \in B : ~ (Cardinality(Ahead(W, u)) < Cardinality(Ahead(W, s)))
  <2> HIDE DEF B
  <2> QED
    BY <1>8, MostAhead
<1>10. u \in W /\ Cardinality(Ahead(W, u)) < BatchSize
  BY <1>2
<1>11. B \ {u} \subseteq Ahead(W, u)
  <2> SUFFICES ASSUME NEW s \in B, s # u, <<s, u>> \notin Newer PROVE FALSE
    BY <1>2 DEF Ahead
  <2>1. s \in W /\ u \in W
    BY <1>2
  <2>2. u \in Ahead(W, s)
    BY <2>1 DEF Ahead, P!PosterAssumption
  <2> QED
    BY <1>9, <2>1, <2>2, AheadIs
<1>12. Cardinality(B \ {u}) <= Cardinality(Ahead(W, u)) /\ Cardinality(Ahead(W, u)) \in Nat
  BY <1>10, <1>11, AheadIs, FS_Subset
<1>13. Cardinality(B \ {u}) = Cardinality(B) - 1
  BY <1>3, FS_RemoveElement
<1> QED
  BY <1>1, <1>3, <1>7, <1>10, <1>12, <1>13

\* A field of one sync takes another value.
LEMMA SyncFields ==
  ASSUME NEW j \in P!Sync
  PROVE  /\ P!Idle \in P!Sync /\ [P!Idle EXCEPT !.at = "fetch"] \in P!Sync
         /\ j.left \in SUBSET Films /\ j.found \in SUBSET {"poster", "backdrop"} /\ j.batch \in Nat
         /\ [j EXCEPT !.at = "fetch", !.full = FALSE] \in P!Sync
         /\ \A S \in SUBSET {"poster", "backdrop"} : [j EXCEPT !.at = "write", !.found = S] \in P!Sync
         /\ \A S \in SUBSET Films : [j EXCEPT !.at = "next", !.left = S, !.found = {}] \in P!Sync
         /\ \A S \in SUBSET Films, n \in Nat, b \in BOOLEAN :
              [j EXCEPT !.at = "next", !.left = S, !.batch = n, !.full = b] \in P!Sync
  BY DEF P!Sync, P!Idle

\* What a fetch does to its sync.
LEMMA Fetched ==
  ASSUME P!TypeOK, NEW s \in Syncs, P!Fetch(s),
         NEW b, b = P!Batch({t \in Films : P!Wanting(t)})
  PROVE  \/ syncs'[s].at = "idle" /\ (syncs[s].batch = MaxBatches[s] \/ b = {})
         \/ syncs'[s].at = "next" /\ syncs'[s].left = b /\ (syncs'[s].full <=> Cardinality(b) = BatchSize)
<1> DEFINE n == IF MaxBatches[s] = None THEN syncs[s].batch ELSE syncs[s].batch + 1
           f == P!Cardinality(b) = BatchSize
           k == [syncs[s] EXCEPT !.at = "next", !.left = b, !.batch = n, !.full = f]
<1>1. syncs' = IF syncs[s].batch = MaxBatches[s] \/ b = {} THEN [syncs EXCEPT ![s] = P!Idle]
               ELSE [syncs EXCEPT ![s] = k]
  BY DEF P!Fetch
<1>2. k.at = "next" /\ k.left = b /\ (k.full <=> f)
  <2> HIDE DEF n, f
  <2>1. syncs[s] \in P!Sync
    BY DEF P!TypeOK
  <2> QED
    BY <2>1 DEF P!Sync
<1>3. f <=> Cardinality(b) = BatchSize
  BY OneCardinality
<1> HIDE DEF k
<1> QED
  BY <1>1, <1>2, <1>3 DEF P!Idle, P!TypeOK

LEMMA AnsweredRow ==
  ASSUME NEW t \in Films, NEW row \in P!Row, NEW found \in SUBSET {"poster", "backdrop"}
  PROVE  /\ P!Answered(t, row, found) \in P!Row
         /\ P!Answered(t, row, found).status # "PENDING"
         /\ row.art \subseteq P!Answered(t, row, found).art
  BY DEF P!Answered, P!Row, P!Status

LEMMA PosterTypeStep ==
  ASSUME P!PosterAssumption, P!TypeOK, [P!Next]_(P!vars)
  PROVE  P!TypeOK'
<1> USE DEF P!TypeOK
<1>1. ASSUME NEW s \in Syncs, P!StartSync(s) PROVE P!TypeOK'
  BY <1>1, SyncFields DEF P!StartSync
<1>2. ASSUME NEW s \in Syncs, P!Fetch(s) PROVE P!TypeOK'
  <2> DEFINE b == P!Batch({t \in Films : P!Wanting(t)})
  <2>1. b \in SUBSET Films
    BY BatchIs
  <2> HIDE DEF b
  <2>2. /\ UNCHANGED <<rows, failures>>
        /\ \/ syncs' = [syncs EXCEPT ![s] = P!Idle]
           \/ syncs' = [syncs EXCEPT ![s] =
                          [@ EXCEPT !.at = "next", !.left = b,
                             !.batch = IF MaxBatches[s] = None THEN syncs[s].batch ELSE syncs[s].batch + 1,
                             !.full = (P!Cardinality(b) = BatchSize)]]
    BY <1>2 DEF P!Fetch, b
  <2>3. syncs[s] \in P!Sync
    OBVIOUS
  <2>4. syncs[s].batch \in Nat /\ syncs[s].batch + 1 \in Nat
    BY <2>3 DEF P!Sync
  <2>5. [syncs[s] EXCEPT !.at = "next", !.left = b,
           !.batch = IF MaxBatches[s] = None THEN syncs[s].batch ELSE syncs[s].batch + 1,
           !.full = (P!Cardinality(b) = BatchSize)] \in P!Sync
    BY <2>1, <2>3, <2>4 DEF P!Sync
  <2> QED
    BY <2>2, <2>5, SyncFields
<1>3. ASSUME NEW s \in Syncs, P!Ask(s) PROVE P!TypeOK'
  <2>1. P!First(syncs[s].left) \in Films
    BY <1>3, NewestIs, SyncFields DEF P!Ask
  <2>2. PICK found \in SUBSET {"poster", "backdrop"} :
          syncs' = [syncs EXCEPT ![s].at = "write", ![s].found = found]
    BY <1>3, <2>1 DEF P!Ask, P!PosterAssumption
  <2> QED
    BY <1>3, <2>2, SyncFields DEF P!Ask
<1>4. ASSUME NEW s \in Syncs, P!Write(s) PROVE P!TypeOK'
  <2> DEFINE t == P!First(syncs[s].left)
  <2>1. syncs' \in [Syncs -> P!Sync]
    <3> DEFINE on == [syncs[s] EXCEPT !.at = "next", !.left = @ \ {t}, !.found = {}]
    <3>1. syncs' = [syncs EXCEPT ![s] = on] \/ syncs' = [syncs EXCEPT ![s] = P!Idle]
      BY <1>4 DEF P!Write
    <3> HIDE DEF t
    <3>2. on \in P!Sync
      <4>1. \A j \in P!Sync : [j EXCEPT !.at = "next", !.left = j.left \ {t}, !.found = {}] \in P!Sync
        BY SyncFields
      <4> QED
        BY <4>1
    <3>3. P!Idle \in P!Sync
      BY DEF P!Idle, P!Sync
    <3> HIDE DEF on
    <3> QED
      BY <3>1, <3>2, <3>3
  <2>2. rows' \in [Films -> P!Row]
    <3>1. rows' = rows \/ rows' = [rows EXCEPT ![t] = P!Answered(t, rows[t], syncs[s].found)]
      BY <1>4 DEF P!Write
    <3> HIDE DEF t
    <3>2. CASE t \in Films
      <4>1. P!Answered(t, rows[t], syncs[s].found) \in P!Row
        <5>1. rows[t] \in P!Row /\ syncs[s] \in P!Sync
          BY <3>2
        <5>2. syncs[s].found \in SUBSET {"poster", "backdrop"}
          BY <5>1 DEF P!Sync
        <5> QED
          BY <3>2, <5>1, <5>2, AnsweredRow
      <4> QED
        BY <3>1, <4>1
    <3>3. CASE t \notin Films
      BY <3>1, <3>3
    <3> QED
      BY <3>2, <3>3
  <2>3. failures' \in 0..MaxFailures
    BY <1>4 DEF P!Write, P!PosterAssumption
  <2> QED
    BY <2>1, <2>2, <2>3
<1>5. ASSUME NEW s \in Syncs, P!BatchDone(s) PROVE P!TypeOK'
  <2>1. syncs'[s] \in P!Sync
    BY <1>5, SyncFields DEF P!BatchDone
  <2> QED
    BY <1>5, <2>1 DEF P!BatchDone
<1>6. ASSUME NEW s \in Syncs, P!Stop(s) PROVE P!TypeOK'
  BY <1>6, SyncFields DEF P!Stop
<1>7. CASE UNCHANGED P!vars
  BY <1>7 DEF P!vars
<1> QED
  BY <1>1, <1>2, <1>3, <1>4, <1>5, <1>6, <1>7 DEF P!Next, P!Step

LEMMA MissedStep ==
  ASSUME P!PosterAssumption, P!TypeOK, P!TypeOK', NothingMissed, [P!Next]_(P!vars)
  PROVE  NothingMissed'
<1> USE DEF P!TypeOK
<1>0. failures \in Nat
  BY DEF P!PosterAssumption
<1> DEFINE Missed(s) ==
      /\ MaxBatches[s] = None /\ failures = 0
      /\ syncs[s].at \in {"next", "write"} /\ ~ syncs[s].full
      => \A t \in Films : rows[t].status = "PENDING" => t \in syncs[s].left
<1>1. \A s \in Syncs : Missed(s)
  BY DEF NothingMissed
<1> SUFFICES \A s \in Syncs : Missed(s)'
  BY DEF NothingMissed
<1>2. ASSUME NEW s \in Syncs, P!StartSync(s) \/ P!Stop(s) \/ P!BatchDone(s) PROVE \A q \in Syncs : Missed(q)'
  <2>1. UNCHANGED <<rows, failures>> /\ \A q \in Syncs : q # s => syncs'[q] = syncs[q]
    BY <1>2 DEF P!StartSync, P!Stop, P!BatchDone
  <2>2. syncs'[s].at \notin {"next", "write"}
    <3>1. syncs[s] \in P!Sync /\ [syncs[s] EXCEPT !.at = "fetch", !.full = FALSE].at = "fetch"
      BY DEF P!Sync
    <3>2. P!Idle.at = "idle" /\ [P!Idle EXCEPT !.at = "fetch"].at = "fetch"
      BY DEF P!Idle
    <3>3. syncs'[s] \in {P!Idle, [P!Idle EXCEPT !.at = "fetch"], [syncs[s] EXCEPT !.at = "fetch", !.full = FALSE]}
      BY <1>2 DEF P!StartSync, P!Stop, P!BatchDone
    <3> QED
      BY <3>1, <3>2, <3>3
  <2> QED
    BY <1>1, <2>1, <2>2
<1>3. ASSUME NEW s \in Syncs, P!Fetch(s) PROVE \A q \in Syncs : Missed(q)'
  <2> DEFINE W == {t \in Films : P!Wanting(t)}
             b == P!Batch(W)
  <2>1. UNCHANGED <<rows, failures>> /\ \A q \in Syncs : q # s => syncs'[q] = syncs[q]
    BY <1>3 DEF P!Fetch
  <2>2. \/ syncs'[s].at \notin {"next", "write"}
        \/ syncs'[s].left = b /\ (syncs'[s].full <=> Cardinality(b) = BatchSize)
    BY <1>3, Fetched
  <2>3. \A t \in Films : rows[t].status = "PENDING" => t \in W
    BY DEF P!Wanting
  <2>4. Missed(s)'
    <3> SUFFICES ASSUME syncs'[s].left = b, Cardinality(b) # BatchSize,
                        NEW t \in Films, rows[t].status = "PENDING"
                 PROVE  t \in b
      BY <2>1, <2>2
    <3> HIDE DEF W
    <3>1. W \in SUBSET Films
      BY DEF W
    <3> QED
      BY <2>3, <3>1, ShortBatch
  <2> QED
    BY <1>1, <2>1, <2>4
<1>4. ASSUME NEW s \in Syncs, P!Ask(s) PROVE \A q \in Syncs : Missed(q)'
  <2>1. UNCHANGED <<rows, failures>> /\ \A q \in Syncs : q # s => syncs'[q] = syncs[q]
    BY <1>4 DEF P!Ask
  <2>2. syncs[s].at = "next" /\ syncs'[s].left = syncs[s].left /\ syncs'[s].full = syncs[s].full
    BY <1>4 DEF P!Ask, P!Sync
  <2> QED
    BY <1>1, <2>1, <2>2
<1>5. ASSUME NEW s \in Syncs, P!Write(s) PROVE \A q \in Syncs : Missed(q)'
  <2> DEFINE t == P!First(syncs[s].left)
  <2> DEFINE on == [syncs[s] EXCEPT !.at = "next", !.left = @ \ {t}, !.found = {}]
  <2> SUFFICES ASSUME failures' = 0 PROVE \A q \in Syncs : Missed(q)'
    OBVIOUS
  <2>0. failures \in Nat
    BY <1>0 DEF P!PosterAssumption
  <2>2. /\ failures = 0 /\ rows' = [rows EXCEPT ![t] = P!Answered(t, rows[t], syncs[s].found)]
        /\ syncs' = [syncs EXCEPT ![s] = on]
    <3>1. failures' # failures + 1
      BY <2>0
    <3>2. UNCHANGED failures
      BY <3>1, <1>5 DEF P!Write
    <3> QED
      BY <3>1, <3>2, <1>5 DEF P!Write
  <2>4. /\ on.left = syncs[s].left \ {t} /\ on.full = syncs[s].full
        /\ syncs[s].at = "write" /\ syncs \in [Syncs -> P!Sync]
    <3>1. syncs[s].at = "write"
      BY <1>5 DEF P!Write
    <3>2. syncs \in [Syncs -> P!Sync] /\ syncs[s] \in P!Sync
      OBVIOUS
    <3> HIDE DEF t
    <3>3. on.left = syncs[s].left \ {t} /\ on.full = syncs[s].full
      BY <3>2 DEF P!Sync
    <3> QED
      BY <3>1, <3>2, <3>3
  <2>1. /\ \A q \in Syncs : q # s => syncs'[q] = syncs[q]
        /\ syncs[s].at = "write" /\ syncs'[s].left = syncs[s].left \ {t} /\ syncs'[s].full = syncs[s].full
    <3> HIDE DEF on, t
    <3> QED
      BY <2>2, <2>4
  <2> HIDE DEF t
  <2>3. \A u \in Films : rows'[u].status = "PENDING" => rows[u].status = "PENDING" /\ u # t
    BY <2>2, AnsweredRow, SyncFields
  <2> QED
    BY <1>1, <2>1, <2>2, <2>3
<1>6. CASE UNCHANGED P!vars
  BY <1>1, <1>6 DEF P!vars
<1> QED
  BY <1>2, <1>3, <1>4, <1>5, <1>6 DEF P!Next, P!Step

LEMMA PosterSafety ==
  ASSUME P!PosterAssumption
  PROVE  P!Spec => []PosterInv
<1>1. P!Init => PosterInv
  <2> SUFFICES ASSUME P!Init PROVE PosterInv
    OBVIOUS
  <2>1. P!Idle \in P!Sync /\ P!Idle.at = "idle"
    BY DEF P!Idle, P!Sync
  <2> QED
    BY <2>1 DEF P!Init, PosterInv, P!TypeOK, NothingMissed, P!Row, P!Status, P!PosterAssumption
<1>2. PosterInv /\ [P!Next]_(P!vars) => PosterInv'
  BY PosterTypeStep, MissedStep DEF PosterInv
<1> QED
  BY <1>1, <1>2, PTL DEF P!Spec

\* A title keeps the artwork it has, whatever the syncs that overlap are told of
\* it and in whichever order they write: COALESCE in the UPDATE of tmdb_worker.py.
THEOREM ArtworkIsKept ==
  ASSUME P!PosterAssumption
  PROVE  P!Spec => ArtworkKept
<1>1. ASSUME P!TypeOK, [P!Next]_(P!vars) PROVE [\A t \in Films : rows[t].art \subseteq rows'[t].art]_(P!vars)
  <2> SUFFICES ASSUME NEW t \in Films PROVE rows[t].art \subseteq rows'[t].art
    OBVIOUS
  <2>1. ASSUME NEW s \in Syncs, P!Write(s) PROVE rows[t].art \subseteq rows'[t].art
    <3> DEFINE u == P!First(syncs[s].left)
    <3>1. rows' = rows \/ rows' = [rows EXCEPT ![u] = P!Answered(u, rows[u], syncs[s].found)]
      BY <2>1 DEF P!Write
    <3> HIDE DEF u
    <3>2. syncs[s].found \in SUBSET {"poster", "backdrop"}
      BY <1>1, SyncFields DEF P!TypeOK
    <3> QED
      BY <1>1, <3>1, <3>2, AnsweredRow DEF P!TypeOK
  <2>2. \/ rows' = rows \/ \E s \in Syncs : P!Write(s)
    BY <1>1 DEF P!Next, P!Step, P!StartSync, P!Fetch, P!Ask, P!BatchDone, P!Stop, P!vars
  <2> QED
    BY <2>1, <2>2
<1>2. PosterInv /\ [P!Next]_(P!vars) => [\A t \in Films : rows[t].art \subseteq rows'[t].art]_(P!vars)
  BY <1>1 DEF PosterInv
<1> QED
  BY <1>2, PosterSafety, PTL DEF P!Spec, ArtworkKept, P!ArtworkKept

\* Run until complete: a sync without a limit that ends by itself, and met no
\* failing statement, has left no title PENDING, though the batches are cut by
\* LIMIT, titles change between them and other syncs take some of them
\* (sync_missing_posters).
THEOREM SyncsEndComplete ==
  ASSUME P!PosterAssumption
  PROVE  P!Spec => EndsComplete
<1> DEFINE Ends(s) == /\ syncs[s].at # "idle" /\ MaxBatches[s] = None /\ failures = 0
                      /\ P!Fetch(s) \/ P!BatchDone(s)
                      /\ syncs'[s].at = "idle"
                      => \A t \in Films : rows[t].status # "PENDING"
<1>1. ASSUME PosterInv PROVE \A s \in Syncs : Ends(s)
  <2> SUFFICES ASSUME NEW s \in Syncs, MaxBatches[s] = None, failures = 0, syncs'[s].at = "idle",
                      P!Fetch(s) \/ P!BatchDone(s), NEW t \in Films, rows[t].status = "PENDING"
               PROVE  FALSE
    OBVIOUS
  <2>1. P!TypeOK /\ NothingMissed
    BY <1>1 DEF PosterInv
  <2>2. CASE P!Fetch(s)
    <3> DEFINE W == {u \in Films : P!Wanting(u)}
               b == P!Batch(W)
    <3>1. t \in W
      BY DEF P!Wanting
    <3>2. syncs[s].batch = MaxBatches[s] \/ b = {}
      BY <2>1, <2>2, Fetched
    <3>3. syncs[s].batch # MaxBatches[s]
      BY <2>1, SyncFields DEF P!TypeOK, P!PosterAssumption
    <3>4. b = {}
      BY <3>2, <3>3
    <3> HIDE DEF W, b
    <3>5. W \in SUBSET Films
      BY DEF W
    <3> QED
      BY <3>1, <3>4, <3>5, NewestIs DEF b
  <2>3. CASE P!BatchDone(s)
    <3>1. syncs[s].at = "next" /\ syncs[s].left = {} /\ ~ syncs[s].full
      BY <2>1, <2>3 DEF P!BatchDone, P!TypeOK, P!Sync
    <3> QED
      BY <2>1, <3>1 DEF NothingMissed
  <2> QED
    BY <2>2, <2>3
<1>2. PosterInv => [\A s \in Syncs : Ends(s)]_(P!vars)
  BY <1>1
<1> QED
  BY <1>2, PosterSafety, PTL DEF EndsComplete, P!EndsComplete
=============================================================================
