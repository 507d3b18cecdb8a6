----------------------------- MODULE JobManager -----------------------------
(***************************************************************************)
(* One life of the process that runs job_manager.go: the table of jobs,    *)
(* the queue behind it, the goroutines that execute jobs, and the rows     *)
(* saveStateLocked writes.  Every JobManager method holds jm.mu from entry *)
(* to return, so each is one action.  A job's goroutine takes its steps    *)
(* outside the mutex, so they are actions of their own.                    *)
(*                                                                         *)
(* A *Job is the number of its allocation; "job-N" is N.  The two differ   *)
(* only once a later life of the process reuses identifiers (JobRecovery). *)
(***************************************************************************)
EXTENDS Integers, Sequences, FiniteSets, SequencesExt

CONSTANTS MaxJobs,   \* bound: *Job values allocated in one behaviour
          Limits,    \* max_concurrency at startup
          Reloads    \* what /reload may set max_concurrency to

ASSUME JobManagerAssumption ==
  /\ MaxJobs \in Nat \ {0}
  /\ Limits \subseteq Nat \ {0}
  /\ Reloads \subseteq Int

Job   == 1..MaxJobs
JobID == 1..MaxJobs

VARIABLES
  maxConcurrency, jobCounter,
  allocated,  \* how many *Job values exist
  id,         \* job.ID, 0 before the job exists
  active,     \* the values of jm.active; their ids are distinct
  queue,      \* jm.queue
  state,      \* job.State
  worker,     \* where the goroutine of job.Execute is
  ctxDone,    \* the jobs whose job.Ctx is done
  row         \* jobs.status in the database, by id

vars == <<maxConcurrency, jobCounter, allocated, id, active, queue, state,
          worker, ctxDone, row>>

JobState  == {"none", "QUEUED", "RUNNING", "CANCELLED", "COMPLETED"}
\* transfer: downloading and uploading; failed: the transfer returned an
\* error; reporting: past the test of sendJobFailure; returning: nothing left
\* but the deferred FinishJob.
Worker    == {"none", "transfer", "failed", "reporting", "returning", "done"}
RowStatus == {"none", "queued", "running", "completed", "failed", "cancelled"}

Init ==
  /\ maxConcurrency \in Limits
  /\ jobCounter = 0
  /\ allocated = 0
  /\ id = [o \in Job |-> 0]
  /\ active = {}
  /\ queue = <<>>
  /\ state = [o \in Job |-> "none"]
  /\ worker = [o \in Job |-> "none"]
  /\ ctxDone = {}
  /\ row = [n \in JobID |-> "none"]
-----------------------------------------------------------------------------
(* The pieces the methods share. *)

\* The value of jm.active under key n: a set of at most one job.
Entry(n) == {o \in active : id[o] = n}

\* for _, j := range jm.active { if j.State == StateRunning { count++ } }
Running(table, st) == {o \in table : st[o] = "RUNNING"}

HasSlotOffByOne(table, st) == Cardinality(Running(table, st)) <= maxConcurrency
HasSlot(table, st) == Cardinality(Running(table, st)) < maxConcurrency

\* The queue without the first job whose id is n.
UnqueueNothing(n) == queue
Unqueue(n) == RemoveFirstMatch(queue, LAMBDA o : id[o] = n)

\* UPDATE jobs SET status = s WHERE id = n: no effect without a row.
CompleteNoRow(rows, n, s) == rows
CompleteRow(rows, n, s) ==
  IF rows[n] = "none" THEN rows ELSE [rows EXCEPT ![n] = s]

\* strings.ToLower(string(job.State)); a state that is not set saves as queued.
Lower == [none |-> "queued", QUEUED |-> "queued", RUNNING |-> "running",
          CANCELLED |-> "cancelled", COMPLETED |-> "completed"]

\* The job whose values the row of id n holds once saveStateLocked returns:
\* it upserts every job of the table, then the queue from its head, which is
\* in the order of allocation: of two jobs of one id the last counts.
SavedAs(n) ==
  LET inTable == {o \in active' : id'[o] = n}
      inQueue == {o \in ToSet(queue') : id'[o] = n}
  IN  IF inQueue # {} THEN {o \in inQueue : \A p \in inQueue : p <= o} ELSE inTable

\* saveStateLocked at the end of a method; rows is the database before it.
InsertState(rows) ==
  row' = [n \in JobID |-> IF SavedAs(n) = {} \/ rows[n] # "none" THEN rows[n]
                          ELSE Lower[state'[CHOOSE o \in SavedAs(n) : TRUE]]]
SaveState(rows) ==
  row' = [n \in JobID |-> IF SavedAs(n) = {} THEN rows[n]
                          ELSE Lower[state'[CHOOSE o \in SavedAs(n) : TRUE]]]

\* The tail of FinishJob and CancelJob: with a free slot, the head of the
\* queue starts.  The arguments are the table, the queue, the states and the
\* goroutines as the method left them so far.
Promote(table, q, st, w) ==
  /\ active' = table
  /\ IF HasSlot(table, st) /\ q # <<>>
       THEN /\ queue'  = Tail(q)
            /\ state'  = [st EXCEPT ![Head(q)] = "RUNNING"]
            /\ worker' = [w EXCEPT ![Head(q)] = "transfer"]
       ELSE queue' = q /\ state' = st /\ worker' = w

\* The common part of CreateJob and CreateRecoveredJob: job o enters the
\* table under key n and starts when a slot is free, else it queues.
AdmitAtHead(o, n) ==
  LET others == active \ Entry(n)
      start  == HasSlot(others, state)
  IN /\ allocated' = o
     /\ id' = [id EXCEPT ![o] = n]
     /\ active' = others \cup {o}
     /\ state'  = [state EXCEPT ![o] = IF start THEN "RUNNING" ELSE "QUEUED"]
     /\ worker' = IF start THEN [worker EXCEPT ![o] = "transfer"] ELSE worker
     /\ queue'  = IF start THEN queue ELSE <<o>> \o queue
     /\ UNCHANGED maxConcurrency
     /\ SaveState(row)
Admit(o, n) ==
  LET others == active \ Entry(n)
      start  == HasSlot(others, state)
  IN /\ allocated' = o
     /\ id' = [id EXCEPT ![o] = n]
     /\ active' = others \cup {o}
     /\ state'  = [state EXCEPT ![o] = IF start THEN "RUNNING" ELSE "QUEUED"]
     /\ worker' = IF start THEN [worker EXCEPT ![o] = "transfer"] ELSE worker
     /\ queue'  = IF start THEN queue ELSE Append(queue, o)
     /\ UNCHANGED maxConcurrency
     /\ SaveState(row)
-----------------------------------------------------------------------------
(* The methods of JobManager. *)

CreateJob ==
  /\ allocated < MaxJobs
  /\ jobCounter' = jobCounter + 1
  /\ UNCHANGED ctxDone
  /\ Admit(allocated + 1, jobCounter')

\* The deferred call at the end of job o's goroutine.
FinishJobStartsNone(o) ==
  LET n     == id[o]
      entry == Entry(n)
  IN /\ worker[o] = "returning"
     /\ active' = active \ entry
     /\ queue'  = Unqueue(n)
     /\ state'  = [j \in Job |-> IF j \in entry THEN "COMPLETED" ELSE state[j]]
     /\ worker' = [worker EXCEPT ![o] = "done"]
     /\ ctxDone' = ctxDone \cup entry
     /\ UNCHANGED <<maxConcurrency, jobCounter, allocated, id>>
     /\ SaveState(IF entry = {} THEN row ELSE CompleteRow(row, n, "completed"))
FinishJob(o) ==
  LET n     == id[o]
      entry == Entry(n)
  IN /\ worker[o] = "returning"
     /\ Promote(active \ entry, Unqueue(n),
                [j \in Job |-> IF j \in entry THEN "COMPLETED" ELSE state[j]],
                [worker EXCEPT ![o] = "done"])
     /\ ctxDone' = ctxDone \cup entry
     /\ UNCHANGED <<maxConcurrency, jobCounter, allocated, id>>
     /\ SaveState(IF entry = {} THEN row ELSE CompleteRow(row, n, "completed"))

\* /cancel n, for an n that names a job of the table.
CancelJobKeepsContext(n) ==
  LET entry == Entry(n)
  IN /\ entry # {}
     /\ Promote(active \ entry, Unqueue(n),
                [j \in Job |-> IF j \in entry THEN "CANCELLED" ELSE state[j]],
                worker)
     /\ UNCHANGED <<maxConcurrency, jobCounter, allocated, id, ctxDone>>
     /\ SaveState(row)
CancelJobStartsNone(n) ==
  LET entry == Entry(n)
  IN /\ entry # {}
     /\ active' = active \ entry
     /\ queue'  = Unqueue(n)
     /\ state'  = [j \in Job |-> IF j \in entry THEN "CANCELLED" ELSE state[j]]
     /\ ctxDone' = ctxDone \cup entry
     /\ UNCHANGED <<maxConcurrency, jobCounter, allocated, id, worker>>
     /\ SaveState(row)
CancelJob(n) ==
  LET entry == Entry(n)
  IN /\ entry # {}
     /\ Promote(active \ entry, Unqueue(n),
                [j \in Job |-> IF j \in entry THEN "CANCELLED" ELSE state[j]],
                worker)
     /\ ctxDone' = ctxDone \cup entry
     /\ UNCHANGED <<maxConcurrency, jobCounter, allocated, id>>
     /\ SaveState(row)

\* /cancelall
CancelAllJobs ==
  /\ state'   = [o \in Job |-> IF o \in active THEN "CANCELLED" ELSE state[o]]
  /\ ctxDone' = ctxDone \cup active
  /\ active'  = {}
  /\ queue'   = <<>>
  /\ UNCHANGED <<maxConcurrency, jobCounter, allocated, id, worker>>
  /\ SaveState(row)

\* /reload: a new limit starts nothing and stops nothing.
SetAnyConcurrency(n) ==
  /\ maxConcurrency' = n
  /\ UNCHANGED <<jobCounter, allocated, id, active, queue, state, worker,
                 ctxDone, row>>
SetMaxConcurrency(n) ==
  /\ n > 0
  /\ maxConcurrency' = n
  /\ UNCHANGED <<jobCounter, allocated, id, active, queue, state, worker,
                 ctxDone, row>>

\* SaveState, which goroutines call once they know a job's name and size, and
\* /restart before it exits.
SaveStateNow ==
  /\ UNCHANGED <<maxConcurrency, jobCounter, allocated, id, active, queue,
                 state, worker, ctxDone>>
  /\ SaveState(row)
-----------------------------------------------------------------------------
(* The goroutine of job.Execute: executeMirrorJob, and executeURLMirrorJob,
   executeLeechJob and the torrent jobs, which share its shape. *)

\* The transfer ended well: sendMirrorCompletion tells the requester.
TransferSucceeds(o) ==
  /\ worker[o] = "transfer"
  /\ worker' = [worker EXCEPT ![o] = "returning"]
  /\ UNCHANGED <<maxConcurrency, jobCounter, allocated, id, active, queue,
                 state, ctxDone, row>>

\* The transfer returned an error of its own.
TransferFails(o) ==
  /\ worker[o] = "transfer"
  /\ worker' = [worker EXCEPT ![o] = "failed"]
  /\ UNCHANGED <<maxConcurrency, jobCounter, allocated, id, active, queue,
                 state, ctxDone, row>>

\* The transfer returned context.Canceled, of which sendJobFailure says
\* nothing.
TransferCancelled(o) ==
  /\ worker[o] = "transfer"
  /\ o \in ctxDone
  /\ worker' = [worker EXCEPT ![o] = "returning"]
  /\ UNCHANGED <<maxConcurrency, jobCounter, allocated, id, active, queue,
                 state, ctxDone, row>>

\* sendJobFailure reads job.State without jm.mu ...
SendJobFailure(o) ==
  /\ worker[o] = "failed"
  /\ worker' = [worker EXCEPT ![o] = IF state[o] = "CANCELLED"
                                       THEN "returning" ELSE "reporting"]
  /\ UNCHANGED <<maxConcurrency, jobCounter, allocated, id, active, queue,
                 state, ctxDone, row>>

\* ... and then writes the row and tells the requester.
ReportFailure(o) ==
  /\ worker[o] = "reporting"
  /\ worker' = [worker EXCEPT ![o] = "returning"]
  /\ row'    = CompleteRow(row, id[o], "failed")
  /\ UNCHANGED <<maxConcurrency, jobCounter, allocated, id, active, queue,
                 state, ctxDone>>

\* The context CreateJob was called with ends, and job.Ctx with it: a feed
\* check cancels its context as soon as it has created its jobs.
CallerDone(o) ==
  /\ o \in active \ ctxDone
  /\ ctxDone' = ctxDone \cup {o}
  /\ UNCHANGED <<maxConcurrency, jobCounter, allocated, id, active, queue,
                 state, worker, row>>
-----------------------------------------------------------------------------
EndTransfer(o) == TransferSucceeds(o) \/ TransferFails(o) \/ TransferCancelled(o)

WorkerStep(o) ==
  EndTransfer(o) \/ SendJobFailure(o) \/ ReportFailure(o) \/ FinishJob(o)

Command ==
  \/ CreateJob
  \/ \E n \in JobID : CancelJob(n)
  \/ CancelAllJobs
  \/ \E n \in Reloads : SetMaxConcurrency(n)
  \/ SaveStateNow

Next == Command \/ \E o \in Job : WorkerStep(o) \/ CallerDone(o)

Spec == Init /\ [][Next]_vars

\* A goroutine that can step does.  That every transfer ends, well or badly,
\* is an assumption about the network and the services behind it.
Fairness == \A o \in Job : WF_vars(WorkerStep(o))

FairSpec == Spec /\ Fairness
-----------------------------------------------------------------------------
TypeOK ==
  /\ maxConcurrency \in Nat \ {0}
  /\ jobCounter \in 0..MaxJobs
  /\ allocated \in 0..MaxJobs
  /\ id \in [Job -> 0..MaxJobs]
  /\ active \subseteq Job
  /\ queue \in Seq(Job)
  /\ state \in [Job -> JobState]
  /\ worker \in [Job -> Worker]
  /\ ctxDone \subseteq Job
  /\ row \in [JobID -> RowStatus]

\* The table, the queue and job.State are three records of one thing, updated
\* by different lines of five methods: a job is queued exactly when it is in
\* the queue, it is in the table exactly while it is queued or running, and
\* the queue holds no job twice and keeps the order of creation.
QueueAgreesWithTable ==
  /\ \A o \in Job : state[o] = "QUEUED" <=> o \in ToSet(queue)
  /\ \A o \in Job : state[o] \in {"QUEUED", "RUNNING"} <=> o \in active
  /\ \A i, k \in DOMAIN queue : i < k => queue[i] < queue[k]

\* No slot leaks and no goroutine is started twice: a job counts as running
\* exactly while a goroutine that will call FinishJob works for it.  Only a
\* cancelled job's goroutine works without a slot, and its context is done.
SlotsHaveWorkers ==
  \A o \in Job :
    /\ state[o] = "RUNNING" =>
         worker[o] \in {"transfer", "failed", "reporting", "returning"}
    /\ state[o] = "QUEUED" => worker[o] = "none"
    /\ worker[o] \in {"transfer", "failed", "reporting", "returning"} =>
         state[o] = "RUNNING" \/ (state[o] = "CANCELLED" /\ o \in ctxDone)

\* Only FinishJob and CancelJob start a queued job, one each, and /reload
\* starts none; still nobody waits while nothing runs.
NoStall == queue # <<>> => Running(active, state) # {}

\* While the limit never changes no slot stays idle in front of a queue.
WorkConserving ==
  queue # <<>> => Cardinality(Running(active, state)) = maxConcurrency

\* What a restart would read: the row of every job of the table says what the
\* table says, except between a failure report and the FinishJob after it;
\* a job that finished stays finished whatever is saved later.
RowsFollowTable ==
  /\ \A o \in active : \/ row[id[o]] = Lower[state[o]]
                       \/ row[id[o]] = "failed" /\ worker[o] = "returning"
  /\ \A o \in Job : state[o] = "COMPLETED" => row[id[o]] = "completed"

\* Within one life a job's number is its allocation and its key "job-N" is N,
\* and what is not allocated yet is blank: what the proofs need beside the
\* properties above.
IdsFollowAllocation ==
  /\ jobCounter = allocated
  /\ \A o \in Job : id[o] = IF o <= allocated THEN o ELSE 0
  /\ \A o \in Job : o > allocated => state[o] = "none" /\ worker[o] = "none"

\* The inductive invariant of JobManagerProofs.
JobInv ==
  TypeOK /\ IdsFollowAllocation /\ QueueAgreesWithTable /\ SlotsHaveWorkers /\ NoStall

\* A step starts at most one job, and only while fewer than max_concurrency
\* run (README.md:91 "Max simultaneous transfers").
StartsWithinLimit ==
  [][LET started == Running(active', state') \ Running(active, state)
     IN  started # {} =>
           /\ Cardinality(started) = 1
           /\ Cardinality(Running(active', state')) <= maxConcurrency]_vars

\* A job cancelled while it waits is never executed, however the steps of
\* other jobs' goroutines interleave with the cancellation.
CancelledNeverStarts ==
  [][\A o \in Job : worker[o] = "none" /\ worker'[o] # "none" =>
                      state[o] # "CANCELLED" /\ state'[o] = "RUNNING"]_vars

\* Starts happen in order of arrival (DEVELOPMENT_PLAN.md:72 "FIFO queue with
\* configurable `max_concurrency`"): no job starts before one that waits.
StartsInOrder ==
  [][\A o \in Job : worker[o] = "none" /\ worker'[o] = "transfer" =>
       \A p \in ToSet(queue) : p # o => o < p]_vars

\* Every queued job is started or cancelled.
QueueDrains == \A o \in Job : state[o] = "QUEUED" ~> state[o] # "QUEUED"
-----------------------------------------------------------------------------
\* While /reload leaves the limit alone, the job manager is a FIFO pool.
Pool == INSTANCE JobPool WITH
  limit <- maxConcurrency, running <- Running(active, state), waiting <- queue

ImplementsPool == Pool!PoolSpec

=============================================================================
