---------------------------- MODULE JobRecovery ----------------------------
(***************************************************************************)
(* Several lives of the process over one database.  A life ends in a crash *)
(* (or the os.Exit of /restart), or in SIGTERM, after which goroutines run *)
(* on until the process is gone.  The next life counts jobs from zero and  *)
(* reads the rows that are queued or running (RecoverJobs), one row at a   *)
(* time and without jm.mu, while commands already arrive.                  *)
(*                                                                         *)
(* A request is what a user asked for; every request has a user of its own.*)
(***************************************************************************)
EXTENDS JobManager

CONSTANTS
  MaxRequests,   \* bound: requests in one behaviour
  MaxLives       \* bound: lives of the process

\* Identifiers for all requests.  A life may execute a request twice (see
\* collided) and stops recovering at MaxJobs *Job values.
ASSUME JobRecoveryAssumption ==
  MaxRequests \in 0..MaxJobs /\ MaxLives \in Nat \ {0}

Request == 1..MaxRequests

VARIABLES
  mode,      \* up, stopping (after SIGTERM) or down
  recovery,  \* RecoverJobs has notLoaded the rows, loaded them, or returned
  lives,     \* how many lives have begun
  pending,   \* the records RecoverJobs has loaded and not handled yet
  accepted,  \* how many requests were accepted
  req,       \* the request whose source and target job o carries
  owner,     \* the request whose user is job.UserID
  rowReq,    \* the same two of a row: an upsert replaces the source
  rowOwner,  \* and the target, and keeps the user_id of the first insert
  cancelled, \* requests whose cancellation was confirmed
  told,      \* requests whose end was reported to the user
  finished,  \* requests FinishJob marked completed
  signalled, \* requests a SIGTERM found unfinished
  collided   \* history: requests that met another one under their identifier,
             \* or themselves, because jobCounter starts again in every life

requestVars == <<accepted, req, owner, cancelled, told, finished, signalled,
                 collided>>
rowVars == <<rowReq, rowOwner>>
lifeVars == <<mode, recovery, lives, pending>>
allVars == <<vars, requestVars, rowVars, lifeVars>>

Record == [id : JobID, req : Request, owner : Request]

RecoveryInit ==
  /\ Init
  /\ mode = "up" /\ recovery = "returned" /\ lives = 1 /\ pending = {}
  /\ accepted = 0
  /\ req = [o \in Job |-> 0] /\ owner = [o \in Job |-> 0]
  /\ rowReq = [n \in JobID |-> 0] /\ rowOwner = [n \in JobID |-> 0]
  /\ cancelled = {} /\ told = {} /\ finished = {} /\ signalled = {}
  /\ collided = {}
-----------------------------------------------------------------------------
\* The rows a restart reads.
LiveRows == {n \in JobID : row[n] \in {"queued", "running"}}

\* What SaveJob writes beside the status.
SaveSource ==
  /\ rowReq' = [n \in JobID |-> IF SavedAs(n) = {} THEN rowReq[n]
                                ELSE req'[CHOOSE o \in SavedAs(n) : TRUE]]
  /\ rowOwner' = [n \in JobID |-> IF SavedAs(n) = {} \/ rowOwner[n] # 0
                                  THEN rowOwner[n]
                                  ELSE owner'[CHOOSE o \in SavedAs(n) : TRUE]]

TakesCommands == mode = "up"

\* The requests whose row RecoverJobs has still to load under the identifier n,
\* or has loaded and not handled yet.
Unrecovered(n) ==
  {rowReq[m] : m \in {n} \cap LiveRows} \cup {p.req : p \in {q \in pending : q.id = n}}

\* A command that starts a job, for the next request.  Its identifier is the
\* next of this life, whatever the rows of earlier lives are called.
Accept ==
  /\ TakesCommands
  /\ accepted < MaxRequests
  /\ CreateJob
  /\ accepted' = accepted + 1
  /\ req'   = [req EXCEPT ![allocated'] = accepted']
  /\ owner' = [owner EXCEPT ![allocated'] = accepted']
  /\ LET met == Unrecovered(jobCounter')
     IN  collided' = IF met = {} THEN collided ELSE collided \cup met \cup {accepted'}
  /\ UNCHANGED <<cancelled, told, finished, signalled, lifeVars>>
  /\ SaveSource

Cancel(n) ==
  /\ TakesCommands
  /\ CancelJob(n)
  /\ cancelled' = cancelled \cup {req[o] : o \in Entry(n)}
  /\ UNCHANGED <<accepted, req, owner, told, finished, signalled, collided, lifeVars>>
  /\ SaveSource

CancelAll ==
  /\ TakesCommands
  /\ CancelAllJobs
  /\ cancelled' = cancelled \cup {req[o] : o \in active}
  /\ UNCHANGED <<accepted, req, owner, told, finished, signalled, collided,
                 rowVars, lifeVars>>
-----------------------------------------------------------------------------
(* Goroutines of jobs run in every mode but down. *)

EndsTransfer(o) ==
  /\ \/ TransferSucceeds(o) /\ told' = told \cup {req[o]}
     \/ TransferFails(o) /\ UNCHANGED told
     \/ TransferCancelled(o) /\ UNCHANGED told
  /\ UNCHANGED <<accepted, req, owner, cancelled, finished, signalled, collided,
                 rowVars, lifeVars>>

ReportsFailure(o) ==
  \/ /\ SendJobFailure(o)
     /\ UNCHANGED <<requestVars, rowVars, lifeVars>>
  \/ /\ ReportFailure(o)
     /\ told' = told \cup {req[o]}
     /\ UNCHANGED <<accepted, req, owner, cancelled, finished, signalled, collided,
                 rowVars, lifeVars>>

Finishes(o) ==
  /\ FinishJob(o)
  /\ finished' = finished \cup {req[j] : j \in Entry(id[o])}
  /\ UNCHANGED <<accepted, req, owner, cancelled, told, signalled, collided, lifeVars>>
  /\ SaveSource

\* A goroutine that has learnt its job's name and size, and /restart, save.
Saves ==
  /\ mode # "down"
  /\ SaveStateNow
  /\ UNCHANGED <<requestVars, lifeVars>>
  /\ SaveSource

Works(o) ==
  mode # "down" /\ (EndsTransfer(o) \/ ReportsFailure(o) \/ Finishes(o))
-----------------------------------------------------------------------------
(* The end of a life. *)

\* Everything in memory is gone.
Crash ==
  /\ mode # "down"
  /\ mode' = "down"
  /\ jobCounter' = 0 /\ allocated' = 0
  /\ id' = [o \in Job |-> 0] /\ active' = {} /\ queue' = <<>>
  /\ state' = [o \in Job |-> "none"] /\ worker' = [o \in Job |-> "none"]
  /\ ctxDone' = {} /\ pending' = {}
  /\ req' = [o \in Job |-> 0] /\ owner' = [o \in Job |-> 0]
  /\ recovery' = "notLoaded"
  /\ UNCHANGED <<maxConcurrency, row, rowVars, lives, accepted, cancelled, told,
                 finished, signalled, collided>>

\* SIGTERM: the signal's context, of which every job's context is a child,
\* ends, and Stop cancels the jobs of the table.
Stop ==
  /\ mode = "up"
  /\ mode' = "stopping"
  /\ ctxDone' = ctxDone \cup active
  /\ signalled' = signalled \cup
                    {rowReq[n] : n \in LiveRows}
  /\ UNCHANGED <<maxConcurrency, jobCounter, allocated, id, active, queue, state,
                 worker, row, accepted, req, owner, cancelled, told, finished,
                 collided, rowVars, recovery, lives, pending>>

Boot ==
  /\ mode = "down"
  /\ lives < MaxLives
  /\ lives' = lives + 1
  /\ mode' = "up"
  /\ maxConcurrency' \in Limits
  /\ UNCHANGED <<jobCounter, allocated, id, active, queue, state, worker, ctxDone,
                 row, requestVars, rowVars, recovery, pending>>
-----------------------------------------------------------------------------
(* RecoverJobs, in a goroutine of its own beside the command handlers. *)

\* LoadPersistedState.  Rows created within one second come in any order.  A
\* row this life has written is loaded with the others, and its job made again.
LoadRunning ==
  /\ mode # "down" /\ recovery = "notLoaded"
  /\ recovery' = "loaded"
  /\ pending' = {[id |-> n, req |-> rowReq[n], owner |-> rowOwner[n]] :
                   n \in {m \in JobID : row[m] = "running"}}
  /\ collided' = collided \cup {rowReq[n] : n \in {m \in LiveRows : m <= jobCounter}}
  /\ UNCHANGED <<vars, accepted, req, owner, cancelled, told, finished, signalled,
                 rowVars, mode, lives>>
Load ==
  /\ mode # "down" /\ recovery = "notLoaded"
  /\ recovery' = "loaded"
  /\ pending' = {[id |-> n, req |-> rowReq[n], owner |-> rowOwner[n]] : n \in LiveRows}
  /\ collided' = collided \cup {rowReq[n] : n \in {m \in LiveRows : m <= jobCounter}}
  /\ UNCHANGED <<vars, accepted, req, owner, cancelled, told, finished, signalled,
                 rowVars, mode, lives>>

\* CreateRecoveredJob: the record's job enters the table under its old id.
RecoverUncounted(p) ==
  /\ mode # "down" /\ p \in pending /\ allocated < MaxJobs
  /\ pending' = pending \ {p}
  /\ UNCHANGED jobCounter
  /\ ctxDone' = IF mode = "stopping" THEN ctxDone \cup {allocated + 1} ELSE ctxDone
  /\ Admit(allocated + 1, p.id)
  /\ req'   = [req EXCEPT ![allocated'] = p.req]
  /\ owner' = [owner EXCEPT ![allocated'] = p.owner]
  /\ UNCHANGED <<accepted, cancelled, told, finished, signalled, collided, mode,
                 recovery, lives>>
  /\ SaveSource
Recover(p) ==
  /\ mode # "down" /\ p \in pending /\ allocated < MaxJobs
  /\ pending' = pending \ {p}
  /\ jobCounter' = IF p.id > jobCounter THEN p.id ELSE jobCounter
  /\ ctxDone' = IF mode = "stopping" THEN ctxDone \cup {allocated + 1} ELSE ctxDone
  /\ Admit(allocated + 1, p.id)
  /\ req'   = [req EXCEPT ![allocated'] = p.req]
  /\ owner' = [owner EXCEPT ![allocated'] = p.owner]
  /\ UNCHANGED <<accepted, cancelled, told, finished, signalled, collided, mode,
                 recovery, lives>>
  /\ SaveSource

\* The source of a record cannot be reached: the requester is told, unless the
\* probe failed because its context ended, and RemovePersistedJob drops what
\* the table holds under the record's id.  It starts no queued job.
Reject(p) ==
  /\ mode # "down" /\ p \in pending
  /\ pending' = pending \ {p}
  /\ told'   = IF mode = "stopping" THEN told ELSE told \cup {p.req}
  /\ active' = active \ Entry(p.id)
  /\ queue'  = Unqueue(p.id)
  /\ UNCHANGED <<maxConcurrency, jobCounter, allocated, id, state, worker, ctxDone,
                 accepted, req, owner, cancelled, finished, signalled, collided, mode,
                 recovery, lives>>
  /\ SaveState(CompleteRow(row, p.id, "cancelled"))
  /\ SaveSource

RecoveryReturns ==
  /\ mode # "down" /\ recovery = "loaded" /\ pending = {}
  /\ recovery' = "returned"
  /\ UNCHANGED <<vars, requestVars, rowVars, mode, lives, pending>>

RecoveryStep ==
  \/ Boot \/ Load \/ RecoveryReturns
  \/ \E p \in pending : Recover(p) \/ Reject(p)
-----------------------------------------------------------------------------
RecoveryNext ==
  \/ Accept
  \/ \E n \in JobID : Cancel(n)
  \/ CancelAll
  \/ Saves
  \/ \E o \in Job : Works(o)
  \/ Crash
  \/ Stop
  \/ RecoveryStep

RecoverySpec == RecoveryInit /\ [][RecoveryNext]_allVars

\* systemd restarts the process, RecoverJobs goes on, and so do goroutines.
FairRecoverySpec ==
  /\ RecoverySpec
  /\ WF_allVars(RecoveryStep)
  /\ \A o \in Job : WF_allVars(Works(o))
-----------------------------------------------------------------------------
RecoveryTypeOK ==
  /\ TypeOK
  /\ mode \in {"up", "stopping", "down"}
  /\ recovery \in {"notLoaded", "loaded", "returned"}
  /\ lives \in 1..MaxLives
  /\ pending \subseteq Record
  /\ accepted \in 0..MaxRequests
  /\ req \in [Job -> 0..MaxRequests] /\ owner \in [Job -> 0..MaxRequests]
  /\ rowReq \in [JobID -> 0..MaxRequests] /\ rowOwner \in [JobID -> 0..MaxRequests]
  /\ cancelled \subseteq Request /\ told \subseteq Request
  /\ finished \subseteq Request /\ signalled \subseteq Request
  /\ collided \subseteq Request

Live(o) == worker[o] \in {"transfer", "failed", "reporting", "returning"}

\* The requests a restart at this moment would resume.
Resumable == {rowReq[n] : n \in LiveRows}

\* A crash at this very moment loses nothing: until its user has cancelled it
\* or was told its end, a request has a row that RecoverJobs will load.  It
\* leaves out the requests a SIGTERM met and those whose identifiers met.
CrashLosesNothing ==
  1..accepted \subseteq cancelled \cup told \cup signalled \cup collided \cup Resumable

\* SIGTERM, which is how systemd stops the bot, loses nothing either
\* (README.md:93 "Persistence file for restart resume").
SigtermLosesNothing == 1..accepted \subseteq cancelled \cup told \cup collided \cup Resumable

\* Nor does a command that comes before RecoverJobs has returned (main.go:92,
\* main.go:103, README.md:93 "Persistence file for restart resume").
CommandsLoseNothing == 1..accepted \subseteq cancelled \cup told \cup signalled \cup Resumable

\* Unless identifiers met, no request is executed twice at the same time, and
\* no goroutine works for a job that /status and /cancel do not see unless it
\* was cancelled.
OneRunPerRequest ==
  /\ RecoveryTypeOK
  /\ \A o \in Job : Live(o) /\ req[o] \notin collided =>
       /\ o \in active \/ state[o] = "CANCELLED"
       /\ \A p \in Job \ {o} : Live(p) => req[p] # req[o]

\* /cancelall reaches every job that is executed (README.md:36 "Cancel all
\* active and queued jobs"), also the one whose place in jm.active
\* CreateRecoveredJob has taken (job_manager.go:338).
CancelAllReachesAll ==
  [][CancelAll => \A o \in Job : Live(o) => o \in ctxDone']_allVars

\* What FinishJob marked completed is not executed again by a later life,
\* unless identifiers met.
FinishedNeverRepeats ==
  [][\A o \in Job : worker[o] = "none" /\ worker'[o] = "transfer" =>
                      req'[o] \notin finished \ collided]_allVars

\* A cancelled request is not executed again (README.md:36 "Cancel all active
\* and queued jobs").
CancelledStaysCancelled ==
  [][\A o \in Job : worker[o] = "none" /\ worker'[o] = "transfer" =>
                      req'[o] \notin cancelled]_allVars

\* A job carries the user who asked for it, after restarts too.
OwnerKept == \A o \in active : owner[o] = req[o]

\* Every request is reported or cancelled in the end, unless the process stays
\* down, a SIGTERM met the request or identifiers met.
RequestsSettle ==
  \A r \in Request :
    r <= accepted ~> mode = "down" \/ r \in told \cup cancelled \cup signalled \cup collided

=============================================================================
