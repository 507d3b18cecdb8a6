--------------------------- MODULE MirrorTransfer ---------------------------
(***************************************************************************)
(* How jobs that mirror Telegram files share the download slots of         *)
(* DownloadManager.  In stream mode a goroutine downloads into a pipe that *)
(* the job's goroutine uploads from (executeMirrorStream); in parallel     *)
(* mode the job's goroutine downloads to a temporary file and uploads it   *)
(* afterwards (executeMirrorParallel).  The download proper is an in-order *)
(* stream of chunks that may fail (InOrderStream); a write to the pipe     *)
(* returns when the chunk is read, and nobody closes the reading end.      *)
(***************************************************************************)
EXTENDS Integers, Sequences, FiniteSets, SequencesExt

CONSTANTS Job,     \* the jobs
          Slots,   \* max_concurrent_downloads
          Chunks,  \* how many chunks a file has
          Modes    \* download_mode, which is read once at startup

ASSUME MirrorTransferAssumption ==
  /\ IsFiniteSet(Job)
  /\ Slots \in Nat \ {0} /\ Chunks \in Nat \ {0}
  /\ Modes \subseteq {"stream", "parallel"}

VARIABLES
  mode,
  job,     \* where the job's goroutine is; parallel jobs download themselves
  result,  \* what the transfer returned
  line,    \* the waiters of dm.sem, in order
  slots,   \* the jobs on whose behalf a slot is taken
  down,    \* stream mode: where the downloading goroutine is
  pipe,    \* what a read finds when no chunk is offered: open, eof or error
  got,     \* stream mode: how many chunks were read from the pipe
  ctxDone  \* the jobs whose job.Ctx is done

vars == <<mode, job, result, line, slots, down, pipe, got, ctxDone>>

Init ==
  /\ mode \in Modes
  /\ job = [j \in Job |-> "new"] /\ result = [j \in Job |-> "none"]
  /\ line = <<>> /\ slots = {}
  /\ down = [j \in Job |-> "none"] /\ pipe = [j \in Job |-> "open"]
  /\ got = [j \in Job |-> 0]
  /\ ctxDone = {}

\* The transfer of job j returns r.
Return(j, r) ==
  job' = [job EXCEPT ![j] = "returned"] /\ result' = [result EXCEPT ![j] = r]
-----------------------------------------------------------------------------
(* Both modes: the semaphore serves its waiters in order. *)

Start(j) ==
  /\ job[j] = "new"
  /\ line' = Append(line, j)
  /\ IF mode = "stream"
       THEN /\ job' = [job EXCEPT ![j] = "uploading"]
            /\ down' = [down EXCEPT ![j] = "asking"]
       ELSE job' = [job EXCEPT ![j] = "asking"] /\ UNCHANGED down
  /\ UNCHANGED <<mode, result, slots, pipe, got, ctxDone>>

Acquire(j) ==
  /\ line # <<>> /\ j = Head(line) /\ Cardinality(slots) < Slots
  /\ line' = Tail(line) /\ slots' = slots \cup {j}
  /\ IF mode = "stream"
       THEN down' = [down EXCEPT ![j] = "fetching"] /\ UNCHANGED job
       ELSE job'  = [job EXCEPT ![j] = "fetching"] /\ UNCHANGED down
  /\ UNCHANGED <<mode, result, pipe, got, ctxDone>>

\* dm.Acquire returns the error of the context.
AcquireFails(j) ==
  /\ j \in ctxDone
  /\ \E i \in DOMAIN line : line[i] = j /\ line' = RemoveAt(line, i)
  /\ IF mode = "stream"
       THEN /\ down' = [down EXCEPT ![j] = "ended"]
            /\ pipe' = [pipe EXCEPT ![j] = "error"]
            /\ UNCHANGED <<job, result>>
       ELSE Return(j, "failed") /\ UNCHANGED <<down, pipe>>
  /\ UNCHANGED <<mode, slots, got, ctxDone>>
-----------------------------------------------------------------------------
(* Stream mode: the downloading goroutine. *)

\* The next chunk is there; pw.Write waits for a read.
Offer(j) ==
  /\ down[j] = "fetching" /\ got[j] < Chunks
  /\ down' = [down EXCEPT ![j] = "writing"]
  /\ UNCHANGED <<mode, job, result, line, slots, pipe, got, ctxDone>>

\* All chunks are written.  Release runs first, then pw.Close.
StreamEnds(j) ==
  /\ down[j] = "fetching" /\ got[j] = Chunks
  /\ down' = [down EXCEPT ![j] = "ended"] /\ pipe' = [pipe EXCEPT ![j] = "eof"]
  /\ slots' = slots \ {j}
  /\ UNCHANGED <<mode, job, result, line, got, ctxDone>>

\* A fetch failed or the context is done: pw.CloseWithError, then Release.
StreamFailsUnnoticed(j) ==
  /\ down[j] = "fetching"
  /\ down' = [down EXCEPT ![j] = "ended"] /\ pipe' = [pipe EXCEPT ![j] = "eof"]
  /\ slots' = slots \ {j}
  /\ UNCHANGED <<mode, job, result, line, got, ctxDone>>
StreamFailsHolding(j) ==
  /\ down[j] = "fetching"
  /\ down' = [down EXCEPT ![j] = "ended"] /\ pipe' = [pipe EXCEPT ![j] = "error"]
  /\ UNCHANGED <<mode, job, result, line, slots, got, ctxDone>>
StreamFails(j) ==
  /\ down[j] = "fetching"
  /\ down' = [down EXCEPT ![j] = "ended"] /\ pipe' = [pipe EXCEPT ![j] = "error"]
  /\ slots' = slots \ {j}
  /\ UNCHANGED <<mode, job, result, line, got, ctxDone>>

(* Stream mode: the job's goroutine in gdrive.UploadStream. *)

Read(j) ==
  /\ job[j] = "uploading" /\ down[j] = "writing"
  /\ got' = [got EXCEPT ![j] = @ + 1]
  /\ down' = [down EXCEPT ![j] = "fetching"]
  /\ UNCHANGED <<mode, job, result, line, slots, pipe, ctxDone>>

ReadEnd(j) ==
  /\ mode = "stream" /\ job[j] = "uploading" /\ pipe[j] # "open"
  /\ Return(j, IF pipe[j] = "eof" THEN "ok" ELSE "failed")
  /\ UNCHANGED <<mode, line, slots, down, pipe, got, ctxDone>>
-----------------------------------------------------------------------------
(* Parallel mode. *)

\* The temporary file cannot be created.
CreateTempFails(j) ==
  /\ mode = "parallel" /\ job[j] = "new"
  /\ Return(j, "failed")
  /\ UNCHANGED <<mode, line, slots, down, pipe, got, ctxDone>>

\* rawParallelDownload returns; the slot is free before the upload.
FileDownloadedKeeping(j) ==
  /\ job[j] = "fetching"
  /\ \/ job' = [job EXCEPT ![j] = "uploading"] /\ UNCHANGED result
     \/ Return(j, "failed")
  /\ UNCHANGED <<mode, line, slots, down, pipe, got, ctxDone>>
FileDownloaded(j) ==
  /\ job[j] = "fetching"
  /\ slots' = slots \ {j}
  /\ \/ job' = [job EXCEPT ![j] = "uploading"] /\ UNCHANGED result
     \/ Return(j, "failed")
  /\ UNCHANGED <<mode, line, down, pipe, got, ctxDone>>

FileUploaded(j) ==
  /\ mode = "parallel" /\ job[j] = "uploading"
  /\ Return(j, "ok")
  /\ UNCHANGED <<mode, line, slots, down, pipe, got, ctxDone>>
-----------------------------------------------------------------------------
\* The upload fails, of itself or because the context is done.
UploadFails(j) ==
  /\ job[j] = "uploading"
  /\ Return(j, "failed")
  /\ UNCHANGED <<mode, line, slots, down, pipe, got, ctxDone>>

\* CancelJob; or FinishJob after the transfer returned, which cancels too.
Cancel(j) ==
  /\ j \notin ctxDone /\ job[j] # "new"
  /\ ctxDone' = ctxDone \cup {j}
  /\ UNCHANGED <<mode, job, result, line, slots, down, pipe, got>>

Finish(j) == job[j] = "returned" /\ Cancel(j)
-----------------------------------------------------------------------------
DownloadStep(j) ==
  Acquire(j) \/ AcquireFails(j) \/ Offer(j) \/ StreamEnds(j) \/ StreamFails(j)
    \/ FileDownloaded(j)

UploadStep(j) == Read(j) \/ ReadEnd(j) \/ FileUploaded(j)

Next ==
  \E j \in Job :
    \/ Start(j) \/ CreateTempFails(j)
    \/ DownloadStep(j) \/ UploadStep(j) \/ UploadFails(j)
    \/ Cancel(j)

Spec == Init /\ [][Next]_vars

\* Goroutines go on; fetches and uploads from a file end; an upload that waits
\* for the pipe is not assumed to fail, and nobody is assumed to cancel.
FairSpec ==
  /\ Spec
  /\ \A j \in Job : WF_vars(DownloadStep(j)) /\ WF_vars(UploadStep(j))
                    /\ WF_vars(Finish(j))
-----------------------------------------------------------------------------
TypeOK ==
  /\ mode \in Modes
  /\ job \in [Job -> {"new", "asking", "fetching", "uploading", "returned"}]
  /\ result \in [Job -> {"none", "ok", "failed"}]
  /\ line \in Seq(Job) /\ slots \subseteq Job
  /\ down \in [Job -> {"none", "asking", "fetching", "writing", "ended"}]
  /\ pipe \in [Job -> {"open", "eof", "error"}]
  /\ got \in [Job -> 0..Chunks]
  /\ ctxDone \subseteq Job

Downloading(j) == job[j] = "fetching" \/ down[j] \in {"fetching", "writing"}

\* A download whose job has returned: nobody will read what it writes.
Stuck(j) == down[j] = "writing" /\ job[j] = "returned"

\* "The semaphore bounds N": a slot is taken for each download that runs, and
\* for nothing else, on every path out of the two functions.
SlotsAreDownloads ==
  /\ TypeOK
  /\ slots = {j \in Job : Downloading(j)}
  /\ Cardinality(slots) <= Slots

\* An upload that Drive accepted holds the whole file: a download that failed
\* or was cancelled half-way never looks like the end of the file.
WholeFileOrError ==
  \A j \in Job : mode = "stream" /\ result[j] = "ok" => got[j] = Chunks

\* A transfer returns in the end, even if nobody cancels it, unless writers
\* without a reader have taken every slot.
TransfersReturn ==
  \A j \in Job :
    job[j] # "new" ~> job[j] = "returned" \/ Cardinality({k \in Job : Stuck(k)}) = Slots

\* Nothing but a writer without a reader keeps a slot for ever.
SlotsComeBack == \A j \in Job : j \in slots ~> j \notin slots \/ Stuck(j)

\* "Callers must Release": every slot is given back.
SlotsReleased == \A j \in Job : j \in slots ~> j \notin slots

=============================================================================
