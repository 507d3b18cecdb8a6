---------------------------- MODULE TorrentJobs -----------------------------
(***************************************************************************)
(* Jobs that fetch a torrent and then upload its files one by one, to      *)
(* Drive (executeTorrentMirrorJob) or to Telegram (executeTorrentLeechJob).*)
(* They share the torrent client, which has one handle per torrent however *)
(* often it is added, and the scratch directory, where /cleancache removes *)
(* what no active job is named after.  The client and the swarm are        *)
(* third-party code, modelled by what the jobs see of them.                *)
(***************************************************************************)
EXTENDS Integers, FiniteSets

CONSTANTS Job, Torrent,
          kind,       \* a job is of JobTypeMirror or JobTypeLeech
          Files,      \* how many files each torrent has
          MaxCleans   \* bound: how many /cleancache commands come

ASSUME TorrentJobsAssumption ==
  /\ kind \in [Job -> {"mirror", "leech"}]
  /\ Files \in [Torrent -> Nat] /\ MaxCleans \in Nat

VARIABLES
  want,        \* the torrent of a job
  at,          \* where the job's goroutine is
  next,        \* the file it is at
  busy,        \* whether that file is being uploaded
  named,       \* the jobs whose FileName is the torrent's name
  cancelled,   \* no, early, or late: after the last file was begun
  charged,     \* the jobs that came to their end: a mirror sends its completion
               \* message and is charged for it, a leech is charged only
  failed,      \* the jobs that were reported as failed
  sent, told,  \* pairs of a job and a file that was uploaded (and delivered), or
               \* of which the user was told that it was not
  \* The torrent client.
  holders,     \* the jobs that hold the client's handle of a torrent
  meta, full,  \* the jobs whose handle has its metadata, all its pieces
  wanted,      \* the handles DownloadAll was called on
  got, disk,   \* what the handle has verified, what is in the directory
  \* /cleancache
  clean, names, purge, cleans,
  \* What the properties need to know of the past.
  contested,   \* torrents of two jobs at a time, or overtaken by /cleancache
  late         \* torrents with a piece that came after the clean-up

clientVars == <<holders, meta, full, wanted, got>>
cleanVars  == <<clean, names, purge, cleans>>
fileVars   == <<sent, told>>
jobVars    == <<at, next, busy, named, charged, failed, fileVars>>
vars == <<want, jobVars, cancelled, clientVars, disk, cleanVars, contested, late>>

Init ==
  /\ want \in [Job -> Torrent]
  /\ at = [j \in Job |-> "new"] /\ next = [j \in Job |-> 1] /\ busy = {}
  /\ named = {} /\ cancelled = [j \in Job |-> "no"]
  /\ charged = {} /\ failed = {} /\ sent = {} /\ told = {}
  /\ holders = [t \in Torrent |-> {}] /\ meta = {} /\ full = {} /\ wanted = {}
  /\ got = [t \in Torrent |-> "none"] /\ disk = [t \in Torrent |-> "none"]
  /\ clean = "idle" /\ names = {} /\ purge = {} /\ cleans = 0
  /\ contested = {} /\ late = {}

Active(j) == at[j] \notin {"new", "returned"}
Done(j)   == cancelled[j] # "no"        \* job.Ctx.Done()
Goto(j, place) == at' = [at EXCEPT ![j] = place]
\* sendJobFailure says nothing when the error is the cancelled context.
Failure(j)  == failed' = IF Done(j) THEN failed ELSE failed \cup {j}
NoCleanup(j) == UNCHANGED disk
cleanupTorrentData(j) == disk' = [disk EXCEPT ![want[j]] = "none"]
-----------------------------------------------------------------------------
(* The client: one handle per torrent, and Drop takes it from everybody. *)

\* AddMagnet, or AddTorrentBytes, which brings the metadata.
Add(j) ==
  LET t == want[j]
  IN  /\ holders' = [holders EXCEPT ![t] = @ \cup {j}]
      /\ UNCHANGED wanted
      /\ got' = IF holders[t] = {} THEN [got EXCEPT ![t] = disk[t]] ELSE got
      /\ \E bytes \in BOOLEAN :
           LET known == bytes \/ holders[t] \cap meta # {}
           IN  /\ meta' = IF known THEN meta \cup {j} \cup holders[t] ELSE meta
               /\ named' = IF bytes THEN named \cup {j} ELSE named
      /\ full' = IF got'[t] = "all" THEN full \cup {j} ELSE full

Drop(j) ==
  /\ LET t == want[j]
     IN  IF j \notin holders[t] THEN UNCHANGED <<holders, wanted, got>>
         ELSE /\ holders' = [holders EXCEPT ![t] = {}]
              /\ wanted' = wanted \ {t} /\ got' = [got EXCEPT ![t] = "none"]
  /\ meta' = meta \ {j} /\ full' = full \ {j}

MetadataArrives(t) ==
  /\ holders[t] # {} /\ ~(holders[t] \subseteq meta)
  /\ meta' = meta \cup holders[t]
  /\ UNCHANGED <<want, jobVars, cancelled, holders, full, wanted, got, disk,
                 cleanVars, contested, late>>

\* A piece is written to the directory, which is made again if it is gone.
PieceArrives(t) ==
  /\ holders[t] # {} /\ t \in wanted /\ got[t] # "all"
  /\ got' = [got EXCEPT ![t] = IF @ = "none" THEN "part" ELSE "all"]
  /\ disk' = [disk EXCEPT ![t] = IF @ = got[t] THEN got'[t] ELSE "part"]
  /\ full' = IF got'[t] = "all" THEN full \cup holders[t] ELSE full
  /\ late' = IF \E j \in holders[t] : at[j] = "dropping" THEN late \cup {t} ELSE late
  /\ UNCHANGED <<want, jobVars, cancelled, holders, meta, wanted, cleanVars,
                 contested>>
-----------------------------------------------------------------------------
(* The goroutine of a job. *)

Start(j) ==
  /\ at[j] = "new"
  /\ Add(j) /\ Goto(j, "metadata")
  /\ contested' =
       IF clean # "idle" \/ \E k \in Job \ {j} : Active(k) /\ want[k] = want[j]
         THEN contested \cup {want[j]} ELSE contested
  /\ UNCHANGED <<want, next, busy, cancelled, charged, failed, disk, cleanVars,
                 fileVars, late>>

AddFails(j) ==
  /\ at[j] = "new"
  /\ Failure(j) /\ Goto(j, "returned")
  /\ UNCHANGED <<want, next, busy, named, cancelled, charged, clientVars, disk,
                 cleanVars, fileVars, contested, late>>

\* WaitForInfo has no other end than these two.
HasMetadata(j) ==
  /\ at[j] = "metadata" /\ j \in meta
  /\ named' = named \cup {j} /\ Goto(j, "space")
  /\ UNCHANGED <<want, next, busy, cancelled, charged, failed, clientVars, disk,
                 cleanVars, fileVars, contested, late>>
NoMetadata(j) ==
  /\ at[j] = "metadata" /\ Done(j)
  /\ Failure(j) /\ Goto(j, "dropping")
  /\ UNCHANGED <<want, next, busy, named, cancelled, charged, clientVars, disk,
                 cleanVars, fileVars, contested, late>>

NoSpace(j) ==
  /\ at[j] = "space"
  /\ Failure(j) /\ Goto(j, "dropping")
  /\ UNCHANGED <<want, next, busy, named, cancelled, charged, clientVars, disk,
                 cleanVars, fileVars, contested, late>>
ForgetsDownloadAll(j) ==
  /\ at[j] = "space" /\ Goto(j, "swarm")
  /\ UNCHANGED <<want, next, busy, named, cancelled, charged, failed, clientVars, disk,
                 cleanVars, fileVars, contested, late>>
DownloadAll(j) ==
  /\ at[j] = "space" /\ Goto(j, "swarm")
  /\ wanted' = IF j \in holders[want[j]] THEN wanted \cup {want[j]} ELSE wanted
  /\ UNCHANGED <<want, next, busy, named, cancelled, charged, failed, holders, meta,
                 full, got, disk, cleanVars, fileVars, contested, late>>

\* The loop over the ticker and the context.
Complete(j) ==
  /\ at[j] = "swarm" /\ j \in full
  /\ IF Files[want[j]] = 0
       THEN cleanupTorrentData(j) /\ Failure(j) /\ Goto(j, "dropping")
       ELSE Goto(j, "uploading") /\ UNCHANGED <<disk, failed>>
  /\ UNCHANGED <<want, next, busy, named, cancelled, charged, clientVars,
                 cleanVars, fileVars, contested, late>>
StopsFetching(j) ==
  /\ at[j] = "swarm" /\ Done(j)
  /\ cleanupTorrentData(j) /\ Goto(j, "dropping")
  /\ UNCHANGED <<want, next, busy, named, cancelled, charged, failed, clientVars,
                 cleanVars, fileVars, contested, late>>

\* The loop over the files looks at the context before each of them.
StopsUploading(j) ==
  /\ at[j] = "uploading" /\ j \notin busy /\ next[j] <= Files[want[j]] /\ Done(j)
  /\ cleanupTorrentData(j) /\ Goto(j, "dropping")
  /\ UNCHANGED <<want, next, busy, named, cancelled, charged, failed, clientVars,
                 cleanVars, fileVars, contested, late>>
\* A file that is not on disk is passed over; the log only knows of it.
MissesFile(j) ==
  /\ at[j] = "uploading" /\ j \notin busy /\ next[j] <= Files[want[j]] /\ ~Done(j)
  /\ disk[want[j]] # "all"
  /\ next' = [next EXCEPT ![j] = @ + 1]
  /\ UNCHANGED <<want, at, busy, named, cancelled, charged, failed, clientVars, disk,
                 cleanVars, fileVars, contested, late>>
BeginFile(j) ==
  /\ at[j] = "uploading" /\ j \notin busy /\ next[j] <= Files[want[j]] /\ ~Done(j)
  /\ disk[want[j]] # "none"
  /\ busy' = busy \cup {j}
  /\ UNCHANGED <<want, at, next, named, cancelled, charged, failed, clientVars, disk,
                 cleanVars, fileVars, contested, late>>
EndFile(j) ==
  /\ j \in busy
  /\ busy' = busy \ {j} /\ next' = [next EXCEPT ![j] = @ + 1]
  /\ UNCHANGED <<want, at, named, cancelled, charged, failed, clientVars, disk,
                 cleanVars, contested, late>>
SendFile(j) ==
  /\ EndFile(j)
  /\ sent' = sent \cup {<<j, next[j]>>} /\ UNCHANGED told
\* The upload fails.  Of a leech, a file may be too large too, or not be
\* delivered; its user is told, a mirror writes to the log.
FileFailsUnsaid(j) == EndFile(j) /\ UNCHANGED fileVars
FileFails(j) ==
  /\ EndFile(j)
  /\ told' = IF kind[j] = "leech" THEN told \cup {<<j, next[j]>>} ELSE told
  /\ UNCHANGED sent

\* After the loop a mirror cleans up and reports, a leech charges and cleans up.
AfterLoop(j) ==
  /\ at[j] = "uploading" /\ next[j] > Files[want[j]] /\ Goto(j, "closing")
  /\ IF kind[j] = "mirror"
       THEN cleanupTorrentData(j) /\ UNCHANGED charged
       ELSE charged' = charged \cup {j} /\ UNCHANGED disk
  /\ UNCHANGED <<want, next, busy, named, cancelled, failed, clientVars,
                 cleanVars, fileVars, contested, late>>
Close(j) ==
  /\ at[j] = "closing" /\ Goto(j, "dropping")
  /\ IF kind[j] = "mirror"
       THEN charged' = charged \cup {j} /\ UNCHANGED disk
       ELSE cleanupTorrentData(j) /\ UNCHANGED charged
  /\ UNCHANGED <<want, next, busy, named, cancelled, failed, clientVars,
                 cleanVars, fileVars, contested, late>>

\* The deferred Drop, then FinishJob.
Return(j) ==
  /\ at[j] = "dropping" /\ Drop(j) /\ Goto(j, "returned")
  /\ named' = named \ {j}
  /\ UNCHANGED <<want, next, busy, cancelled, charged, failed, disk,
                 cleanVars, fileVars, contested, late>>
-----------------------------------------------------------------------------
(* Commands. *)

Cancel(j) ==
  /\ Active(j) /\ ~Done(j)
  /\ cancelled' = [cancelled EXCEPT ![j] =
       IF \/ at[j] \in {"closing", "dropping"}
          \/ at[j] = "uploading" /\ next[j] + (IF j \in busy THEN 1 ELSE 0) > Files[want[j]]
         THEN "late" ELSE "early"]
  /\ UNCHANGED <<want, jobVars, clientVars, disk, cleanVars, contested, late>>

\* /cleancache asks for the active jobs, reads the directory, and removes entry
\* after entry what none of them is named after.
ActiveNames == {want[j] : j \in {k \in named : Active(k) /\ ~Done(k)}}
CleanList ==
  /\ clean = "idle" /\ cleans < MaxCleans
  /\ clean' = "listed" /\ names' = ActiveNames /\ cleans' = cleans + 1
  /\ contested' = contested \cup {want[j] : j \in {k \in Job \ named : Active(k)}}
  /\ UNCHANGED <<want, jobVars, cancelled, clientVars, disk, purge, late>>
CleanEverything ==
  /\ clean = "listed"
  /\ clean' = "removing" /\ purge' = {t \in Torrent : disk[t] # "none"}
  /\ UNCHANGED <<want, jobVars, cancelled, clientVars, disk, names, cleans,
                 contested, late>>
CleanRead ==
  /\ clean = "listed"
  /\ clean' = "removing" /\ purge' = {t \in Torrent : disk[t] # "none"} \ names
  /\ UNCHANGED <<want, jobVars, cancelled, clientVars, disk, names, cleans,
                 contested, late>>
CleanRemove(t) ==
  /\ t \in purge /\ purge' = purge \ {t}
  /\ disk' = [disk EXCEPT ![t] = "none"]
  /\ UNCHANGED <<want, jobVars, cancelled, clientVars, clean, names, cleans,
                 contested, late>>
CleanReturns ==
  /\ clean = "removing" /\ purge = {}
  /\ clean' = "idle" /\ names' = {}
  /\ UNCHANGED <<want, jobVars, cancelled, clientVars, disk, purge, cleans,
                 contested, late>>

JobStep(j) ==
  \/ HasMetadata(j) \/ NoMetadata(j) \/ NoSpace(j) \/ DownloadAll(j)
  \/ Complete(j) \/ StopsFetching(j) \/ StopsUploading(j) \/ BeginFile(j)
  \/ MissesFile(j) \/ SendFile(j) \/ FileFails(j) \/ AfterLoop(j) \/ Close(j) \/ Return(j)
SwarmStep(t) == MetadataArrives(t) \/ PieceArrives(t)
CleanStep == CleanRead \/ (\E t \in Torrent : CleanRemove(t)) \/ CleanReturns

Next ==
  \/ \E j \in Job : Start(j) \/ AddFails(j) \/ JobStep(j) \/ Cancel(j)
  \/ \E t \in Torrent : SwarmStep(t)
  \/ CleanList \/ CleanStep

Spec == Init /\ [][Next]_vars

\* Goroutines that can step do; uploads end; every torrent has a seed.
FairSpec ==
  /\ Spec
  /\ \A j \in Job : WF_vars(JobStep(j))
  /\ \A t \in Torrent : WF_vars(SwarmStep(t))
  /\ WF_vars(CleanStep)
-----------------------------------------------------------------------------
Amount == {"none", "part", "all"}

TypeOK ==
  /\ want \in [Job -> Torrent]
  /\ at \in [Job -> {"new", "metadata", "space", "swarm", "uploading", "closing",
                     "dropping", "returned"}]
  /\ next \in [Job -> Nat]
  /\ busy \subseteq Job /\ named \subseteq Job /\ charged \subseteq Job
  /\ sent \subseteq Job \X Nat /\ told \subseteq Job \X Nat
  /\ failed \subseteq Job /\ meta \subseteq Job /\ full \subseteq Job
  /\ cancelled \in [Job -> {"no", "early", "late"}]
  /\ holders \in [Torrent -> SUBSET Job] /\ wanted \subseteq Torrent
  /\ names \subseteq Torrent /\ purge \subseteq Torrent
  /\ got \in [Torrent -> Amount] /\ disk \in [Torrent -> Amount]
  /\ clean \in {"idle", "listed", "removing"}

FilesExplained(j) == \A f \in 1..Files[want[j]] : <<j, f>> \in sent \cup told

\* A job ends as done, as failed, or cancelled by its user, never as two of these
\* - but for a cancellation that comes when the last file was begun, which nobody
\* looks for any more (torrent_jobs.go:323, 501).  Only a job that tried all its
\* files is charged.  A mirror then says that it is done; a leech does not, but
\* has sent each file or told why not - but for files that another job of the
\* same torrent or /cleancache took away (torrent_jobs.go:511).
EndsAreExplained ==
  \A j \in Job :
    /\ at[j] = "returned" => j \in charged \cup failed \/ Done(j)
    /\ j \in charged =>
         /\ j \notin failed /\ cancelled[j] # "early"
         /\ next[j] > Files[want[j]]
         /\ kind[j] = "leech" /\ want[j] \notin contested => FilesExplained(j)

\* A mirror that reports completion has uploaded its files: "task completion
\* reports" and "error notices" (README.md:100) are two things.  It fails: what
\* an upload comes to is only logged (torrent_jobs.go:378).
DoneMeansUploaded ==
  \A j \in Job : kind[j] = "mirror" /\ j \in charged =>
    \A f \in 1..Files[want[j]] : <<j, f>> \in sent

\* The files a job uploads are in the directory until it has done with them,
\* unless another job uses the same torrent at the same time, or /cleancache was
\* under way when the job had no name yet (torrent_jobs.go:581, telegram.go:740).
FilesStayForUpload ==
  TypeOK /\ \A j \in Job :
    at[j] = "uploading" /\ ~Done(j) /\ want[j] \notin contested => disk[want[j]] = "all"

\* Once nobody works on a torrent its data are gone, unless a piece came between
\* the clean-up of a cancelled job and its Drop (torrent_jobs.go:176, 221).
ScratchIsCleaned ==
  \A t \in Torrent :
    (\A j \in Job : want[j] = t => ~Active(j)) =>
      disk[t] = "none" \/ t \in late \cup contested

\* "automatically cleans up disk pieces on completion or cancellation"
\* (README.md:143).  It fails.
CleansUp ==
  \A t \in Torrent :
    (\A j \in Job : want[j] = t => ~Active(j)) /\ t \notin contested => disk[t] = "none"

\* Every job comes to its end while its torrent has a seed and no other job
\* drops its handle; a cancelled job does in any case.
JobsReturn ==
  \A j \in Job :
    /\ Active(j) ~> ~Active(j) \/ want[j] \in contested
    /\ Done(j) ~> ~Active(j)
=============================================================================
