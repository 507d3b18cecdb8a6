------------------------- MODULE TorrentJobsProofs -------------------------
(***************************************************************************)
(* What holds of the jobs that fetch torrents (torrent_jobs.go), for any   *)
(* number of jobs, torrents and files: a job ends in one way, and a leech  *)
(* accounts for its files; they are there while it uploads them, and       *)
(* nothing of them stays behind.                                           *)
(***************************************************************************)
EXTENDS TorrentJobs, TLAPS

\* How far a job is, and what its user knows of its end.
EndsInv ==
  \A j \in Job :
    /\ at[j] \in {"new", "metadata", "space", "swarm"} => next[j] = 1
    /\ j \in busy => at[j] = "uploading" /\ next[j] <= Files[want[j]]
    /\ at[j] = "uploading" /\ cancelled[j] = "early" =>
         next[j] <= Files[want[j]] /\ (j \in busy => next[j] < Files[want[j]])
    /\ at[j] = "closing" =>
         /\ next[j] > Files[want[j]] /\ cancelled[j] # "early"
         /\ j \in charged <=> kind[j] = "leech"
    /\ j \in charged =>
         /\ at[j] \in {"closing", "dropping", "returned"}
         /\ next[j] > Files[want[j]] /\ cancelled[j] # "early"
    /\ j \in failed => at[j] \in {"dropping", "returned"} /\ j \notin charged
    /\ at[j] \in {"dropping", "returned"} => j \in charged \cup failed \/ Done(j)

\* Only active jobs hold a handle, are complete, or have a name.
HandleInv ==
  /\ \A t \in Torrent : \A j \in holders[t] : Active(j) /\ want[j] = t
  /\ \A j \in full \cup named : Active(j)

\* The only job of a torrent holds its handle, and a /cleancache under way
\* passes over the torrent.
AloneInv ==
  /\ names \cap purge = {} /\ (clean # "removing" => purge = {})
  /\ \A j \in Job : Active(j) /\ want[j] \notin contested =>
       /\ \A k \in Job : Active(k) /\ want[k] = want[j] => k = j
       /\ j \in holders[want[j]]
       /\ clean # "idle" /\ ~Done(j) => want[j] \in names

\* What the handle has verified is in the directory until the job has done
\* with it, and a job that uploads has all of it.
DiskInv ==
  \A j \in Job : Active(j) /\ want[j] \notin contested =>
    /\ j \in full => got[want[j]] = "all"
    /\ at[j] \in {"uploading", "closing"} => j \in full
    /\ ~Done(j) /\ at[j] \in {"metadata", "space", "swarm", "uploading"} =>
         disk[want[j]] = got[want[j]]

\* The directory has nothing of a torrent nobody works on, nor of one whose job
\* has not asked for data yet or has cleaned up.
ScratchInv ==
  \A t \in Torrent : t \notin late \cup contested =>
    /\ (\A j \in Job : want[j] = t => ~Active(j)) => disk[t] = "none" /\ t \notin wanted
    /\ \A j \in Job : want[j] = t =>
         /\ at[j] \in {"metadata", "space"} => disk[t] = "none" /\ t \notin wanted
         /\ at[j] = "dropping" => disk[t] = "none"
         /\ at[j] = "closing" /\ kind[j] = "mirror" => disk[t] = "none"

\* The user of a leech knows what became of the files it is through with.
FilesInv ==
  \A j \in Job : kind[j] = "leech" /\ want[j] \notin contested =>
    \A f \in 1..(next[j] - 1) : <<j, f>> \in sent \cup told

TorrentInv ==
  TypeOK /\ EndsInv /\ HandleInv /\ AloneInv /\ DiskInv /\ ScratchInv /\ FilesInv
-----------------------------------------------------------------------------
(* Every action keeps the invariant. *)

\* Before the first job.
LEMMA InitInv == Init => TorrentInv
<1> SUFFICES ASSUME Init PROVE TorrentInv
  OBVIOUS
<1>1. TypeOK
  BY DEF Init, TypeOK, Amount
<1>2. EndsInv
  BY DEF Init, EndsInv
<1>3. HandleInv /\ AloneInv /\ DiskInv
  BY DEF Init, HandleInv, AloneInv, DiskInv, Active
<1>4. ScratchInv
  BY DEF Init, ScratchInv
<1>5. FilesInv
  BY DEF Init, FilesInv
<1> QED BY <1>1, <1>2, <1>3, <1>4, <1>5 DEF TorrentInv

\* A job that starts while another has its torrent, or while /cleancache runs,
\* makes the torrent contested.
LEMMA StartKeeps == ASSUME TorrentInv, NEW j \in Job, Start(j) PROVE TorrentInv'
<1>1. /\ TypeOK /\ EndsInv /\ HandleInv /\ AloneInv /\ DiskInv /\ ScratchInv
      /\ FilesInv
  BY DEF TorrentInv
<1> USE DEF Start, fileVars, cleanVars, Goto, Add, Done, Active
<1>2. TypeOK'
  BY <1>1, TorrentJobsAssumption DEF TypeOK, Amount
<1>3. EndsInv'
  BY <1>1 DEF TypeOK, EndsInv
<1>4. HandleInv'
  BY <1>1 DEF TypeOK, HandleInv
<1>5. AloneInv'
  BY <1>1 DEF TypeOK, AloneInv, HandleInv
<1>6. DiskInv'
  BY <1>1 DEF TypeOK, Amount, DiskInv, AloneInv, HandleInv
<1>7. ScratchInv'
  BY <1>1 DEF TypeOK, ScratchInv, AloneInv, HandleInv, DiskInv
<1>8. FilesInv'
  BY <1>1 DEF TypeOK, FilesInv
<1> QED BY <1>2, <1>3, <1>4, <1>5, <1>6, <1>7, <1>8 DEF TorrentInv

\* A job whose torrent is refused has touched nothing.
LEMMA AddFailsKeeps ==
  ASSUME TorrentInv, NEW j \in Job, AddFails(j)
  PROVE  TorrentInv'
<1>1. /\ TypeOK /\ EndsInv /\ HandleInv /\ AloneInv /\ DiskInv /\ ScratchInv
      /\ FilesInv
  BY DEF TorrentInv
<1> USE DEF AddFails, fileVars, clientVars, cleanVars, Goto, Failure, Done, Active
<1>2. TypeOK'
  BY <1>1 DEF TypeOK, Amount
<1>3. EndsInv'
  BY <1>1 DEF TypeOK, EndsInv
<1>4. HandleInv'
  BY <1>1 DEF TypeOK, HandleInv
<1>5. AloneInv'
  BY <1>1 DEF TypeOK, AloneInv, HandleInv
<1>6. DiskInv'
  BY <1>1 DEF TypeOK, Amount, DiskInv, AloneInv, HandleInv
<1>7. ScratchInv'
  BY <1>1 DEF TypeOK, ScratchInv, AloneInv, HandleInv, DiskInv
<1>8. FilesInv'
  BY <1>1 DEF TypeOK, FilesInv
<1> QED BY <1>2, <1>3, <1>4, <1>5, <1>6, <1>7, <1>8 DEF TorrentInv

\* The metadata give the job its name; it has still asked for no data.
LEMMA HasMetadataKeeps ==
  ASSUME TorrentInv, NEW j \in Job, HasMetadata(j)
  PROVE  TorrentInv'
<1>1. /\ TypeOK /\ EndsInv /\ HandleInv /\ AloneInv /\ DiskInv /\ ScratchInv
      /\ FilesInv
  BY DEF TorrentInv
<1> USE DEF HasMetadata, fileVars, clientVars, cleanVars, Goto, Done, Active
<1>2. TypeOK'
  BY <1>1 DEF TypeOK, Amount
<1>3. EndsInv'
  BY <1>1 DEF TypeOK, EndsInv
<1>4. HandleInv'
  BY <1>1 DEF TypeOK, HandleInv
<1>5. AloneInv'
  BY <1>1 DEF TypeOK, AloneInv, HandleInv
<1>6. DiskInv'
  BY <1>1 DEF TypeOK, Amount, DiskInv, AloneInv, HandleInv
<1>7. ScratchInv'
  BY <1>1 DEF TypeOK, ScratchInv, AloneInv, HandleInv, DiskInv
<1>8. FilesInv'
  BY <1>1 DEF TypeOK, FilesInv
<1> QED BY <1>2, <1>3, <1>4, <1>5, <1>6, <1>7, <1>8 DEF TorrentInv

\* A job that is cancelled before the metadata came has asked for no data.
LEMMA NoMetadataKeeps ==
  ASSUME TorrentInv, NEW j \in Job, NoMetadata(j)
  PROVE  TorrentInv'
<1>1. /\ TypeOK /\ EndsInv /\ HandleInv /\ AloneInv /\ DiskInv /\ ScratchInv
      /\ FilesInv
  BY DEF TorrentInv
<1> USE DEF NoMetadata, fileVars, clientVars, cleanVars, Goto, Failure, Done, Active
<1>2. TypeOK'
  BY <1>1 DEF TypeOK, Amount
<1>3. EndsInv'
  BY <1>1 DEF TypeOK, EndsInv
<1>4. HandleInv'
  BY <1>1 DEF TypeOK, HandleInv
<1>5. AloneInv'
  BY <1>1 DEF TypeOK, AloneInv, HandleInv
<1>6. DiskInv'
  BY <1>1 DEF TypeOK, Amount, DiskInv, AloneInv, HandleInv
<1>7. ScratchInv'
  BY <1>1 DEF TypeOK, ScratchInv, AloneInv, HandleInv, DiskInv
<1>8. FilesInv'
  BY <1>1 DEF TypeOK, FilesInv
<1> QED BY <1>2, <1>3, <1>4, <1>5, <1>6, <1>7, <1>8 DEF TorrentInv

\* A job that finds no space has asked for no data either.
LEMMA NoSpaceKeeps == ASSUME TorrentInv, NEW j \in Job, NoSpace(j) PROVE TorrentInv'
<1>1. /\ TypeOK /\ EndsInv /\ HandleInv /\ AloneInv /\ DiskInv /\ ScratchInv
      /\ FilesInv
  BY DEF TorrentInv
<1> USE DEF NoSpace, fileVars, clientVars, cleanVars, Goto, Failure, Done, Active
<1>2. TypeOK'
  BY <1>1 DEF TypeOK, Amount
<1>3. EndsInv'
  BY <1>1 DEF TypeOK, EndsInv
<1>4. HandleInv'
  BY <1>1 DEF TypeOK, HandleInv
<1>5. AloneInv'
  BY <1>1 DEF TypeOK, AloneInv, HandleInv
<1>6. DiskInv'
  BY <1>1 DEF TypeOK, Amount, DiskInv, AloneInv, HandleInv
<1>7. ScratchInv'
  BY <1>1 DEF TypeOK, ScratchInv, AloneInv, HandleInv, DiskInv
<1>8. FilesInv'
  BY <1>1 DEF TypeOK, FilesInv
<1> QED BY <1>2, <1>3, <1>4, <1>5, <1>6, <1>7, <1>8 DEF TorrentInv

\* DownloadAll: pieces may come from here on.
LEMMA DownloadAllKeeps ==
  ASSUME TorrentInv, NEW j \in Job, DownloadAll(j)
  PROVE  TorrentInv'
<1>1. /\ TypeOK /\ EndsInv /\ HandleInv /\ AloneInv /\ DiskInv /\ ScratchInv
      /\ FilesInv
  BY DEF TorrentInv
<1> USE DEF DownloadAll, fileVars, cleanVars, Goto, Done, Active
<1>2. TypeOK'
  BY <1>1 DEF TypeOK, Amount
<1>3. EndsInv'
  BY <1>1 DEF TypeOK, EndsInv
<1>4. HandleInv'
  BY <1>1 DEF TypeOK, HandleInv
<1>5. AloneInv'
  BY <1>1 DEF TypeOK, AloneInv, HandleInv
<1>6. DiskInv'
  BY <1>1 DEF TypeOK, Amount, DiskInv, AloneInv, HandleInv
<1>7. ScratchInv'
  BY <1>1 DEF TypeOK, ScratchInv, AloneInv, HandleInv, DiskInv
<1>8. FilesInv'
  BY <1>1 DEF TypeOK, FilesInv
<1> QED BY <1>2, <1>3, <1>4, <1>5, <1>6, <1>7, <1>8 DEF TorrentInv

\* Complete: all pieces are in the directory, or there is nothing to upload.
LEMMA CompleteKeeps ==
  ASSUME TorrentInv, NEW j \in Job, Complete(j)
  PROVE  TorrentInv'
<1>1. /\ TypeOK /\ EndsInv /\ HandleInv /\ AloneInv /\ DiskInv /\ ScratchInv
      /\ FilesInv
  BY DEF TorrentInv
<1> USE DEF Complete, fileVars, clientVars, cleanVars, Goto, Failure, cleanupTorrentData,
            Done, Active
<1>2. TypeOK'
  BY <1>1 DEF TypeOK, Amount
<1>3. EndsInv'
  BY <1>1, TorrentJobsAssumption DEF TypeOK, EndsInv
<1>4. HandleInv'
  BY <1>1 DEF TypeOK, HandleInv
<1>5. AloneInv'
  BY <1>1 DEF TypeOK, AloneInv, HandleInv
<1>6. DiskInv'
  BY <1>1 DEF TypeOK, Amount, DiskInv, AloneInv, HandleInv
<1>7. ScratchInv'
  BY <1>1 DEF TypeOK, ScratchInv, AloneInv, HandleInv, DiskInv
<1>8. FilesInv'
  BY <1>1 DEF TypeOK, FilesInv
<1> QED BY <1>2, <1>3, <1>4, <1>5, <1>6, <1>7, <1>8 DEF TorrentInv

\* A job cancelled while it fetches cleans up.
LEMMA StopsFetchingKeeps ==
  ASSUME TorrentInv, NEW j \in Job, StopsFetching(j)
  PROVE  TorrentInv'
<1>1. /\ TypeOK /\ EndsInv /\ HandleInv /\ AloneInv /\ DiskInv /\ ScratchInv
      /\ FilesInv
  BY DEF TorrentInv
<1> USE DEF StopsFetching, fileVars, clientVars, cleanVars, Goto, cleanupTorrentData,
            Done, Active
<1>2. TypeOK'
  BY <1>1 DEF TypeOK, Amount
<1>3. EndsInv'
  BY <1>1 DEF TypeOK, EndsInv
<1>4. HandleInv'
  BY <1>1 DEF TypeOK, HandleInv
<1>5. AloneInv'
  BY <1>1 DEF TypeOK, AloneInv, HandleInv
<1>6. DiskInv'
  BY <1>1 DEF TypeOK, Amount, DiskInv, AloneInv, HandleInv
<1>7. ScratchInv'
  BY <1>1 DEF TypeOK, ScratchInv, AloneInv, HandleInv, DiskInv
<1>8. FilesInv'
  BY <1>1 DEF TypeOK, FilesInv
<1> QED BY <1>2, <1>3, <1>4, <1>5, <1>6, <1>7, <1>8 DEF TorrentInv

\* A job cancelled between two files cleans up.
LEMMA StopsUploadingKeeps ==
  ASSUME TorrentInv, NEW j \in Job, StopsUploading(j)
  PROVE  TorrentInv'
<1>1. /\ TypeOK /\ EndsInv /\ HandleInv /\ AloneInv /\ DiskInv /\ ScratchInv
      /\ FilesInv
  BY DEF TorrentInv
<1> USE DEF StopsUploading, fileVars, clientVars, cleanVars, Goto, cleanupTorrentData,
            Done, Active
<1>2. TypeOK'
  BY <1>1 DEF TypeOK, Amount
<1>3. EndsInv'
  BY <1>1, TorrentJobsAssumption DEF TypeOK, EndsInv
<1>4. HandleInv'
  BY <1>1 DEF TypeOK, HandleInv
<1>5. AloneInv'
  BY <1>1 DEF TypeOK, AloneInv, HandleInv
<1>6. DiskInv'
  BY <1>1 DEF TypeOK, Amount, DiskInv, AloneInv, HandleInv
<1>7. ScratchInv'
  BY <1>1 DEF TypeOK, ScratchInv, AloneInv, HandleInv, DiskInv
<1>8. FilesInv'
  BY <1>1 DEF TypeOK, FilesInv
<1> QED BY <1>2, <1>3, <1>4, <1>5, <1>6, <1>7, <1>8 DEF TorrentInv

\* No file is begun once the context is done.
LEMMA BeginFileKeeps ==
  ASSUME TorrentInv, NEW j \in Job, BeginFile(j)
  PROVE  TorrentInv'
<1>1. /\ TypeOK /\ EndsInv /\ HandleInv /\ AloneInv /\ DiskInv /\ ScratchInv
      /\ FilesInv
  BY DEF TorrentInv
<1> USE DEF BeginFile, fileVars, clientVars, cleanVars, Done, Active
<1>2. TypeOK'
  BY <1>1 DEF TypeOK, Amount
<1>3. EndsInv'
  BY <1>1, TorrentJobsAssumption DEF TypeOK, EndsInv
<1>4. HandleInv'
  BY <1>1 DEF TypeOK, HandleInv
<1>5. AloneInv'
  BY <1>1 DEF TypeOK, AloneInv, HandleInv
<1>6. DiskInv'
  BY <1>1 DEF TypeOK, Amount, DiskInv, AloneInv, HandleInv
<1>7. ScratchInv'
  BY <1>1 DEF TypeOK, ScratchInv, AloneInv, HandleInv, DiskInv
<1>8. FilesInv'
  BY <1>1 DEF TypeOK, FilesInv
<1> QED BY <1>2, <1>3, <1>4, <1>5, <1>6, <1>7, <1>8 DEF TorrentInv

\* Files are missing of a contested torrent only.
LEMMA MissesFileKeeps ==
  ASSUME TorrentInv, NEW j \in Job, MissesFile(j)
  PROVE  TorrentInv'
<1>1. /\ TypeOK /\ EndsInv /\ HandleInv /\ AloneInv /\ DiskInv /\ ScratchInv
      /\ FilesInv
  BY DEF TorrentInv
<1> USE DEF MissesFile, fileVars, clientVars, cleanVars, Done, Active
<1>2. TypeOK'
  BY <1>1 DEF TypeOK, Amount
<1>3. EndsInv'
  BY <1>1, TorrentJobsAssumption DEF TypeOK, EndsInv
<1>4. HandleInv'
  BY <1>1 DEF TypeOK, HandleInv
<1>5. AloneInv'
  BY <1>1 DEF TypeOK, AloneInv, HandleInv
<1>6. DiskInv'
  BY <1>1 DEF TypeOK, Amount, DiskInv, AloneInv, HandleInv
<1>7. ScratchInv'
  BY <1>1 DEF TypeOK, ScratchInv, AloneInv, HandleInv, DiskInv
<1>8. FilesInv'
  <2>1. want[j] \in contested
    BY <1>1 DEF DiskInv
  <2>2. \A k \in Job : k # j => next'[k] = next[k]
    BY <1>1 DEF TypeOK
  <2> QED BY <1>1, <2>1, <2>2 DEF FilesInv
<1> QED BY <1>2, <1>3, <1>4, <1>5, <1>6, <1>7, <1>8 DEF TorrentInv

\* A cancelled job still has a file to come, which it will not begin.
LEMMA SendFileKeeps ==
  ASSUME TorrentInv, NEW j \in Job, SendFile(j)
  PROVE  TorrentInv'
<1>1. /\ TypeOK /\ EndsInv /\ HandleInv /\ AloneInv /\ DiskInv /\ ScratchInv
      /\ FilesInv
  BY DEF TorrentInv
<1> USE DEF SendFile, EndFile, clientVars, cleanVars, Done, Active
<1>2. TypeOK'
  BY <1>1 DEF TypeOK, Amount
<1>3. EndsInv'
  BY <1>1, TorrentJobsAssumption DEF TypeOK, EndsInv
<1>4. HandleInv'
  BY <1>1 DEF TypeOK, HandleInv
<1>5. AloneInv'
  BY <1>1 DEF TypeOK, AloneInv, HandleInv
<1>6. DiskInv'
  BY <1>1 DEF TypeOK, Amount, DiskInv, AloneInv, HandleInv
<1>7. ScratchInv'
  BY <1>1 DEF TypeOK, ScratchInv, AloneInv, HandleInv, DiskInv
<1>8. FilesInv'
  <2>1. /\ next[j] \in Nat /\ next' = [next EXCEPT ![j] = @ + 1]
        /\ sent \subseteq sent' /\ told \subseteq told'
        /\ kind[j] = "leech" => <<j, next[j]>> \in sent' \cup told'
    BY <1>1 DEF TypeOK
  <2>2. ASSUME NEW k \in Job, kind[k] = "leech", want[k] \notin contested,
               NEW f \in 1..(next'[k] - 1)
        PROVE  <<k, f>> \in sent' \cup told'
    <3>1. CASE k = j /\ f = next[j]
      BY <2>1, <2>2, <3>1
    <3>2. CASE k # j \/ f # next[j]
      <4>1. f \in 1..(next[k] - 1)
        BY <1>1, <2>1, <3>2 DEF TypeOK
      <4> QED BY <1>1, <2>1, <2>2, <4>1 DEF FilesInv
    <3> QED BY <3>1, <3>2
  <2> QED BY <2>2 DEF FilesInv
<1> QED BY <1>2, <1>3, <1>4, <1>5, <1>6, <1>7, <1>8 DEF TorrentInv

\* The user of a leech hears of a failed file.
LEMMA FileFailsKeeps ==
  ASSUME TorrentInv, NEW j \in Job, FileFails(j)
  PROVE  TorrentInv'
<1>1. /\ TypeOK /\ EndsInv /\ HandleInv /\ AloneInv /\ DiskInv /\ ScratchInv
      /\ FilesInv
  BY DEF TorrentInv
<1> USE DEF FileFails, EndFile, clientVars, cleanVars, Done, Active
<1>2. TypeOK'
  BY <1>1 DEF TypeOK, Amount
<1>3. EndsInv'
  BY <1>1, TorrentJobsAssumption DEF TypeOK, EndsInv
<1>4. HandleInv'
  BY <1>1 DEF TypeOK, HandleInv
<1>5. AloneInv'
  BY <1>1 DEF TypeOK, AloneInv, HandleInv
<1>6. DiskInv'
  BY <1>1 DEF TypeOK, Amount, DiskInv, AloneInv, HandleInv
<1>7. ScratchInv'
  BY <1>1 DEF TypeOK, ScratchInv, AloneInv, HandleInv, DiskInv
<1>8. FilesInv'
  <2>1. /\ next[j] \in Nat /\ next' = [next EXCEPT ![j] = @ + 1]
        /\ sent \subseteq sent' /\ told \subseteq told'
        /\ kind[j] = "leech" => <<j, next[j]>> \in sent' \cup told'
    BY <1>1 DEF TypeOK
  <2>2. ASSUME NEW k \in Job, kind[k] = "leech", want[k] \notin contested,
               NEW f \in 1..(next'[k] - 1)
        PROVE  <<k, f>> \in sent' \cup told'
    <3>1. CASE k = j /\ f = next[j]
      BY <2>1, <2>2, <3>1
    <3>2. CASE k # j \/ f # next[j]
      <4>1. f \in 1..(next[k] - 1)
        BY <1>1, <2>1, <3>2 DEF TypeOK
      <4> QED BY <1>1, <2>1, <2>2, <4>1 DEF FilesInv
    <3> QED BY <3>1, <3>2
  <2> QED BY <2>2 DEF FilesInv
<1> QED BY <1>2, <1>3, <1>4, <1>5, <1>6, <1>7, <1>8 DEF TorrentInv

\* All files are through, and the job was not cancelled early.
LEMMA AfterLoopKeeps ==
  ASSUME TorrentInv, NEW j \in Job, AfterLoop(j)
  PROVE  TorrentInv'
<1>1. /\ TypeOK /\ EndsInv /\ HandleInv /\ AloneInv /\ DiskInv /\ ScratchInv
      /\ FilesInv
  BY DEF TorrentInv
<1> USE DEF AfterLoop, fileVars, clientVars, cleanVars, Goto, cleanupTorrentData, Done,
            Active
<1>2. TypeOK'
  BY <1>1 DEF TypeOK, Amount
<1>3. EndsInv'
  <2>1. /\ j \notin busy /\ cancelled[j] # "early" /\ kind[j] \in {"mirror", "leech"}
        /\ j \notin charged /\ j \notin failed
    <3>1. next[j] \in Int /\ Files[want[j]] \in Int /\ next[j] > Files[want[j]]
      BY <1>1, TorrentJobsAssumption DEF TypeOK
    <3>2. ~(next[j] <= Files[want[j]])
      BY <3>1
    <3> QED BY <1>1, <3>2, TorrentJobsAssumption DEF EndsInv
  <2> QED BY <1>1, <2>1 DEF TypeOK, EndsInv
<1>4. HandleInv'
  BY <1>1 DEF TypeOK, HandleInv
<1>5. AloneInv'
  BY <1>1 DEF TypeOK, AloneInv, HandleInv
<1>6. DiskInv'
  BY <1>1 DEF TypeOK, Amount, DiskInv, AloneInv, HandleInv
<1>7. ScratchInv'
  BY <1>1 DEF TypeOK, ScratchInv, AloneInv, HandleInv, DiskInv
<1>8. FilesInv'
  BY <1>1 DEF TypeOK, FilesInv
<1> QED BY <1>2, <1>3, <1>4, <1>5, <1>6, <1>7, <1>8 DEF TorrentInv

\* The second half of the end of a job that was not cancelled early.
LEMMA CloseKeeps == ASSUME TorrentInv, NEW j \in Job, Close(j) PROVE TorrentInv'
<1>1. /\ TypeOK /\ EndsInv /\ HandleInv /\ AloneInv /\ DiskInv /\ ScratchInv
      /\ FilesInv
  BY DEF TorrentInv
<1> USE DEF Close, fileVars, clientVars, cleanVars, Goto, cleanupTorrentData, Done, Active
<1>2. TypeOK'
  BY <1>1 DEF TypeOK, Amount
<1>3. EndsInv'
  <2>1. /\ next[j] > Files[want[j]] /\ cancelled[j] # "early" /\ j \notin failed
        /\ j \notin busy /\ (kind[j] # "mirror" => j \in charged)
    BY <1>1, TorrentJobsAssumption DEF EndsInv
  <2> QED BY <1>1, <2>1 DEF TypeOK, EndsInv
<1>4. HandleInv'
  BY <1>1 DEF TypeOK, HandleInv
<1>5. AloneInv'
  BY <1>1 DEF TypeOK, AloneInv, HandleInv
<1>6. DiskInv'
  BY <1>1 DEF TypeOK, Amount, DiskInv, AloneInv, HandleInv
<1>7. ScratchInv'
  BY <1>1 DEF TypeOK, ScratchInv, AloneInv, HandleInv, DiskInv
<1>8. FilesInv'
  BY <1>1 DEF TypeOK, FilesInv
<1> QED BY <1>2, <1>3, <1>4, <1>5, <1>6, <1>7, <1>8 DEF TorrentInv

\* The only job of a torrent takes the client's handle with it.
LEMMA ReturnKeeps == ASSUME TorrentInv, NEW j \in Job, Return(j) PROVE TorrentInv'
<1>1. /\ TypeOK /\ EndsInv /\ HandleInv /\ AloneInv /\ DiskInv /\ ScratchInv
      /\ FilesInv
  BY DEF TorrentInv
<1> USE DEF Return, fileVars, cleanVars, Goto, Drop, Done, Active
<1>2. TypeOK'
  BY <1>1 DEF TypeOK, Amount
<1>3. EndsInv'
  BY <1>1 DEF TypeOK, EndsInv
<1>4. HandleInv'
  BY <1>1 DEF TypeOK, HandleInv
<1>5. AloneInv'
  BY <1>1 DEF TypeOK, AloneInv, HandleInv
<1>6. DiskInv'
  BY <1>1 DEF TypeOK, Amount, DiskInv, AloneInv, HandleInv
<1>7. ScratchInv'
  BY <1>1 DEF TypeOK, ScratchInv, AloneInv, HandleInv, DiskInv
<1>8. FilesInv'
  BY <1>1 DEF TypeOK, FilesInv
<1> QED BY <1>2, <1>3, <1>4, <1>5, <1>6, <1>7, <1>8 DEF TorrentInv

\* A cancellation is late when the last file was begun.
LEMMA CancelKeeps == ASSUME TorrentInv, NEW j \in Job, Cancel(j) PROVE TorrentInv'
<1>1. /\ TypeOK /\ EndsInv /\ HandleInv /\ AloneInv /\ DiskInv /\ ScratchInv
      /\ FilesInv
  BY DEF TorrentInv
<1> USE DEF Cancel, fileVars, jobVars, clientVars, cleanVars, Done, Active
<1>2. TypeOK'
  BY <1>1 DEF TypeOK, Amount
<1>3. EndsInv'
  BY <1>1, TorrentJobsAssumption DEF TypeOK, EndsInv
<1>4. HandleInv'
  BY <1>1 DEF TypeOK, HandleInv
<1>5. AloneInv'
  BY <1>1 DEF TypeOK, AloneInv, HandleInv
<1>6. DiskInv'
  BY <1>1 DEF TypeOK, Amount, DiskInv, AloneInv, HandleInv
<1>7. ScratchInv'
  BY <1>1 DEF TypeOK, ScratchInv, AloneInv, HandleInv, DiskInv
<1>8. FilesInv'
  BY <1>1 DEF TypeOK, FilesInv
<1> QED BY <1>2, <1>3, <1>4, <1>5, <1>6, <1>7, <1>8 DEF TorrentInv

\* Metadata change no data.
LEMMA MetadataArrivesKeeps ==
  ASSUME TorrentInv, NEW t \in Torrent, MetadataArrives(t)
  PROVE  TorrentInv'
<1>1. /\ TypeOK /\ EndsInv /\ HandleInv /\ AloneInv /\ DiskInv /\ ScratchInv
      /\ FilesInv
  BY DEF TorrentInv
<1> USE DEF MetadataArrives, fileVars, jobVars, cleanVars, Done, Active
<1>2. TypeOK'
  BY <1>1 DEF TypeOK, Amount
<1>3. EndsInv'
  BY <1>1 DEF TypeOK, EndsInv
<1>4. HandleInv'
  BY <1>1 DEF TypeOK, HandleInv
<1>5. AloneInv'
  BY <1>1 DEF TypeOK, AloneInv, HandleInv
<1>6. DiskInv'
  BY <1>1 DEF TypeOK, Amount, DiskInv, AloneInv, HandleInv
<1>7. ScratchInv'
  BY <1>1 DEF TypeOK, ScratchInv, AloneInv, HandleInv, DiskInv
<1>8. FilesInv'
  BY <1>1 DEF TypeOK, FilesInv
<1> QED BY <1>2, <1>3, <1>4, <1>5, <1>6, <1>7, <1>8 DEF TorrentInv

\* Pieces come only to a job that asked for them and has not got them all.
LEMMA PieceArrivesKeeps ==
  ASSUME TorrentInv, NEW t \in Torrent, PieceArrives(t)
  PROVE  TorrentInv'
<1>1. /\ TypeOK /\ EndsInv /\ HandleInv /\ AloneInv /\ DiskInv /\ ScratchInv
      /\ FilesInv
  BY DEF TorrentInv
<1> USE DEF PieceArrives, fileVars, jobVars, cleanVars, Done, Active
<1>2. TypeOK'
  BY <1>1 DEF TypeOK, Amount
<1>3. EndsInv'
  BY <1>1 DEF TypeOK, EndsInv
<1>4. HandleInv'
  BY <1>1 DEF TypeOK, HandleInv
<1>5. AloneInv'
  BY <1>1 DEF TypeOK, AloneInv, HandleInv
<1>6. DiskInv'
  BY <1>1 DEF TypeOK, Amount, DiskInv, AloneInv, HandleInv
<1>7. ScratchInv'
  BY <1>1 DEF TypeOK, ScratchInv, AloneInv, HandleInv, DiskInv
<1>8. FilesInv'
  BY <1>1 DEF TypeOK, FilesInv
<1> QED BY <1>2, <1>3, <1>4, <1>5, <1>6, <1>7, <1>8 DEF TorrentInv

\* What /cleancache does not know the name of is contested.
LEMMA CleanListKeeps == ASSUME TorrentInv, CleanList PROVE TorrentInv'
<1>1. /\ TypeOK /\ EndsInv /\ HandleInv /\ AloneInv /\ DiskInv /\ ScratchInv
      /\ FilesInv
  BY DEF TorrentInv
<1> USE DEF CleanList, fileVars, jobVars, clientVars, Done, Active
<1>2. TypeOK'
  <2>1. names' \subseteq Torrent
    BY <1>1 DEF TypeOK, ActiveNames
  <2>2. contested' = contested \cup {want[j] : j \in {k \in Job \ named : Active(k)}}
    OBVIOUS
  <2> QED BY <1>1, <2>1 DEF TypeOK
<1>3. EndsInv'
  BY <1>1 DEF TypeOK, EndsInv
<1>4. HandleInv'
  BY <1>1 DEF TypeOK, HandleInv
<1>5. AloneInv'
  <2>1. ASSUME NEW j \in Job, Active(j)', want'[j] \notin contested'
        PROVE  /\ \A k \in Job : Active(k)' /\ want'[k] = want'[j] => k = j
               /\ j \in holders'[want'[j]]
               /\ clean' # "idle" /\ ~Done(j)' => want'[j] \in names'
    <3>1. Active(j) /\ want[j] \notin contested /\ j \in named
      BY <1>1, <2>1
    <3>2. ~Done(j) => want[j] \in ActiveNames
      BY <3>1 DEF ActiveNames
    <3> QED BY <1>1, <3>1, <3>2 DEF AloneInv
  <2>2. names' \cap purge' = {} /\ (clean' # "removing" => purge' = {})
    BY <1>1 DEF AloneInv
  <2> QED BY <2>1, <2>2 DEF AloneInv
<1>6. DiskInv'
  BY <1>1 DEF TypeOK, Amount, DiskInv, AloneInv, HandleInv
<1>7. ScratchInv'
  BY <1>1 DEF TypeOK, ScratchInv, AloneInv, HandleInv, DiskInv
<1>8. FilesInv'
  BY <1>1 DEF TypeOK, FilesInv
<1> QED BY <1>2, <1>3, <1>4, <1>5, <1>6, <1>7, <1>8 DEF TorrentInv

\* /cleancache will remove nothing of a job that had a name when it asked.
LEMMA CleanReadKeeps == ASSUME TorrentInv, CleanRead PROVE TorrentInv'
<1>1. /\ TypeOK /\ EndsInv /\ HandleInv /\ AloneInv /\ DiskInv /\ ScratchInv
      /\ FilesInv
  BY DEF TorrentInv
<1> USE DEF CleanRead, fileVars, jobVars, clientVars, Done, Active
<1>2. TypeOK'
  BY <1>1 DEF TypeOK, Amount
<1>3. EndsInv'
  BY <1>1 DEF TypeOK, EndsInv
<1>4. HandleInv'
  BY <1>1 DEF TypeOK, HandleInv
<1>5. AloneInv'
  BY <1>1 DEF TypeOK, AloneInv, HandleInv
<1>6. DiskInv'
  BY <1>1 DEF TypeOK, Amount, DiskInv, AloneInv, HandleInv
<1>7. ScratchInv'
  BY <1>1 DEF TypeOK, ScratchInv, AloneInv, HandleInv, DiskInv
<1>8. FilesInv'
  BY <1>1 DEF TypeOK, FilesInv
<1> QED BY <1>2, <1>3, <1>4, <1>5, <1>6, <1>7, <1>8 DEF TorrentInv

\* What it removes belongs to no job, to a cancelled one, or is contested.
LEMMA CleanRemoveKeeps ==
  ASSUME TorrentInv, NEW t \in Torrent, CleanRemove(t)
  PROVE  TorrentInv'
<1>1. /\ TypeOK /\ EndsInv /\ HandleInv /\ AloneInv /\ DiskInv /\ ScratchInv
      /\ FilesInv
  BY DEF TorrentInv
<1> USE DEF CleanRemove, fileVars, jobVars, clientVars, Done, Active
<1>2. TypeOK'
  BY <1>1 DEF TypeOK, Amount
<1>3. EndsInv'
  BY <1>1 DEF TypeOK, EndsInv
<1>4. HandleInv'
  BY <1>1 DEF TypeOK, HandleInv
<1>5. AloneInv'
  BY <1>1 DEF TypeOK, AloneInv, HandleInv
<1>6. DiskInv'
  BY <1>1 DEF TypeOK, Amount, DiskInv, AloneInv, HandleInv
<1>7. ScratchInv'
  BY <1>1 DEF TypeOK, ScratchInv, AloneInv, HandleInv, DiskInv
<1>8. FilesInv'
  BY <1>1 DEF TypeOK, FilesInv
<1> QED BY <1>2, <1>3, <1>4, <1>5, <1>6, <1>7, <1>8 DEF TorrentInv

\* Nothing is left to be removed when the names are forgotten.
LEMMA CleanReturnsKeeps == ASSUME TorrentInv, CleanReturns PROVE TorrentInv'
<1>1. /\ TypeOK /\ EndsInv /\ HandleInv /\ AloneInv /\ DiskInv /\ ScratchInv
      /\ FilesInv
  BY DEF TorrentInv
<1> USE DEF CleanReturns, fileVars, jobVars, clientVars, Done, Active
<1>2. TypeOK'
  BY <1>1 DEF TypeOK, Amount
<1>3. EndsInv'
  BY <1>1 DEF TypeOK, EndsInv
<1>4. HandleInv'
  BY <1>1 DEF TypeOK, HandleInv
<1>5. AloneInv'
  BY <1>1 DEF TypeOK, AloneInv, HandleInv
<1>6. DiskInv'
  BY <1>1 DEF TypeOK, Amount, DiskInv, AloneInv, HandleInv
<1>7. ScratchInv'
  BY <1>1 DEF TypeOK, ScratchInv, AloneInv, HandleInv, DiskInv
<1>8. FilesInv'
  BY <1>1 DEF TypeOK, FilesInv
<1> QED BY <1>2, <1>3, <1>4, <1>5, <1>6, <1>7, <1>8 DEF TorrentInv
-----------------------------------------------------------------------------
\* Every step keeps the invariant.
LEMMA NextKeeps == TorrentInv /\ [Next]_vars => TorrentInv'
<1> SUFFICES ASSUME TorrentInv, [Next]_vars PROVE TorrentInv'
  OBVIOUS
<1>1. ASSUME NEW j \in Job, Start(j) \/ AddFails(j) \/ JobStep(j) \/ Cancel(j)
      PROVE  TorrentInv'
  BY <1>1, StartKeeps, AddFailsKeeps, HasMetadataKeeps, NoMetadataKeeps, NoSpaceKeeps,
     DownloadAllKeeps, CompleteKeeps, StopsFetchingKeeps, StopsUploadingKeeps,
     BeginFileKeeps, MissesFileKeeps, SendFileKeeps, FileFailsKeeps, AfterLoopKeeps,
     CloseKeeps, ReturnKeeps, CancelKeeps
     DEF JobStep
<1>2. ASSUME NEW t \in Torrent, SwarmStep(t) PROVE TorrentInv'
  BY <1>2, MetadataArrivesKeeps, PieceArrivesKeeps DEF SwarmStep
<1>3. CASE CleanList \/ CleanStep
  BY <1>3, CleanListKeeps, CleanReadKeeps, CleanRemoveKeeps, CleanReturnsKeeps
     DEF CleanStep
<1>4. CASE UNCHANGED vars
  BY <1>4 DEF TorrentInv, TypeOK, EndsInv, HandleInv, AloneInv, DiskInv, ScratchInv,
     FilesInv, Active, Done, vars, fileVars, jobVars, clientVars, cleanVars
<1> QED BY <1>1, <1>2, <1>3, <1>4 DEF Next

\* The invariant behind the three properties of the torrent jobs.
THEOREM InvHolds == Spec => []TorrentInv
<1> QED BY InitInv, NextKeeps, PTL DEF Spec

\* A job that has returned came to its end, was reported as failed, or its user
\* had cancelled it; never two of these, but for a cancellation after the last
\* file was begun.  What is charged tried all its files, and the user of a leech
\* knows what became of each, unless its torrent is contested
\* (torrent_jobs.go executeTorrentMirrorJob, executeTorrentLeechJob).
THEOREM EndsAreExplainedHolds == Spec => []EndsAreExplained
<1>1. ASSUME TorrentInv, NEW j \in Job, j \in charged, kind[j] = "leech",
             want[j] \notin contested
      PROVE  FilesExplained(j)
  <2>1. next[j] > Files[want[j]] /\ next[j] \in Nat /\ Files[want[j]] \in Nat
    BY <1>1, TorrentJobsAssumption DEF TorrentInv, EndsInv, TypeOK
  <2>2. \A f \in 1..Files[want[j]] : f \in 1..(next[j] - 1)
    BY <2>1
  <2> QED BY <1>1, <2>2 DEF TorrentInv, FilesInv, FilesExplained
<1>2. TorrentInv => EndsAreExplained
  BY <1>1 DEF TorrentInv, EndsInv, EndsAreExplained
<1> QED BY <1>2, InvHolds, PTL

\* The files of a job that uploads are in the directory, whatever the swarm,
\* cancellations and /cleancache do, unless its torrent is contested.
THEOREM FilesStayForUploadHolds == Spec => []FilesStayForUpload
<1>1. TorrentInv => FilesStayForUpload
  BY DEF TorrentInv, DiskInv, Active, FilesStayForUpload
<1> QED BY <1>1, InvHolds, PTL

\* When the last job of a torrent has returned its data are gone, unless they
\* came after its clean-up or the torrent was contested.
THEOREM ScratchIsCleanedHolds == Spec => []ScratchIsCleaned
<1>1. TorrentInv => ScratchIsCleaned
  BY DEF TorrentInv, ScratchInv, ScratchIsCleaned
<1> QED BY <1>1, InvHolds, PTL
=============================================================================
