# Zenith-Mirror in TLA+

Zenith-Mirror is a Telegram bot in Go that mirrors files to Google Drive and
leeches links to Telegram: users start transfers by commands or by RSS feeds, a
job manager runs a limited number of them and queues the rest, and a SQLite
database lets a restart resume what was unfinished. This directory holds TLA+
modules of the parts whose correctness depends on the order of events, the TLC
configurations that check them, and TLAPS proofs of every safety property and
action property that the configurations check.
Sources are cited as `file:line` relative to `src/`.

## The system

| Component | Source | State | Operations | Hard because |
|---|---|---|---|---|
| Job manager | `job_manager.go` | `active`, `queue`, `maxConcurrency`, `jobCounter`, `job.State`, all under `jm.mu` | CreateJob, FinishJob, CancelJob, CancelAllJobs, SetMaxConcurrency, SaveState, Stop | goroutines of jobs run outside the mutex and outlive their cancellation |
| Job persistence, recovery | `database.go:463-559`, `telegram.go:2399`, `job_manager.go:197-240, 303` | table `jobs` | SaveJob, CompleteJob, LoadActiveJobs, CreateRecoveredJob, RemovePersistedJob | crashes, SIGTERM, identifiers that start again, recovery beside commands |
| Chunk download | `raw_download.go` | channels, a window of permits, a reorder buffer | rawPipelinedStream, rawParallelDownload | bounded channels, cancellation, order |
| Mirror and leech transfers | `telegram.go:1820-2381`, `leech.go`, `download_manager.go`, `pool_download.go`, `gdrive.go` | download slots, pipe, temporary files, pools | executeMirrorStream, executeMirrorParallel, executeLeechJob | a pipe between two services that fail independently |
| Feeds | `feed.go`, `telegram.go:2533-3013` | `fm.feeds`, cursors, table `feeds` | AddFeed, PauseFeed, ResumeFeed, DeleteFeed, CheckFeed, poller | CheckFeed is not atomic and not exclusive |
| Torrent jobs | `torrent_jobs.go`, `torrent_service.go`, `telegram.go:693-753` | the client's handles, the scratch directory | executeTorrentMirrorJob, executeTorrentLeechJob, cleanupTorrentData, /cleancache | files fail one by one; handles, directory and the names of jobs are shared |
| Accounts | `database.go:17-64, 279-457`, `dm_users.go` | table `users`, DM registrations | CheckQuota, AddTraffic, GetUser, SetUserPlan, Register, Unregister | lazy resets, check and charge far apart |
| Live status | `telegram.go:797-1109` | the last message and its updater, one for the whole bot | startLiveStatusUpdater, deleteLastStatus, setLastStatus | one goroutine per command; only the record is under a lock |
| Commands, authorisation | `telegram.go:150-388, 1299-1379`, `config.go` | configuration | handlers | none of its own |

How they interact. A command handler or a feed check calls `CreateJob`; the job
manager starts `job.Execute` in a goroutine now or later; that goroutine
downloads (through a download slot and the chunk download) and uploads, reports
to the user, charges the account and calls `FinishJob` by a deferred call, which
starts the next job of the queue. Every method of the job manager ends with
`saveStateLocked`, which upserts the row of each job of the table. At start
`RecoverJobs` turns rows that are queued or running back into jobs, in a
goroutine beside the command handlers (`main.go:103`). Cancellation goes through
contexts: the context of a job descends from the caller's, which descends from
that of SIGTERM (`main.go`), except for feed checks, where the caller cancels it.

What makes each part correct: the job manager never runs more jobs than allowed,
never forgets or repeats one and starts them in order; a restart resumes what was
unfinished and nothing else; the chunk download writes the file in order within a
bounded memory and always returns; a feed handles each new item once; accounts
charge what was transferred, and the quota is judged by the plan and the calendar
of the moment; a torrent job ends in one way and tells its user why it failed or, a leech, which file
it could not send, with its files in place until then and gone afterwards; the status message that is recorded is
kept up to date, and goes when the jobs do.

## Modules

| Module | Models |
|---|---|
| `JobPool` | abstract: a FIFO pool of jobs under a limit that may change |
| `JobManager` | `job_manager.go` and the goroutine of a job, one life of the process |
| `JobManagerProofs` | TLAPS: one life of the job manager, what a step may start, what the rows say, the refinement of `JobPool`; the lives of `JobRecovery` |
| `JobRecovery` | `JobManager` over several lives of the process, with the rows, SIGTERM and `RecoverJobs` |
| `InOrderStream` | abstract: chunks written once each, in order |
| `PipelinedStream` | `rawPipelinedStream` (`raw_download.go:184-317`) |
| `PipelinedStreamProofs` | TLAPS: the window bounds what is in memory; the refinement of `InOrderStream` |
| `ParallelDownload` | `rawParallelDownload` (`raw_download.go:33-117`) |
| `ParallelDownloadProofs` | TLAPS: the ranges cover every page of the file |
| `MirrorTransfer` | `executeMirrorStream` and `executeMirrorParallel` on the slots of `DownloadManager` |
| `MirrorTransferProofs` | TLAPS: slots are downloads, a reported upload is a whole file |
| `Feeds` | `feed.go`, the poller and the run button |
| `FeedsProofs` | TLAPS: rows follow the table, no item is lost or handled twice |
| `Accounts` | the table `users`, `DMUserManager`, and the task commands and transfers as far as they check and charge |
| `AccountsProofs` | TLAPS: memory and rows, the traffic charged, the verdicts |
| `TorrentJobs`, `MCTorrentJobs` | `torrent_jobs.go` with the client and the directory it shares, `/cleancache`; the instance for TLC |
| `TorrentJobsProofs` | TLAPS: how jobs end, their files before and after |
| `LiveStatus` | the record of the last status message, the updaters and `/status`, `/cancel` |
| `LiveStatusProofs` | TLAPS: record, updaters and screen fit together |

### JobManager

Every method holds `jm.mu` from entry to return, so a method is an action
(`CreateJob`, `FinishJob`, `CancelJob`, `CancelAllJobs`, `SetMaxConcurrency`,
`SaveStateNow`) and includes the promotion of the head of the queue and the
final `saveStateLocked`. A `*Job` is the number of its allocation; `active` is
the set of values of `jm.active`, `id` gives their keys. The goroutine of
`job.Execute` is `worker[o]`: it transfers, may fail, passes the test of
`sendJobFailure` (which reads `job.State` without the mutex), writes the failed
row, and at last runs the deferred `FinishJob`. `row` is `jobs.status`, and
`SaveState` is the upsert of the table and of the queue, in that order.
`CallerDone` is the end of the context the job was created under. What a transfer
does in between is one step with three outcomes. Identifiers that name no job
make `CancelJob` return at once and are no step. The JSON state file is left out:
`main` always sets a database, and then the file is read once, by `migrateLegacyFiles`
(`database.go:244`), whose inserts give way to rows that exist.

### JobRecovery

Extends `JobManager`. A request is what a user asked for and lives across
restarts; `req` and `owner` say for whose request a job works and under whose
user, `rowReq` and `rowOwner` the same of a row (the upsert of `SaveJob` replaces
the source and keeps `user_id`). `Crash` forgets all memory, `Boot` starts the
next life, `Load`, `Recover`, `Reject`, `RecoveryReturns` are the steps of
`RecoverJobs`. `Stop` is SIGTERM: all contexts end and the goroutines go on until
the process is gone (`Crash`). Commands are taken from `Boot` on (`main.go:92`), before,
beside and after `RecoverJobs` (`main.go:103`); nothing in the code orders them. As
`jobCounter` starts again at 0, a command may take the identifier of a row that is not
recovered yet: it overwrites the row, or the recovered job later overwrites its entry
of the table. `collided` is the history of the requests that met another one like this,
or themselves, when `RecoverJobs` loads a row which this life has written. It is the
exception of the properties of the module, and the two disagreements about it
(4 and 5) say what happens to those requests. `/reload` and `CallerDone` are not part
of the composed module. Errors of the database are not modelled: the code ignores
them all.

### PipelinedStream

One action per channel operation of the dispatcher, the workers, the closer and
the consumer; a `select` is a choice between actions whose guards hold. `Done` is
`ctx.Err() != nil`: the caller gave up or the deferred `cancel` ran. A fetch
returns a chunk or an error (retries of FLOOD_WAIT are bounded and stay inside
`Fetch`), a write succeeds or fails. Chunks are numbers; their bytes are not
modelled, nor is a response shorter than asked for.

### ParallelDownload

Here the data are the offsets of the file, because the arithmetic of the ranges is
what may go wrong: `Range` is what the goroutine of a chunk asks for,
`RemainderRange` what the last step asks for, `Page` is 4096. The loop's test of
`firstErr` and its `select` are two steps, since goroutines may fail between them;
a goroutine ends in one step, with its range written or its error noted, its place
of `sem` and its count of `wg` given back. `sem` and `running` are kept apart:
two deferred calls maintain them. A range is written whole or not at all.

### MirrorTransfer

Jobs that mirror Telegram files, on `Slots` download slots. `download_mode` is
read once at startup, so all jobs are in one mode. In stream mode `job[j]` is the
goroutine of the job, which uploads from the pipe, and `down[j]` the goroutine
that downloads into it; the download is the stream of `InOrderStream`: it writes
the next chunk, ends after the last, or fails at any moment. `pw.Write` waits
until its chunk is read (`Offer`, then `Read`), and `pw.CloseWithError` or
`pw.Close` decides what the uploader reads after the last chunk (`pipe`); of the
two calls on the error path the first counts. In parallel mode the job's goroutine
does everything in turn and frees the slot before it uploads. The semaphore of
`golang.org/x/sync` serves its waiters in order (`line`); with a context that is
done it may take the slot or return the error. The Drive client reads the pipe
and does not close it (it gets an `io.Reader`). What the temporary file of
parallel mode holds is the subject of `ParallelDownload`.

### Feeds

One source numbers its items in order of publication and shows the newest
`Shown`. A cursor is a GUID and a title (`LastGUID`, `LastTitle`), and `CheckFeed` stops at
the first item that has either (`feed.go:494`). GUIDs are all different; `title` gives for
each item the first one with its title, and `Repeaters` names the items that may have an
earlier one's, so that `Matches` is every item of the document that is taken for the cursor.
(An entry without a GUID gets its link or its title for one; `title` stands for
such a repetition too.) `CheckFeed` is split where other goroutines can come in: the
fetch, the comparison with the cursor (read without `fm.mu`), each item, and the move of the
cursor with the save. `fate` records what became of an item: it was handled, with a job
or, when there is no link or no torrent engine or `CreateJob` returns an error, without one;
or its job was severed, when it was not through as the check ended, and its context with it.
`Rollover` is the limit of five of `feed.go:510`; with documents of two or three
items the value 1 makes the rule bite. Parsing, filters, and items that a source
withdraws or renames are left out, and so is the test of ownership.

### Accounts

`users` is the table, `dm` the map of `DMUserManager`. `UpsertUser`, `Reset`,
`Expire`, `GetUser`, `SetUserPlan` and `AddTraffic` are the functions of
`database.go` over a row; time is a number of days, and a day and a month of it
play the parts of the two dates that `GetUser` compares. `Register` and
`Unregister` hold `m.mu` over memory and row, so each is a step. A task command
(`Task`, or `OwnerTask` in DM) is registered and probed, then `CheckQuota` reads
the row and decides, then it creates jobs; anything may happen in between. `Charge`
is the `AddTraffic` of a transfer that has ended, `FinishJob` comes later, and
`Restart` turns what was charged but not finished into a job that runs again.
`moved`, `seen` and `grant` are history: what the transfers should have been charged
in all, on this day and in this month, how much of that before the row was first
read in them, and the plan last given. They follow the transfers, the calendar and the
commands, not the columns, so that `VerdictsFollowPlan` compares the code's
lazy resets with a calendar that turns at midnight. Transfers of unknown size (-1)
are not charged and not modelled; the size of a command is 0, as the callers of
`CheckQuota` pass it.

### TorrentJobs

`at[j]` is the goroutine of a job, `next` and `busy` its loop over the files. The client
has one handle per torrent (`holders`: who has been given it); `Drop` takes it from
everybody. `meta`, `full` and `wanted` are `GotInfo`, `BytesMissing() == 0` and
`DownloadAll`; `got` is what the handle has verified and `disk` what lies in the
directory, which differ once somebody has removed files under the handle. The two
kinds of jobs differ in the order of clean-up, report and charge (`AfterLoop`, `Close`).
A file is missing on disk and passed over with a line in the log (`MissesFile`), or it is
begun and then sent (`SendFile`) or not (`FileFails`), of which a leech tells its user and a
mirror does not; `EndFile` is what the last two share. `sent` and `told` are pairs of a job and a
file, `charged` the jobs that came through the whole loop: a mirror among them reports
completion, a leech says nothing more. A file that is there can be opened: the failure of
`os.Open` (`torrent_jobs.go:361`, `523`), which is only logged, is left out, and so is a
report that Telegram does not take. `disk` takes an incomplete file to have its final name;
where the engine's storage gives it another one (a suffix), the clean-up and
`/cleancache` would not find it, which is the engine's matter and not modelled.
`CleanList`, `CleanRead`, `CleanRemove`, `CleanReturns` are `/cleancache`, which asks
for the names of active jobs before it reads the directory and removes one entry
after the other. `contested` and `late` are history and name the exceptions
of the properties: a torrent that two jobs used at a time or that `/cleancache` overtook,
and one that got a piece after its clean-up.

### LiveStatus

A poster is one run of `startLiveStatusUpdater` (`live`), of `/status` without jobs
(`snapshot`) or of `/cancel`, together with the message it sends. `Clear` is the part of
`deleteLastStatus` under the mutex, `Delete` the call to Telegram after it, and the
same two steps serve the end of an updater (`leave`, `leaving`). `setLastStatus`
records the message with the function that cancels its updater, which is why `Take`
stops the updater it finds. Of the job manager only the number of active jobs is kept, of
`RecoverJobs` that it starts an updater for a job before it creates it, if it creates it.
`met` and `lost` are history and name the exceptions of the properties: posters that were
between deleting the old message and recording their own at the same time, and
messages that Telegram did not take, identify or delete.

## Runs

| Run | cfg | Shows |
|---|---|---|
| `manager` | `JobManagerReload.cfg` | three jobs, limits 1 and 2, `/reload` with 0, 1, 2: table, queue, states, goroutines and rows agree; starts respect the limit; nothing cancelled starts; the queue drains |
| `pool` | `JobManagerFixed.cfg` | four jobs, a fixed limit of 1 or 2: no idle slot in front of a queue, implements `JobPool`, which starts jobs in order |
| `recovery` | `JobRecovery.cfg` | two requests, two lives, limits 1 and 2, commands at any moment: a crash loses nothing, no double execution, nothing finished is repeated, every request settles, but for requests whose identifiers met |
| `pipeline` | `PipelinedStream.cfg` | six chunks, two workers, the window of four: implements `InOrderStream`, every chunk in one place within the window, return, no goroutine left |
| `parallel` | `ParallelDownload.cfg` | sizes from 0 to 15, pages of two, parts of two or three pages, two threads: every page is written inside the file, the file is final when the upload reads it, the call returns |
| `slots` | `MirrorTransfer.cfg` | three jobs on two slots, files of two chunks, both modes: a slot is taken exactly for a running download, no truncated file is reported as uploaded, transfers return and slots come back unless a writer lost its reader |
| `feeds` | `Feeds.cfg` | three items, a document of two, rollover 1, two lives, any of the later titles repeated: rows follow the table, nothing skipped but to the rollover rule or a repeated title, nothing repeated without overlap, no item waits for ever |
| `accounts` | `Accounts.cfg` | one user, two jobs, three days in two months, two changes of plan or owner, one crash: memory and rows agree, lifetime traffic is what was transferred, verdicts follow plan and calendar |
| `torrents` | `TorrentJobs.cfg` | a mirror and a leech, of one torrent or of two, one `/cleancache`: jobs end in one way, a leech accounts for each file, files stay for the upload and go afterwards, jobs return |
| `status` | `LiveStatus.cfg` | three posters, two jobs: the record has an updater and the updater is recorded, nothing stays behind, the screen clears |
| `cancelled_jobs`, `lost_tail` | `CancelledJobs.cfg`, `LostTail.cfg` | violations, see *Disagreements* |

Type correctness of each component is checked in one of its runs; in `recovery`, `pipeline`, `slots`, `feeds`,
`accounts`, `torrents` and `status` it is a conjunct of an invariant that relates the
variables (`OneRunPerRequest`, `WindowBoundsMemory`, `SlotsAreDownloads`,
`RowsFollowFeeds`, `AccountsAgree`, `FilesStayForUpload`, `RecordHasUpdater`).

The bounds. Two jobs that run, one that waits and one that arrives are all the
roles a job can have when a limit of 1 or 2 fills, and the limit can rise and
fall while jobs wait. Two lives let a row be met by a fresh `jobCounter` while jobs
run, and three `*Job` values are what two requests can need in one life: a command's job, its
own row recovered, and the row of the life before. That a row may be recovered again in a
third life is left to the proofs, which bound neither. Six chunks exceed the window of four, so that
permits are reused while two workers finish out of order. The sizes of
`ParallelDownload.cfg` are empty, shorter than a page, whole pages, whole parts, and
parts with every kind of remainder; three chunks or more on two threads make the
loop wait. Three mirrors on two
slots make one wait, and two chunks make a write that follows a read. Three items exceed the
document of two, so that a cursor leaves it; one feed suffices, because feeds
share nothing but the poller, and the second actor on it is the button. Of three titles the
second and the third may repeat an earlier one, next to it or with an item in between.
One user suffices for `Accounts`, because rows share nothing but the list of owners; two jobs
let one be charged while the other runs; three days of two-day months give a day that turns
within a month and one that turns with it, and days nobody reads; the sizes 10 and 41 reach
each limit of the plan Free (10 a day, 50 a month) exactly and pass it, and plan 0 stands for the
unlimited ones. Two files make a loop with a first and a last, the empty list is the
third case of `torrent_jobs.go`; a torrent of two pieces can be partly there. Three posters
are an updater, one that replaces it, and a third that comes between.
Symmetry is used for the two jobs of `Accounts`, which differ in nothing but their names, and
nowhere else: jobs, chunks and items are ordered, and liveness is checked without it.

Deadlock checking is off everywhere: with bounded jobs, chunks or items every
behaviour ends. That nothing gets stuck on the way is what `QueueDrains`,
`RequestsSettle`, `Returns`, `NoGoroutineStays`, `TransfersReturn`, `ItemsHandled`, `JobsReturn`
and `ScreenClears` say.

Fairness. Goroutines that can step do (`WF` of each job's goroutine, of each
goroutine of the pipeline, of the parallel download, of the poller, but not of the check that the run
button started, on which nothing depends): the Go scheduler starves none. That a
transfer ends, that a fetch and a write return, is an assumption about the
network: HTTP and RPC calls have timeouts or contexts. Commands, cancellation,
`/reload` and the button are not fair, and an upload that waits for the pipe is
not assumed to fail of itself. The poller's `Fetch` is strongly fair: of
infinitely many attempts some succeed. A torrent has a seed that goes on sending (without one
a job waits until it is cancelled), and the upload of a file ends. A poster's calls to Telegram
return, well or not, and its ticker ticks. `Accounts` states no liveness. After a crash `Boot` is fair, as systemd
restarts the service; the bound on lives makes *stays down* a legal end.

## Disagreements between the code and what is said of it

Two have a run of their own. The others are definitions beside the properties that hold:
TLC shows each with the configuration named here, the property in place of its own.

1. After `/reload` raises the limit, a new job starts before queued ones
   (`job_manager.go:289`, `457`), against "FIFO queue with configurable
   `max_concurrency`" (`DEVELOPMENT_PLAN.md:72`). `JobManagerFixed.cfg` with
   `Reloads = {1, 2}`, `StartsInOrder`.
2. `cancelled_jobs`: `CancelJob` and `CancelAllJobs` leave the row queued or
   running, and the next life executes the job (`job_manager.go:401`, `466`).
3. On SIGTERM the goroutines unwind silently and `FinishJob` marks
   their rows completed (`main.go:112`, `job_manager.go:369`), against
   "Persistence file for restart resume" (`README.md:93`). `JobRecovery.cfg`,
   `SigtermLosesNothing`.
4. A command that comes before `RecoverJobs` has read the rows takes the
   identifier of one, its `saveStateLocked` overwrites the row, and a request is lost
   (`main.go:92`, `103`, `job_manager.go:246`), against "Persistence file for restart
   resume" (`README.md:93`). `JobRecovery.cfg`, `CommandsLoseNothing`.
5. `CreateRecoveredJob` puts a recovered job in the place of a running one of
   the same identifier (`job_manager.go:338`). That one's goroutine goes on outside the table:
   `/cancelall` does not reach it, against "Cancel all active and queued jobs"
   (`README.md:36`), and its `FinishJob` finishes the job that has taken its place.
   `JobRecovery.cfg`, `CancelAllReachesAll`. `OneRunPerRequest` says that only requests
   whose identifiers met are concerned.
6. The rollover rule takes items older than the feed
   (`feed.go:510`), against the comment at `feed.go:351`. `Feeds.cfg`, `PastItemsStay`.
7. The jobs of a feed are cancelled with the context of the check
   that created them (`feed.go:578`, `telegram.go:2583`) while the cursor has
   passed their items. `Feeds.cfg`, `MatchesDelivered`.
8. When an upload fails while its download is in `pw.Write`, nobody
   reads or closes the pipe, the write never returns, and `ts.dm.Release` never
   runs (`telegram.go:1928`), against "Callers must Release."
   (`download_manager.go:25`). `MirrorTransfer.cfg`, `SlotsReleased`. `TransfersReturn`
   and `SlotsComeBack` say that this is the only way to lose a slot.
9. `lost_tail`: the last part of a file is rounded down to whole pages, and the
   step for the remainder asks for the same pages again: up to 4095 bytes are never
   fetched and the shorter file is uploaded as complete (`raw_download.go:101`),
   against the comments at `raw_download.go:71` and `100`. `PagesWritten` says that
   nothing else is missing.
10. What is charged after midnight and before the row is first read counts for the day
   before and is wiped (`database.go:352`, `395`), against "10 GB / day"
   (`database.go:39`). `Accounts.cfg`, `QuotaCoversDay`. `VerdictsFollowPlan` says
   that nothing else is missed.
11. `/setplan <user> 0 <days>` does not expire (`database.go:368`), against the usage
    line at `telegram.go:595`. `Accounts.cfg`, `PlansExpire`.
12. A piece that arrives between the clean-up of a cancelled torrent job and its deferred
    `Drop` is written again and stays (`torrent_jobs.go:176`, `221`), against
    "automatically cleans up disk pieces on completion or cancellation" (`README.md:143`).
    `TorrentJobs.cfg`, `CleansUp`. `ScratchIsCleaned` names the exceptions.
13. Two updaters that start at a time leave two messages (`telegram.go:1024`, `2489`), against
    "the single live updating status message" (`README.md:99`). `LiveStatus.cfg`,
    `SingleMessage`. `NothingLeftBehind` names the exceptions.
14. An updater that saw no job, or `/cancel`, deletes the message that a new job's updater has
    just recorded and stops that updater; the job runs without a message
    (`telegram.go:1060`, `423`), against "Auto-updating" (`README.md:14`). `LiveStatus.cfg`,
    `JobsAreShown`.
15. An item that repeats the last title is taken for the cursor; it and the
    unread items below it are passed over (`feed.go:494`), against "executes matches
    that appeared since LastGUID" (`feed.go:481`). `Feeds.cfg`,
    `MatchesSinceLastGUID`. `NothingSkipped` says that nothing else is lost.
16. A mirror of a torrent reports completion and charges the whole of it
    although uploads failed, or all of them did (`torrent_jobs.go:378`, `386-396`), against
    "task completion reports, Google Drive index links, download error notices"
    (`README.md:100`). `TorrentJobs.cfg`, `DoneMeansUploaded`.
    `EndsAreExplained` says what the users of torrent jobs do learn.

`OwnerKept` in `JobRecovery` (a recovered job belongs to the user who asked for
it) fails as well: identifiers are reused and the upsert keeps the old
`user_id` (`database.go:484`). No run checks it, as no document speaks of it.

## Proofs

Every invariant, action property and refinement that a passing run checks is proved
for all values of the constants that its module's assumption admits; a run shows it on
the instance of its cfg. Each proof has one inductive invariant, a lemma per action, and
a theorem per property.

### One life of the job manager (`JobManagerProofs`)

For every `MaxJobs`, every set of limits and every value `/reload` may bring
(`JobManagerAssumption`). `Invariance` is `Spec => []JobInv`, and from it:

- `TypeCorrect`: `Spec => []TypeOK`
- `QueueAgreement`: `Spec => []QueueAgreesWithTable`
- `NoSlotLeaks`: `Spec => []SlotsHaveWorkers`
- `NeverStalls`: `Spec => []NoStall`
- `CancelledStaysOut`: `Spec => CancelledNeverStarts`
- `StartsRespectLimit`: `Spec => StartsWithinLimit`
- `RowsAreRight`: `Spec => []RowsFollowTable`
- `WorkConservingHolds`: `Reloads = {} => (Spec => []WorkConserving)`
- `ImplementsPoolHolds`: `Reloads = {} => (Spec => ImplementsPool)`

`NoStall` is not inductive: that a finishing job leaves either nobody in the queue or
someone running needs that every running job is in the table and has a goroutine
(`SlotsHaveWorkers`, `QueueAgreesWithTable`), and that a job never enters the queue
twice needs `IdsFollowAllocation`: identifiers are not reused within one life. The
argument about `Promote`, the common tail of `FinishJob` and `CancelJob`, is a lemma
(`PromoteKeeps`) over the table, queue and states as the method left them; it rests on
three lemmas about taking a job off an ordered queue. `NoStall` holds with any
`/reload` because a job queues only while somebody runs (`FullMeansRunning`) and the
one that leaves starts the next.

The two properties about starts follow from `StepStarts`: under `JobInv` a step either
starts no goroutine and adds nothing to the running jobs (`StartsNone`), or starts one
job, new or queued, beside a set of running jobs smaller than the limit (`StartsOne`).
The rows are right because `saveStateLocked` writes under key n the state of job n and
nothing else (`SavedAsIsJob`), and so leaves alone the rows of jobs that have left.

`WorkConserving` becomes inductive with the bound it needs, that no more jobs run than
may (`PoolFull`). A method then is `Arrive`, `Leave` or `Clear` of `JobPool` or a stutter
(`StepIsPoolStep`); `PoolMeans` says what these are in the variables of `JobManager`.
Both have the hypothesis `Reloads = {}`, because after `/reload` has raised the limit
they fail (disagreement 1).

### Several lives (`JobManagerProofs`)

For any number of requests and lives (`JobRecoveryAssumption`: the two bounds name
identifiers for all requests, `MaxRequests <= MaxJobs`). `RecoveryInvariance` is
`RecoverySpec => []RecoveryInv`, and from it:

- `CrashLosesNothingHolds`: `RecoverySpec => []CrashLosesNothing`
- `OneRunPerRequestHolds`: `RecoverySpec => []OneRunPerRequest`
- `FinishedNeverRepeatsHolds`: `RecoverySpec => FinishedNeverRepeats`

Commands and `RecoverJobs` come in every order. Where identifiers meet, table, rows and
goroutines no longer agree (a goroutine without an entry, an entry without a row), so each
part of `RecoveryInv` speaks of the jobs and keys that no collision has touched
(`CleanJobs`, `Fresh`): a fresh key has one job at most (`JobsInv`), a record still to be
recovered under it is the live row of no job (`PendingInv`), a job and its row are of one
request, and no two rows are of the same (`JobsInv`, `RowsInv`), from which
`OneRunPerRequest` follows. That a collision stays where it is needs two facts: whatever
lies under a key that is not fresh is of collided requests, and a job that enters finds
its key either free, with the row of its own request or of none (`KeyIsFree`), or shared by
requests that have all collided (`KeyIsShared`); these are the two cases of
`AdmittedRows`, which `Accept` and `Recover` share. A goroutine that
returns, a context that is done and a cancelled job are of requests a crash may forget
(`SettledInv`), which is what the early return of `sendJobFailure` and the completed row
of `FinishJob` need; what is marked completed has neither a live row nor a job
(`FinishedInv`). Five kinds of steps only take jobs and records away, and share the lemma
`ShrinkKeeps`; the two that admit a job share `AdmissionKeeps`. For
`FinishedNeverRepeats`, `StartedJobsRun` says that a goroutine is started only for a job that
then runs, and `CollisionsStartNobodyElse` that a step in which identifiers meet starts none
for what is marked completed.

### Downloads and transfers

`PipelinedStreamProofs`, for any number of chunks and threads
(`PipelinedStreamAssumption`), from `StreamInv`:

- `WindowBoundsMemoryHolds`: `Spec => []WindowBoundsMemory`
- `ImplementsStreamHolds`: `Spec => ImplementsStream`

A chunk in flight is in one of four places (the channel to the workers, a worker, the
channel of results, the buffer), once (`SingleInv`) and in one only (`ApartInv`); without an
error the places hold exactly what is issued and not written (`HeldInv`), so that the
consumer's next chunk is never missing; the permits bound their number (`PermitInv`), so
that a worker always finds room for its result. `EndInv` gives the last step of the
refinement: that the results end means that all chunks were issued and have arrived.

`ParallelDownloadProofs`, for every set of sizes and part sizes, every page and every
number of threads (`ParallelDownloadAssumption`), from `DownloadInv`:

- `DownloadTyped`: `Spec => []TypeOK`, every write stays inside the file
- `AllPages`: `Spec => []PagesWritten`
- `FileStaysAsReturned`: `Spec => FileIsFinal`

The heart of `DownloadInv` is that without an error each chunk the loop has passed is
running or in the file. `RangesCoverPages` is the arithmetic: an offset below the last
whole page lies in the range of the chunk `o \div partSize`.

`MirrorTransferProofs`, for any finite set of jobs and any number of slots and chunks
(`MirrorTransferAssumption`), from `TransferInv`:

- `SlotsAreDownloadsHolds`: `Spec => []SlotsAreDownloads`
- `WholeFileOrErrorHolds`: `Spec => []WholeFileOrError`

That a slot is granted only to a job that will release it needs that whoever waits in
line asks for a slot, once (`LineInv`). The uploader sees the end of the pipe only after
the last chunk (`PipeInv`): of the two calls on the error path the first counts.

### Feeds, accounts, torrents, status

`FeedsProofs`, for any number of feeds, items and lives, any length of the document and
any rollover (`FeedsAssumption`), from `FeedsInv`:

- `RowsFollowFeedsHolds`: `Spec => []RowsFollowFeeds`
- `NothingSkippedHolds`: `Spec => []NothingSkipped`
- `HandledOnceHolds`: `Spec => []HandledOnce`

`SkipInv` extends `NothingSkipped` to deleted feeds and to the document a check is
working on: what is up to its newest item is seen, still to do, or a `Namesake`: it lies
between an item and the next of the same title, which is what the title match of a
comparison passes over. It needs no exclusion of
checks, which is why overlapping ones lose nothing. `OnceInv` does: where no checks
overlap one check at most has the feed, its items are ahead of the cursor, and what was
handled is behind the cursor or made by that check.

`AccountsProofs`, for any users, jobs, sizes, terms, plans, owners and length of the
month (`AccountsAssumption`), from `AccountsInv`:

- `AccountsAgreeHolds`: `Spec => []AccountsAgree`
- `TrafficIsAccountedHolds`: `Spec => []TrafficIsAccounted`
- `VerdictsFollowPlanHolds`: `Spec => VerdictsFollowPlan`

`VerdictsFollowPlan` speaks of one step and needs the past: a counter of a row is of the
day of its last reset, and with what was charged before the first read it is the traffic of
the calendar's day and month (`CounterInv`); the plan of a row is the one last given, or the
free one once that has expired (`PlanInv`). That two days with the same number in their
month and the same month are one day (`SameDay`) is what the comparison in `GetUser` rests on.

`TorrentJobsProofs`, for any jobs, torrents and numbers of files (`TorrentJobsAssumption`),
from `TorrentInv`:

- `EndsAreExplainedHolds`: `Spec => []EndsAreExplained`
- `FilesStayForUploadHolds`: `Spec => []FilesStayForUpload`
- `ScratchIsCleanedHolds`: `Spec => []ScratchIsCleaned`

That files stay needs that the only job of a torrent holds its handle and that
`/cleancache`, once under way, passes over the torrent (`AloneInv`); then what the handle
has verified is in the directory until the clean-up (`DiskInv`), and nothing is there before
the job asked for data or after it cleaned up (`ScratchInv`). That a leech accounts for its
files is `FilesInv`: of each file it is through with, sent or told, where `DiskInv` says that
none was missing unless the torrent is contested.

`LiveStatusProofs`, for any set of posters and any bound on the jobs
(`LiveStatusAssumption`, `NoneAssumption`), from `LiveInv`:

- `RecordKept`: `Spec => []RecordHasUpdater`
- `NothingStays`: `Spec => []NothingLeftBehind`

That a recorded live message has an updater (`RecordInv`) needs that
an updater is cancelled only after it began to loop (`StopInv`), because a message is recorded
at the moment its updater begins to; that a working updater is recorded (`LoopInv`) needs that
whoever is recorded over was met (`MeetInv`): if a message is recorded while somebody
posts, its owner was posting beside them. `VictimInv` and `RoleInv` tie what a poster has
taken, and what it is, to the place where it stands. Each action of a poster has its lemma;
only `Delete` needs an argument, because a canceller may turn into an updater there.

### Only model-checked

Liveness, which is out of the prover's reach: `QueueDrains`, `RequestsSettle`, `Returns`,
`NoGoroutineStays`, `TransfersReturn`, `SlotsComeBack`, `ItemsHandled`, `JobsReturn`,
`ScreenClears`. The violations are TLC's counterexamples.

## Not modelled, and the plan

Not modelled:

- Telegram, Google Drive and the torrent engine: third party; their answers are
  nondeterministic outcomes of the steps that use them.
- Parsing, rendering, statistics, OAuth, the configuration file: no order of events.
- `fast_download.go`: not called.
- The cache of group members (`telegram.go:1311`): `Accounts` takes the answer of
  Telegram as given at the moment of the command.
- The pool cache (`pool_download.go`), URL mirrors and leeches beside `MirrorTransfer`: they copy one
  body to one upload in one goroutine and take no slot.
- Feed filters and their encoding in the database (`database.go:573`); transfers of
  unknown size (`telegram.go:2273`: never charged, and within every limit); responses shorter than
  asked for (`raw_download.go:238`); `downloadDocumentBytes` (`torrent_jobs.go:147`: leaves its
  goroutine behind when the document is too large); the comparison with free disk space
  (`torrent_disk.go:13`: two torrents that start together are compared with the same space).
- The size limit and the parts of a torrent's file on its way to Telegram (`torrent_jobs.go:515`): a file
  is sent or not; and that
  the row of a failed job becomes completed (`job_manager.go:369`), of which no document speaks.

Next, in this order:

1. The filters of feeds as pure operators, with what a save and a load do to them.
2. `/reload` and the end of a caller's context in `JobRecovery`, and the invariants of several
   lives with them.
