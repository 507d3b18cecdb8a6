----------------------------- MODULE LiveStatus -----------------------------
(***************************************************************************)
(* The status message of the bot.  Every command that creates a job starts *)
(* an updater: it deletes the last status message, sends one of its own,   *)
(* records it with the function that cancels the updater, and edits it     *)
(* until no job is active.  The record (lastStatusID, lastStatusFn) is one *)
(* for the whole bot and is guarded by a mutex; sending and deleting       *)
(* happen outside it.  A poster stands for one run of an updater or of a   *)
(* handler, and for the message that it sends.                             *)
(***************************************************************************)
EXTENDS Integers, FiniteSets

CONSTANTS Poster,
          MaxJobs     \* bound: how many jobs are active at a time

ASSUME LiveStatusAssumption == MaxJobs \in Nat

None == "none"
ASSUME NoneAssumption == None \notin Poster

VARIABLES
  jobs,      \* len(jm.active)
  recovered, \* the jobs RecoverJobs has announced and not created yet
  pc, role,  \* where a poster is; live (an updater), snapshot,
             \* cancel or cancelAll
  victim,    \* the message that it has taken from the record to delete
  last,      \* the recorded message
  stopped,   \* the updaters whose statusCtx is cancelled
  shown,     \* the messages on the screen
  \* What the properties need to know of the past.
  met,       \* posters that were between deleting and recording together
  lost       \* messages Telegram did not take, identify or delete

vars == <<jobs, recovered, pc, role, victim, last, stopped, shown, met, lost>>

Init ==
  /\ jobs = 0 /\ recovered = 0
  /\ pc = [p \in Poster |-> "idle"] /\ role = [p \in Poster |-> "live"]
  /\ victim = [p \in Poster |-> None]
  /\ last = None /\ stopped = {} /\ shown = {}
  /\ met = {} /\ lost = {}

Goto(p, place) == pc' = [pc EXCEPT ![p] = place]
As(p, r)       == role' = [role EXCEPT ![p] = r]

Posts(p) == role[p] \in {"live", "snapshot"}
\* Posters that have deleted the last message and not recorded theirs yet.
Posting == {p \in Poster : pc[p] \in {"delete", "send", "record"} /\ Posts(p)}
-----------------------------------------------------------------------------
(* Who starts posters. *)

\* A command or a feed creates a job and starts an updater.
CreateJob(p) ==
  /\ pc[p] = "idle" /\ jobs + recovered < MaxJobs
  /\ jobs' = jobs + 1
  /\ As(p, "live") /\ Goto(p, "clear")
  /\ UNCHANGED <<recovered, victim, last, stopped, shown, met, lost>>

\* RecoverJobs starts an updater for each job, and then creates the job, if its
\* kind is known.
RecoverUpdater(p) ==
  /\ pc[p] = "idle" /\ jobs + recovered < MaxJobs
  /\ recovered' = recovered + 1
  /\ As(p, "live") /\ Goto(p, "clear")
  /\ UNCHANGED <<jobs, victim, last, stopped, shown, met, lost>>
RecoverJob ==
  /\ recovered > 0 /\ recovered' = recovered - 1
  /\ jobs' \in {jobs, jobs + 1}
  /\ UNCHANGED <<pc, role, victim, last, stopped, shown, met, lost>>

\* FinishJob, wherever it comes from.
FinishJob ==
  /\ jobs > 0 /\ jobs' = jobs - 1
  /\ UNCHANGED <<recovered, pc, role, victim, last, stopped, shown, met, lost>>

\* /cancel of one job or of all.
Cancel(p) ==
  /\ pc[p] = "idle" /\ jobs > 0
  /\ \/ jobs' = jobs - 1 /\ As(p, "cancel")
     \/ jobs' = 0 /\ As(p, "cancelAll")
  /\ Goto(p, "clear")
  /\ UNCHANGED <<recovered, victim, last, stopped, shown, met, lost>>

\* /status: a snapshot when there is no job, an updater otherwise.
handleStatus(p) ==
  /\ pc[p] = "idle"
  /\ As(p, IF jobs = 0 THEN "snapshot" ELSE "live") /\ Goto(p, "clear")
  /\ UNCHANGED <<jobs, recovered, victim, last, stopped, shown, met, lost>>
-----------------------------------------------------------------------------
(* deleteLastStatus: take the record and stop its updater, then delete.  The *)
(* updater is stopped just after the unlock; a tick that comes in between is *)
(* a Tick after the stop, where the select may prefer either.                *)

TakeKeepsUpdater(p) ==
  /\ victim' = [victim EXCEPT ![p] = last]
  /\ last' = None /\ UNCHANGED stopped
TakesTooLate(p) ==
  /\ victim' = [victim EXCEPT ![p] = None]
  /\ last' = None
  /\ stopped' = IF last # None /\ role[last] = "live" THEN stopped \cup {last} ELSE stopped
Take(p) ==
  /\ victim' = [victim EXCEPT ![p] = last]
  /\ last' = None
  /\ stopped' = IF last # None /\ role[last] = "live" THEN stopped \cup {last} ELSE stopped

Clear(p) ==
  /\ pc[p] \in {"clear", "leave"}
  /\ Take(p)
  /\ Goto(p, IF pc[p] = "clear" THEN "delete" ELSE "leaving")
  /\ met' = IF pc[p] = "clear" /\ Posts(p) /\ Posting # {}
              THEN met \cup Posting \cup {p} ELSE met
  /\ UNCHANGED <<jobs, recovered, role, shown, lost>>

\* The call may fail: the message stays, and nobody knows it any more.  After
\* it the canceller of one job starts an updater if there are jobs left.
Delete(p) ==
  /\ pc[p] \in {"delete", "leaving"}
  /\ victim' = [victim EXCEPT ![p] = None]
  /\ \/ shown' = shown \ {victim[p]} /\ UNCHANGED lost
     \/ victim[p] # None /\ lost' = lost \cup {victim[p]} /\ UNCHANGED shown
  /\ LET again == role[p] = "cancel" /\ jobs > 0
     IN  /\ As(p, IF again THEN "live" ELSE role[p])
         /\ Goto(p, IF again THEN "clear"
                    ELSE IF pc[p] = "leaving" \/ ~Posts(p) THEN "ended"
                    ELSE "send")
  /\ UNCHANGED <<jobs, recovered, last, stopped, met>>
-----------------------------------------------------------------------------
(* Sending and recording. *)

Send(p) ==
  /\ pc[p] = "send" /\ Goto(p, "record")
  /\ shown' = shown \cup {p}
  /\ UNCHANGED <<jobs, recovered, role, victim, last, stopped, met, lost>>
SendFails(p) ==
  /\ pc[p] = "send" /\ Goto(p, "ended")
  /\ lost' = lost \cup {p}
  /\ UNCHANGED <<jobs, recovered, role, victim, last, stopped, shown, met>>

setLastStatus(p) ==
  /\ pc[p] = "record"
  /\ last' = p
  /\ Goto(p, IF role[p] = "live" THEN "watch" ELSE "ended")
  /\ UNCHANGED <<jobs, recovered, role, victim, stopped, shown, met, lost>>
\* extractMsgIDFromUpdates finds no identifier: an updater gives up, a snapshot
\* records that there is no message.
Unidentified(p) ==
  /\ pc[p] = "record" /\ Goto(p, "ended")
  /\ last' = IF role[p] = "live" THEN last ELSE None
  /\ lost' = lost \cup {p}
  /\ UNCHANGED <<jobs, recovered, role, victim, stopped, shown, met>>
-----------------------------------------------------------------------------
(* The loop of an updater. *)

StopsWatching(p) ==
  /\ pc[p] = "watch" /\ p \in stopped /\ Goto(p, "ended")
  /\ UNCHANGED <<jobs, recovered, role, victim, last, stopped, shown, met, lost>>
TicksForEver(p) ==
  /\ pc[p] = "watch" /\ Goto(p, "edit")
  /\ UNCHANGED <<jobs, recovered, role, victim, last, stopped, shown, met, lost>>
Tick(p) ==
  /\ pc[p] = "watch" /\ Goto(p, IF jobs = 0 THEN "leave" ELSE "edit")
  /\ UNCHANGED <<jobs, recovered, role, victim, last, stopped, shown, met, lost>>
\* The edit is over, or has failed, or is put off by a flood wait.
Edited(p) ==
  /\ pc[p] = "edit" /\ Goto(p, IF jobs = 0 THEN "leave" ELSE "watch")
  /\ UNCHANGED <<jobs, recovered, role, victim, last, stopped, shown, met, lost>>
FloodWait(p) ==
  /\ pc[p] = "edit" /\ Goto(p, "watch")
  /\ UNCHANGED <<jobs, recovered, role, victim, last, stopped, shown, met, lost>>

PosterStep(p) ==
  \/ Clear(p) \/ Delete(p) \/ Send(p) \/ SendFails(p) \/ setLastStatus(p)
  \/ Unidentified(p) \/ StopsWatching(p) \/ Tick(p) \/ Edited(p) \/ FloodWait(p)

Next ==
  \/ \E p \in Poster :
       \/ CreateJob(p) \/ RecoverUpdater(p) \/ handleStatus(p)
       \/ Cancel(p) \/ PosterStep(p)
  \/ RecoverJob \/ FinishJob

Spec == Init /\ [][Next]_vars

\* Calls return and tickers tick; RecoverJobs goes on.
FairSpec ==
  /\ Spec
  /\ \A p \in Poster : WF_vars(PosterStep(p))
  /\ WF_vars(RecoverJob)
-----------------------------------------------------------------------------
TypeOK ==
  /\ jobs \in Nat /\ recovered \in Nat
  /\ pc \in [Poster -> {"idle", "clear", "delete", "send", "record", "watch", "edit",
                        "leave", "leaving", "ended"}]
  /\ role \in [Poster -> {"live", "snapshot", "cancel", "cancelAll"}]
  /\ victim \in [Poster -> Poster \cup {None}] /\ last \in Poster \cup {None}
  /\ {stopped, shown, met, lost} \subseteq SUBSET Poster

Looping == {p \in Poster : pc[p] \in {"watch", "edit", "leave"}}

\* The record and the updaters fit together: a recorded live message has an
\* updater that works on it and is not cancelled; and an updater that works
\* without having been cancelled has its message recorded, unless another poster
\* recorded over it, which takes two of them between deleting the old message
\* and recording their own (telegram.go:797, 1023).
RecordHasUpdater ==
  /\ TypeOK
  /\ last # None /\ role[last] = "live" => last \in Looping \ stopped
  /\ \A p \in Looping \ stopped : last = p \/ p \in met

\* No message stays behind: what is on the screen is recorded, about to be
\* recorded or about to be deleted - but for messages Telegram did not identify
\* or delete, and those of posters that met (telegram.go:1036, 815).
NothingLeftBehind ==
  \A p \in shown :
    \/ last = p \/ pc[p] = "record" \/ \E q \in Poster : victim[q] = p
    \/ p \in lost \cup met

\* "auto-deleted on completion" (README.md:148): when no job is left, the live
\* messages vanish, but for the same exceptions.
ScreenClears ==
  <>[](jobs = 0) =>
    <>[](\A p \in shown : role[p] = "snapshot" \/ p \in lost \cup met)

\* "the single live updating status message" (README.md:99).  It fails.
SingleMessage == Cardinality(shown \ lost) <= 1

\* "Live status message: Auto-updating" (README.md:14): with jobs active and no
\* poster under way there is a message that is updated.  It fails.
JobsAreShown ==
  jobs > 0 /\ lost = {} /\ (\A p \in Poster : pc[p] \in {"watch", "ended"}) =>
    \E p \in shown : pc[p] = "watch" /\ p \notin stopped
=============================================================================
