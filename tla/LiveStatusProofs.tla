-------------------------- MODULE LiveStatusProofs --------------------------
(***************************************************************************)
(* What the record, the updaters and the screen have to do with each other *)
(* in LiveStatus, for any number of posters and jobs.                      *)
(***************************************************************************)
EXTENDS LiveStatus, TLAPS

\* A recorded message is a live one whose updater works and is not cancelled,
\* or a snapshot.
RecordInv ==
  last # None =>
    \/ role[last] = "live" /\ last \in Looping \ stopped
    \/ role[last] = "snapshot" /\ pc[last] = "ended"

\* Only updaters loop, and who loops without having been cancelled is recorded
\* or met another poster.
LoopInv ==
  \A p \in Looping : role[p] = "live" /\ (p \in stopped \/ last = p \/ p \in met)

\* An updater is cancelled only after it began to loop.
StopInv == \A p \in stopped : p \in Looping \/ pc[p] \in {"leaving", "ended"}

\* Two that post at a time know it, and so does the owner of a message that is
\* recorded while somebody posts.
MeetInv ==
  /\ \A p, q \in Posting : p # q => p \in met
  /\ Posting # {} /\ last # None => last \in met

\* A message is taken to be deleted at once.
VictimInv == \A p \in Poster : victim[p] # None => pc[p] \in {"delete", "leaving"}

\* Who sends or records is no canceller, and who leaves the loop is an updater.
RoleInv ==
  \A p \in Poster :
    /\ pc[p] \in {"send", "record"} => Posts(p)
    /\ pc[p] = "leaving" => role[p] = "live"

LiveInv ==
  /\ TypeOK
  /\ RecordInv /\ LoopInv /\ StopInv /\ MeetInv /\ VictimInv /\ RoleInv
  /\ NothingLeftBehind
-----------------------------------------------------------------------------
(* The conjuncts of the invariant speak of each other's state: every action of a
   poster needs them all. *)
USE LiveStatusAssumption, NoneAssumption
    DEF LiveInv, TypeOK, RecordInv, LoopInv, StopInv, MeetInv, VictimInv, RoleInv,
        NothingLeftBehind, Looping, Posting, Posts

\* The bot starts with no record, no updater and an empty screen.
LEMMA InitInv == Init => LiveInv
BY DEF Init

\* A command starts an updater that has not touched the record.
LEMMA CreateJobKeeps ==
  ASSUME LiveInv, NEW p \in Poster, CreateJob(p) PROVE LiveInv'
BY SMTT(60) DEF CreateJob, Goto, As

\* So does RecoverJobs.
LEMMA RecoverUpdaterKeeps ==
  ASSUME LiveInv, NEW p \in Poster, RecoverUpdater(p) PROVE LiveInv'
BY SMTT(60) DEF RecoverUpdater, Goto, As

\* So does /status.
LEMMA HandleStatusKeeps ==
  ASSUME LiveInv, NEW p \in Poster, handleStatus(p) PROVE LiveInv'
BY SMTT(60) DEF handleStatus, Goto, As

\* So does /cancel.
LEMMA CancelKeeps ==
  ASSUME LiveInv, NEW p \in Poster, Cancel(p) PROVE LiveInv'
BY SMTT(60) DEF Cancel, Goto, As

\* Who empties the record cancels the updater it finds there, and takes its
\* message.
LEMMA ClearKeeps ==
  ASSUME LiveInv, NEW p \in Poster, Clear(p) PROVE LiveInv'
BY SMTT(60) DEF Clear, Take, Goto

\* The message taken from the record leaves the screen, or is lost; the poster
\* goes on to send, or it started only to delete.
LEMMA DeleteKeeps ==
  ASSUME LiveInv, NEW p \in Poster, Delete(p) PROVE LiveInv'
<1> DEFINE again == role[p] = "cancel" /\ jobs > 0
           place == IF again THEN "clear"
                    ELSE IF pc[p] = "leaving" \/ ~Posts(p) THEN "ended" ELSE "send"
<1>1. /\ pc[p] \in {"delete", "leaving"}
      /\ victim' = [victim EXCEPT ![p] = None]
      /\ role' = [role EXCEPT ![p] = IF again THEN "live" ELSE role[p]]
      /\ pc' = [pc EXCEPT ![p] = place]
      /\ UNCHANGED <<jobs, recovered, last, stopped, met>>
  BY DEF Delete, Goto, As
<1>2. \/ shown' = shown \ {victim[p]} /\ UNCHANGED lost
      \/ victim[p] # None /\ lost' = lost \cup {victim[p]} /\ UNCHANGED shown
  BY DEF Delete
<1>3. /\ place \in {"clear", "ended", "send"}
      /\ place = "send" => Posts(p) /\ pc[p] = "delete"
      /\ pc[p] = "leaving" => place = "ended"
  BY <1>1
<1> HIDE DEF place
<1>4. \A q \in Poster \ {p} :
        pc'[q] = pc[q] /\ role'[q] = role[q] /\ victim'[q] = victim[q]
  BY <1>1
<1>5. /\ pc'[p] = place /\ victim'[p] = None
      /\ role'[p] = role[p] \/ (role'[p] = "live" /\ place = "clear")
  BY <1>1 DEF place
<1>6. TypeOK'
  BY <1>1, <1>2, <1>3
<1>7. Looping' = Looping /\ Posting' \subseteq Posting
  BY <1>1, <1>3, <1>4, <1>5
<1>8. RecordInv'
  <2>1. last # None => last # p
    BY <1>1
  <2> QED BY <1>1, <1>4, <1>7, <2>1
<1>9. LoopInv' /\ StopInv'
  BY <1>1, <1>3, <1>4, <1>5, <1>7
<1>10. MeetInv'
  BY <1>1, <1>7
<1>11. VictimInv' /\ RoleInv'
  BY <1>1, <1>3, <1>4, <1>5, <1>6
<1>12. NothingLeftBehind'
  BY <1>1, <1>2, <1>3, <1>4, <1>5
<1> QED BY <1>6, <1>8, <1>9, <1>10, <1>11, <1>12

\* A message appears that is about to be recorded.
LEMMA SendKeeps ==
  ASSUME LiveInv, NEW p \in Poster, Send(p) PROVE LiveInv'
BY SMTT(60) DEF Send, Goto

\* A poster that cannot send ends.
LEMMA SendFailsKeeps ==
  ASSUME LiveInv, NEW p \in Poster, SendFails(p) PROVE LiveInv'
BY SMTT(60) DEF SendFails, Goto

\* A message is recorded when its updater begins to loop; one that is recorded
\* over belongs to a poster that was met.
LEMMA SetLastStatusKeeps ==
  ASSUME LiveInv, NEW p \in Poster, setLastStatus(p) PROVE LiveInv'
BY SMTT(60) DEF setLastStatus, Goto

\* A message without identifier is lost; a snapshot empties the record over a
\* poster that was met.
LEMMA UnidentifiedKeeps ==
  ASSUME LiveInv, NEW p \in Poster, Unidentified(p) PROVE LiveInv'
BY SMTT(60) DEF Unidentified, Goto

\* An updater that was cancelled ends.
LEMMA StopsWatchingKeeps ==
  ASSUME LiveInv, NEW p \in Poster, StopsWatching(p) PROVE LiveInv'
BY SMTT(60) DEF StopsWatching, Goto

\* A tick of the ticker keeps the updater in its loop.
LEMMA TickKeeps ==
  ASSUME LiveInv, NEW p \in Poster, Tick(p) PROVE LiveInv'
BY SMTT(60) DEF Tick, Goto

\* So does the end of an edit.
LEMMA EditedKeeps ==
  ASSUME LiveInv, NEW p \in Poster, Edited(p) PROVE LiveInv'
BY SMTT(60) DEF Edited, Goto

\* And a flood wait.
LEMMA FloodWaitKeeps ==
  ASSUME LiveInv, NEW p \in Poster, FloodWait(p) PROVE LiveInv'
BY SMTT(60) DEF FloodWait, Goto

\* Jobs come and go without the posters.
LEMMA JobsKeep ==
  LiveInv /\ (RecoverJob \/ FinishJob) => LiveInv'
BY DEF RecoverJob, FinishJob

\* A stutter changes nothing.
LEMMA StutterKeeps == LiveInv /\ UNCHANGED vars => LiveInv'
BY DEF vars

HIDE DEF LiveInv, TypeOK, RecordInv, LoopInv, StopInv, MeetInv, VictimInv, RoleInv,
         NothingLeftBehind, Looping, Posting, Posts

\* Every step keeps the invariant.
LEMMA StepKeeps == LiveInv /\ [Next]_vars => LiveInv'
<1> SUFFICES ASSUME LiveInv, [Next]_vars PROVE LiveInv'
  OBVIOUS
<1>1. CASE UNCHANGED vars
  BY <1>1, StutterKeeps
<1>2. CASE RecoverJob \/ FinishJob
  BY <1>2, JobsKeep
<1>3. ASSUME NEW p \in Poster,
             CreateJob(p) \/ RecoverUpdater(p) \/ handleStatus(p) \/ Cancel(p)
      PROVE LiveInv'
  BY <1>3, CreateJobKeeps, RecoverUpdaterKeeps, HandleStatusKeeps, CancelKeeps
<1>4. ASSUME NEW p \in Poster, PosterStep(p) PROVE LiveInv'
  BY <1>4, ClearKeeps, DeleteKeeps, SendKeeps, SendFailsKeeps, SetLastStatusKeeps,
     UnidentifiedKeeps, StopsWatchingKeeps, TickKeeps, EditedKeeps, FloodWaitKeeps
     DEF PosterStep
<1> QED BY <1>1, <1>2, <1>3, <1>4 DEF Next

\* The inductive invariant.
LEMMA Invariance == Spec => []LiveInv
<1> QED BY InitInv, StepKeeps, PTL DEF Spec

\* For any number of posters and jobs: a recorded live message has an updater
\* that works, and an updater that works is recorded unless another poster came
\* between (telegram.go:797, 1023).
THEOREM RecordKept == Spec => []RecordHasUpdater
<1>1. LiveInv => RecordHasUpdater
  BY DEF LiveInv, RecordHasUpdater, RecordInv, LoopInv, Looping
<1> QED BY <1>1, Invariance, PTL

\* No message stays behind on the screen, but for those that Telegram lost and
\* those of posters that met (telegram.go:1036, 815).
THEOREM NothingStays == Spec => []NothingLeftBehind
<1>1. LiveInv => NothingLeftBehind
  BY DEF LiveInv
<1> QED BY <1>1, Invariance, PTL
=============================================================================
