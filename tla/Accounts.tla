------------------------------ MODULE Accounts ------------------------------
(***************************************************************************)
(* The table users and the registrations for direct messages: who may give *)
(* a task command, when CheckQuota lets it pass, and what AddTraffic       *)
(* charges when the transfer ends.  The daily and the monthly counter are  *)
(* reset, and an expired plan is withdrawn, when the row is next read; the *)
(* check and the charge are a whole transfer apart.  One row per user      *)
(* outlives the process, the registrations of DMUserManager do not.        *)
(***************************************************************************)
EXTENDS Integers, FiniteSets, TLC

CONSTANTS User,
          Job,          \* the jobs that may come to exist
          Sizes,        \* job.Size in GB, of transfers whose size is known
          Plans,        \* what /setplan may set, a part of 0..4
          Terms,        \* for how many days it may set it
          OwnerSets,    \* what owner_id may be, now and after a /reload
          DaysPerMonth,
          MaxDay,       \* bound: how many days pass
          MaxChanges,   \* bound: how many /setplan and /reload there are
          MaxCrashes    \* bound: how often the process dies

ASSUME AccountsAssumption ==
  /\ Sizes \subseteq Nat /\ Plans \subseteq 0..4 /\ Terms \subseteq Nat
  /\ OwnerSets \subseteq SUBSET User
  /\ DaysPerMonth \in Nat \ {0}
  /\ {MaxDay, MaxChanges, MaxCrashes} \subseteq Nat

Admin == 0
Free  == 1
Tier2 == 2
Tier3 == 3

NoRow   == [row |-> "none"]
NoEntry == -1  \* not in the map of DMUserManager
Never   == -1  \* no plan_expiry_at

VARIABLES
  day,      \* the days that have passed, in UTC
  owners,   \* cfg.OwnerID
  users,    \* the table: a row or NoRow
  dm,       \* DMUserManager.users: an access hash, 0 or 1, or NoEntry
  handler,  \* how far the handler of a user's task command is
  job,      \* none, running, charged (FinishJob is still to come) or finished
  by,       \* whose job it is
  \* What the properties compare the code with:
  moved,    \* the traffic a user's finished transfers should have been charged
  seen,     \* whether a user's row was read on this day, in this month
  grant,    \* the plan last given to a user
  changes, crashes

vars == <<day, owners, users, dm, handler, job, by, moved, seen, grant, changes,
          crashes>>

DayOf(d)   == d % DaysPerMonth
MonthOf(d) == d \div DaysPerMonth

\* In GB; 0 is unlimited.
PlanLimits(plan) ==
  CASE plan = Tier2     -> [daily |-> 20,  monthly |-> 200]
    [] plan = Tier3     -> [daily |-> 200, monthly |-> 2048]
    [] plan \in {0, 4}  -> [daily |-> 0,   monthly |-> 0]
    [] OTHER            -> [daily |-> 10,  monthly |-> 50]

NoTraffic == [total |-> 0, today |-> 0, month |-> 0,
              unseenToday |-> 0, unseenMonth |-> 0]
Unseen    == [day |-> FALSE, month |-> FALSE]

Init ==
  /\ day = 0 /\ owners \in OwnerSets
  /\ users = [u \in User |-> NoRow] /\ dm = [u \in User |-> NoEntry]
  /\ handler = [u \in User |-> "idle"]
  /\ job = [j \in Job |-> "none"] /\ by \in [Job -> User]
  /\ moved = [u \in User |-> NoTraffic] /\ seen = [u \in User |-> Unseen]
  /\ grant = [u \in User |-> [plan |-> Free, until |-> Never]]
  /\ changes = 0 /\ crashes = 0
-----------------------------------------------------------------------------
(* The rows. *)

PlanOf(u) == IF u \in owners THEN Admin ELSE Free

\* The row after UpsertUser: counters and plan of an old row stay, unless the
\* user is an owner now.
ReplaceUser(u, hash) ==
  [plan |-> PlanOf(u), expiry |-> Never, daily |-> 0, monthly |-> 0, used |-> 0,
   reset |-> day, hash |-> hash]
UpsertUser(u, hash) ==
  IF users[u] = NoRow
    THEN [plan |-> PlanOf(u), expiry |-> Never, daily |-> 0, monthly |-> 0,
          used |-> 0, reset |-> day, hash |-> hash]
    ELSE [users[u] EXCEPT !.hash = IF hash # 0 THEN hash ELSE @,
                          !.plan = IF u \in owners THEN Admin ELSE @]

\* GetUser resets what a new day or month has made stale ...
ResetByDayOnly(row) ==
  [row EXCEPT !.daily   = IF DayOf(row.reset) # DayOf(day) THEN 0 ELSE @,
              !.monthly = IF MonthOf(row.reset) # MonthOf(day) THEN 0 ELSE @,
              !.reset   = day]
Reset(row) ==
  LET newMonth == MonthOf(row.reset) # MonthOf(day)
      newDay   == DayOf(row.reset) # DayOf(day) \/ newMonth
  IN  [row EXCEPT !.daily   = IF newDay THEN 0 ELSE @,
                  !.monthly = IF newMonth THEN 0 ELSE @,
                  !.reset   = IF newDay THEN day ELSE @]

\* ... takes an expired plan back (plan 0 is not > PlanFree and stays) ...
Expire(row) ==
  IF row.expiry # Never /\ row.expiry < day /\ row.plan > Free
    THEN [row EXCEPT !.plan = Free, !.expiry = Never] ELSE row

\* ... and gives owners plan 0.
GetUser(u) ==
  LET row == Expire(Reset(users[u]))
  IN  IF u \in owners THEN [row EXCEPT !.plan = Admin] ELSE row

\* CheckQuota(userID, 0) on the row it has read.
Within(row) ==
  LET limit == PlanLimits(row.plan)
  IN  /\ limit.daily > 0 => row.daily <= limit.daily
      /\ limit.monthly > 0 => row.monthly <= limit.monthly

\* What the properties remember of a read or a write of u's row.
SeenNow(u)  == seen' = [seen EXCEPT ![u] = [day |-> TRUE, month |-> TRUE]]
OwnerSeen(u) ==
  grant' = IF u \in owners
             THEN [grant EXCEPT ![u] = [plan |-> Admin, until |-> Never]] ELSE grant
-----------------------------------------------------------------------------
(* Registrations.  Register and Unregister hold m.mu over both records. *)

\* A message in DM or an unblocked bot.  The update may lack the user's hash.
Register(u, hash) ==
  LET known == IF hash = 0 /\ dm[u] # NoEntry THEN dm[u] ELSE hash
  IN  /\ dm' = [dm EXCEPT ![u] = known]
      /\ users' = [users EXCEPT ![u] = UpsertUser(u, known)]
      /\ OwnerSeen(u)
      /\ IF users[u] = NoRow THEN SeenNow(u) ELSE UNCHANGED seen

UnregisterInMemory(u) ==
  dm' = [dm EXCEPT ![u] = NoEntry] /\ UNCHANGED users
Unregister(u) ==
  IF dm[u] = NoEntry THEN UNCHANGED <<dm, users>>
  ELSE /\ dm' = [dm EXCEPT ![u] = NoEntry]
       /\ users' = [users EXCEPT ![u].hash = 0]

MessageInDM(u) ==
  /\ \E hash \in {0, 1} : Register(u, hash)
  /\ UNCHANGED <<day, owners, handler, job, by, moved, changes, crashes>>

\* OnBotStopped, or a report in DM that Telegram refused.
Stopped(u) ==
  /\ dm[u] # NoEntry /\ Unregister(u)
  /\ UNCHANGED <<day, owners, handler, job, by, moved, seen, grant, changes, crashes>>
-----------------------------------------------------------------------------
(* Task commands. *)

\* /mirror or /leech in the group: only registered users are probed.
Task(u) ==
  /\ handler[u] = "idle" /\ dm[u] # NoEntry
  /\ handler' = [handler EXCEPT ![u] = "probing"]
  /\ UNCHANGED <<day, owners, users, dm, job, by, moved, seen, grant, changes, crashes>>

\* No answer in four seconds: the user is unregistered, whoever wrote meanwhile.
ProbeFails(u) ==
  /\ handler[u] = "probing"
  /\ handler' = [handler EXCEPT ![u] = "idle"]
  /\ Unregister(u)
  /\ UNCHANGED <<day, owners, job, by, moved, seen, grant, changes, crashes>>

\* Owners give task commands in DM as well: registered, and not probed.
OwnerTask(u) ==
  /\ handler[u] = "idle" /\ u \in owners
  /\ handler' = [handler EXCEPT ![u] = "checking"]
  /\ \E hash \in {0, 1} : Register(u, hash)
  /\ UNCHANGED <<day, owners, job, by, moved, changes, crashes>>

Answer(u, ok) ==
  handler' = [handler EXCEPT ![u] = IF ok THEN "admitted" ELSE "refused"]

\* The probe was answered, or an owner wrote in DM.
CheckQuota(u) ==
  /\ handler[u] \in {"probing", "checking"}
  /\ IF u \in owners \/ users[u] = NoRow
       THEN Answer(u, TRUE) /\ UNCHANGED <<users, seen, grant>>
       ELSE /\ users' = [users EXCEPT ![u] = GetUser(u)]
            /\ Answer(u, Within(GetUser(u)))
            /\ SeenNow(u) /\ UNCHANGED grant
  /\ UNCHANGED <<day, owners, dm, job, by, moved, changes, crashes>>

\* One check admits all the jobs of a batch (/mirror -i).
CreateJob(u, j) ==
  /\ handler[u] = "admitted" /\ job[j] = "none" /\ by[j] = u
  /\ job' = [job EXCEPT ![j] = "running"]
  /\ UNCHANGED <<day, owners, users, dm, handler, by, moved, seen, grant, changes, crashes>>

HandlerReturns(u) ==
  /\ handler[u] \in {"admitted", "refused"}
  /\ handler' = [handler EXCEPT ![u] = "idle"]
  /\ UNCHANGED <<day, owners, users, dm, job, by, moved, seen, grant, changes, crashes>>

\* A feed of u, added in DM at some time, matches: nobody checks the quota.
FeedJob(u, j) ==
  /\ users[u] # NoRow /\ job[j] = "none" /\ by[j] = u
  /\ job' = [job EXCEPT ![j] = "running"]
  /\ UNCHANGED <<day, owners, users, dm, handler, by, moved, seen, grant, changes, crashes>>
-----------------------------------------------------------------------------
(* Transfers. *)

AddTraffic(u, size) ==
  users' = IF users[u] = NoRow \/ size <= 0 THEN users
           ELSE [users EXCEPT ![u].used    = @ + size,
                              ![u].daily   = @ + size,
                              ![u].monthly = @ + size]

\* The transfer is done and reported (sendMirrorCompletion, executeLeechJob).
Charge(j, size) ==
  LET u == by[j]
  IN  /\ job[j] = "running"
      /\ job' = [job EXCEPT ![j] = "charged"]
      /\ AddTraffic(u, size)
      /\ moved' = [moved EXCEPT ![u] =
           [total       |-> @.total + size,
            today       |-> @.today + size,
            month       |-> @.month + size,
            unseenToday |-> @.unseenToday + (IF seen[u].day THEN 0 ELSE size),
            unseenMonth |-> @.unseenMonth + (IF seen[u].month THEN 0 ELSE size)]]
      /\ UNCHANGED <<day, owners, dm, handler, by, seen, grant, changes,
                     crashes>>

\* The deferred FinishJob, after a charge or after a failure.
FinishJob(j) ==
  /\ job[j] \in {"running", "charged"}
  /\ job' = [job EXCEPT ![j] = "finished"]
  /\ UNCHANGED <<day, owners, users, dm, handler, by, moved, seen, grant, changes, crashes>>
-----------------------------------------------------------------------------
(* The owner, the clock, the process. *)

\* /plan reads the row, with all that GetUser does to it.
PlanCommand(u) ==
  /\ users[u] # NoRow /\ users' = [users EXCEPT ![u] = GetUser(u)]
  /\ SeenNow(u) /\ OwnerSeen(u)
  /\ UNCHANGED <<day, owners, dm, handler, job, by, moved, changes, crashes>>

SetUserPlan(u, plan, expiry) ==
  /\ users[u] # NoRow /\ changes < MaxChanges
  /\ users' = [users EXCEPT ![u].plan = plan, ![u].expiry = expiry]
  /\ grant' = [grant EXCEPT ![u] = [plan |-> plan, until |-> expiry]]
  /\ changes' = changes + 1
  /\ UNCHANGED <<day, owners, dm, handler, job, by, moved, seen, crashes>>

Reload(set) ==
  /\ set # owners /\ changes < MaxChanges
  /\ owners' = set /\ changes' = changes + 1
  /\ UNCHANGED <<day, users, dm, handler, job, by, moved, seen, grant, crashes>>

Midnight ==
  /\ day < MaxDay /\ day' = day + 1
  /\ LET newMonth == MonthOf(day + 1) # MonthOf(day)
     IN  /\ moved' = [u \in User |->
              [moved[u] EXCEPT !.today = 0, !.unseenToday = 0,
                               !.month = IF newMonth THEN 0 ELSE @,
                               !.unseenMonth = IF newMonth THEN 0 ELSE @]]
         /\ seen' = [u \in User |-> [day |-> FALSE,
                                     month |-> seen[u].month /\ ~newMonth]]
  /\ UNCHANGED <<owners, users, dm, handler, job, by, grant, changes, crashes>>

\* The next life lists the users with an access hash; RecoverJobs executes again
\* what FinishJob has not completed.
Restart ==
  /\ crashes < MaxCrashes /\ crashes' = crashes + 1
  /\ dm' = [u \in User |-> IF users[u] # NoRow /\ users[u].hash # 0
                             THEN users[u].hash ELSE NoEntry]
  /\ handler' = [u \in User |-> "idle"]
  /\ job' = [j \in Job |-> IF job[j] = "charged" THEN "running" ELSE job[j]]
  /\ UNCHANGED <<day, owners, users, by, moved, seen, grant, changes>>

TaskStep(u) ==
  \/ Task(u) \/ ProbeFails(u) \/ OwnerTask(u) \/ CheckQuota(u)
  \/ HandlerReturns(u)

Next ==
  \/ \E u \in User :
       \/ MessageInDM(u) \/ Stopped(u) \/ TaskStep(u) \/ PlanCommand(u)
       \/ \E j \in Job : CreateJob(u, j) \/ FeedJob(u, j)
       \/ \E plan \in Plans, term \in Terms :
            \/ SetUserPlan(u, plan, day + term)
            \/ SetUserPlan(u, plan, Never)
  \/ \E j \in Job : FinishJob(j) \/ \E size \in Sizes : Charge(j, size)
  \/ \E set \in OwnerSets : Reload(set)
  \/ Midnight \/ Restart

Spec == Init /\ [][Next]_vars
-----------------------------------------------------------------------------
\* Jobs differ in nothing but their names.
JobSymmetry == Permutations(Job)

Row == [plan : 0..4, expiry : Nat \cup {Never}, daily : Nat, monthly : Nat,
        used : Nat, reset : Nat, hash : {0, 1}]

TypeOK ==
  /\ day \in Nat /\ owners \in OwnerSets
  /\ users \in [User -> Row \cup {NoRow}]
  /\ dm \in [User -> {NoEntry, 0, 1}]
  /\ handler \in [User -> {"idle", "probing", "checking", "admitted", "refused"}]
  /\ job \in [Job -> {"none", "running", "charged", "finished"}]
  /\ by \in [Job -> User]

\* The registrations in memory and the rows tell the same story whatever
\* happens in between, the process's death included: who is registered has a
\* row with the same access hash, who is not has none in the row; and no job
\* runs, and no task command is under way, for a user who has no account to
\* charge (telegram.go:217, dm_users.go:93, 124).
AccountsAgree ==
  /\ TypeOK
  /\ \A u \in User :
       /\ dm[u] # NoEntry => users[u] # NoRow /\ users[u].hash = dm[u]
       /\ dm[u] = NoEntry => users[u] = NoRow \/ users[u].hash = 0
       /\ handler[u] # "idle" => users[u] # NoRow
  /\ \A j \in Job : job[j] # "none" => users[by[j]] # NoRow

\* Nothing that happens to a row - registering again, a reset, a plan that
\* comes or goes - loses lifetime traffic, and no finished transfer goes
\* uncharged (database.go:395, 279).
TrafficIsAccounted ==
  \A u \in User : users[u] # NoRow => users[u].used = moved[u].total

\* The plan a user is entitled to.  Plan 0 does not expire.
Entitled(u) ==
  IF u \in owners \/ grant[u].plan = Admin THEN Admin
  ELSE IF grant[u].until # Never /\ grant[u].until < day THEN Free
  ELSE grant[u].plan

\* The traffic of this day and month, but for what was charged before the row
\* was first read in them.
CountedWithin(u) ==
  Within([plan    |-> Entitled(u),
          daily   |-> moved[u].today - moved[u].unseenToday,
          monthly |-> moved[u].month - moved[u].unseenMonth])

\* CheckQuota lets a command pass exactly when the traffic of this day and of
\* this month is within the plan the user is entitled to at this moment, however
\* late rows are reset and plans withdrawn; the only traffic it misses is what
\* was charged since midnight before the first read (database.go:413).
VerdictsFollowPlan ==
  [][\A u \in User : handler'[u] # handler[u] =>
       /\ handler'[u] = "admitted" => CountedWithin(u)
       /\ handler'[u] = "refused"  => ~CountedWithin(u)]_vars

\* The quota as the plans are described: no command passes once the traffic of
\* the day is over the limit (database.go:28).  It fails.
QuotaCoversDay ==
  [][\A u \in User : handler[u] # "admitted" /\ handler'[u] = "admitted" =>
       Within([plan |-> Entitled(u), daily |-> moved[u].today,
               monthly |-> moved[u].month])]_vars

\* A plan given for some days is over when they are, plan 0 too
\* (telegram.go:595).  It fails.
PlansExpire ==
  [][\A u \in User \ owners : handler[u] # "admitted" /\ handler'[u] = "admitted"
       /\ grant[u].until # Never /\ grant[u].until < day =>
       Within([users'[u] EXCEPT !.plan = Free])]_vars
=============================================================================
