--------------------------- MODULE AccountsProofs ---------------------------
(***************************************************************************)
(* What the rows, the registrations and the verdicts of CheckQuota have to *)
(* do with each other in Accounts, for any users, jobs, sizes, plans and   *)
(* days.                                                                   *)
(***************************************************************************)
EXTENDS Accounts, TLAPS

Traffic == [total : Nat, today : Nat, month : Nat,
            unseenToday : Nat, unseenMonth : Nat]

HistoryOK ==
  /\ moved \in [User -> Traffic]
  /\ seen \in [User -> [day : BOOLEAN, month : BOOLEAN]]
  /\ grant \in [User -> [plan : 0..4, until : Nat \cup {Never}]]

\* Who has no row was charged nothing that counts; what was charged is in the row.
TrafficInv ==
  \A u \in User :
    IF users[u] = NoRow
      THEN /\ moved[u].total = 0 /\ moved[u].today = moved[u].unseenToday
           /\ moved[u].month = moved[u].unseenMonth
      ELSE users[u].used = moved[u].total

\* A counter is of the day, or the month, of the last reset.  It is today's
\* when the row was read today, and then it lacks only what was charged before.
Counted(u) ==
  /\ users[u].reset <= day
  /\ seen[u].day <=> users[u].reset = day
  /\ seen[u].month <=> MonthOf(users[u].reset) = MonthOf(day)
  /\ moved[u].today = moved[u].unseenToday
                        + (IF seen[u].day THEN users[u].daily ELSE 0)
  /\ moved[u].month = moved[u].unseenMonth
                        + (IF seen[u].month THEN users[u].monthly ELSE 0)
CounterInv == \A u \in User : users[u] # NoRow => Counted(u)

\* A row has the plan last given to the user, or the free one once that has
\* expired.
Withdrawn(u) ==
  /\ users[u].plan = Free /\ users[u].expiry = Never
  /\ grant[u].plan # Admin /\ grant[u].until # Never /\ grant[u].until < day
Given(u) ==
  /\ users[u].plan = grant[u].plan
  /\ grant[u].plan # Admin => users[u].expiry = grant[u].until
PlanInv ==
  \A u \in User :
    IF users[u] = NoRow THEN grant[u] = [plan |-> Free, until |-> Never]
                        ELSE Given(u) \/ Withdrawn(u)

AccountsInv ==
  AccountsAgree /\ HistoryOK /\ TrafficInv /\ CounterInv /\ PlanInv
-----------------------------------------------------------------------------
(* Days and months. *)

\* A day is what its month and its number in the month say.
LEMMA DayInMonth ==
  ASSUME NEW a \in Nat PROVE a = DaysPerMonth * MonthOf(a) + DayOf(a)
BY AccountsAssumption DEF MonthOf, DayOf

\* Same number, same month: same day (what GetUser tells a new day by).
LEMMA SameDay ==
  ASSUME NEW a \in Nat, NEW b \in Nat,
         DayOf(a) = DayOf(b), MonthOf(a) = MonthOf(b)
  PROVE  a = b
BY DayInMonth

\* Months do not go back.
LEMMA MonthsGrow ==
  ASSUME NEW a \in Nat, NEW b \in Nat, a <= b
  PROVE  MonthOf(a) \in Nat /\ MonthOf(b) \in Nat /\ MonthOf(a) <= MonthOf(b)
BY AccountsAssumption DEF MonthOf
-----------------------------------------------------------------------------
(* What is done to a row. *)

\* A row is no missing row.
LEMMA RowIsRow == NoRow \notin Row
BY DEF NoRow, Row

\* Reset keeps the counters of this day and of this month and zeroes stale ones.
LEMMA ResetRow ==
  ASSUME NEW row \in Row, day \in Nat, row.reset <= day
  PROVE  /\ Reset(row) \in Row
         /\ Reset(row).reset = day
         /\ Reset(row).daily = IF row.reset = day THEN row.daily ELSE 0
         /\ Reset(row).monthly =
              IF MonthOf(row.reset) = MonthOf(day) THEN row.monthly ELSE 0
         /\ Reset(row).plan = row.plan /\ Reset(row).expiry = row.expiry
         /\ Reset(row).used = row.used /\ Reset(row).hash = row.hash
<1>1. row.reset \in Nat
  BY DEF Row
<1>2. DayOf(row.reset) = DayOf(day) /\ MonthOf(row.reset) = MonthOf(day)
        <=> row.reset = day
  BY <1>1, SameDay
<1> QED BY <1>1, <1>2 DEF Reset, Row

\* Expire touches plan and expiry alone, and only when the plan is over.
LEMMA ExpireRow ==
  ASSUME NEW row \in Row, day \in Nat
  PROVE  /\ Expire(row) \in Row
         /\ Expire(row).daily = row.daily /\ Expire(row).monthly = row.monthly
         /\ Expire(row).used = row.used /\ Expire(row).reset = row.reset
         /\ Expire(row).hash = row.hash
         /\ IF row.expiry # Never /\ row.expiry < day /\ row.plan > Free
              THEN Expire(row).plan = Free /\ Expire(row).expiry = Never
              ELSE Expire(row).plan = row.plan /\ Expire(row).expiry = row.expiry
<1>1. CASE row.expiry # Never /\ row.expiry < day /\ row.plan > Free
  <2>1. Expire(row) = [row EXCEPT !.plan = Free, !.expiry = Never]
    BY <1>1 DEF Expire
  <2>2. Free \in 0..4 /\ Never \in Nat \cup {Never}
    BY DEF Free
  <2> QED BY <1>1, <2>1, <2>2 DEF Row
<1>2. CASE ~(row.expiry # Never /\ row.expiry < day /\ row.plan > Free)
  BY <1>2 DEF Expire
<1> QED BY <1>1, <1>2

\* An owner's row gets plan 0 and keeps the rest.
LEMMA AdminRow ==
  ASSUME NEW row \in Row
  PROVE  LET owned == [row EXCEPT !.plan = Admin] IN
         /\ owned \in Row /\ owned.plan = Admin
         /\ owned.daily = row.daily /\ owned.monthly = row.monthly
         /\ owned.used = row.used /\ owned.reset = row.reset
         /\ owned.hash = row.hash
BY DEF Admin, Row

\* A charge counts three times.
AddedTo(row, size) ==
  [row EXCEPT !.used = @ + size, !.daily = @ + size, !.monthly = @ + size]
LEMMA ChargedRow ==
  ASSUME NEW row \in Row, NEW size \in Nat
  PROVE  LET sum == AddedTo(row, size) IN
         /\ sum \in Row /\ sum.plan = row.plan /\ sum.expiry = row.expiry
         /\ sum.reset = row.reset /\ sum.hash = row.hash
         /\ sum.used = row.used + size /\ sum.daily = row.daily + size
         /\ sum.monthly = row.monthly + size
<1> DEFINE a == row.used + size
           b == row.daily + size
           c == row.monthly + size
<1>1. a \in Nat /\ b \in Nat /\ c \in Nat
  BY DEF Row
<1>2. AddedTo(row, size) = [row EXCEPT !.used = a, !.daily = b, !.monthly = c]
  BY DEF AddedTo
<1> HIDE DEF a, b, c
<1>3. LET sum == [row EXCEPT !.used = a, !.daily = b, !.monthly = c]
      IN  /\ sum \in Row /\ sum.plan = row.plan /\ sum.expiry = row.expiry
          /\ sum.reset = row.reset /\ sum.hash = row.hash
          /\ sum.used = a /\ sum.daily = b /\ sum.monthly = c
  BY <1>1 DEF Row
<1> QED BY <1>2, <1>3 DEF a, b, c

\* A reading is remembered for its user alone.
LEMMA SeenRow ==
  ASSUME seen \in [User -> [day : BOOLEAN, month : BOOLEAN]],
         NEW u \in User, SeenNow(u)
  PROVE  /\ seen' \in [User -> [day : BOOLEAN, month : BOOLEAN]]
         /\ seen'[u] = [day |-> TRUE, month |-> TRUE]
         /\ \A v \in User \ {u} : seen'[v] = seen[v]
<1>1. [day |-> TRUE, month |-> TRUE] \in [day : BOOLEAN, month : BOOLEAN]
  OBVIOUS
<1> QED BY <1>1 DEF SeenNow

\* A new day begins with no traffic, and so may a month.
NewDay(sum, newMonth) ==
  [sum EXCEPT !.today = 0, !.unseenToday = 0,
              !.month = IF newMonth THEN 0 ELSE @,
              !.unseenMonth = IF newMonth THEN 0 ELSE @]
LEMMA NewDayTraffic ==
  ASSUME NEW sum \in Traffic, NEW newMonth \in BOOLEAN
  PROVE  LET new == NewDay(sum, newMonth) IN
         /\ new \in Traffic /\ new.total = sum.total
         /\ new.today = 0 /\ new.unseenToday = 0
         /\ new.month = (IF newMonth THEN 0 ELSE sum.month)
         /\ new.unseenMonth = (IF newMonth THEN 0 ELSE sum.unseenMonth)
<1> DEFINE a == IF newMonth THEN 0 ELSE sum.month
           b == IF newMonth THEN 0 ELSE sum.unseenMonth
<1>1. a \in Nat /\ b \in Nat
  BY DEF Traffic
<1>2. NewDay(sum, newMonth)
        = [sum EXCEPT !.today = 0, !.unseenToday = 0, !.month = a, !.unseenMonth = b]
  BY DEF NewDay
<1> HIDE DEF a, b
<1>3. LET new == [sum EXCEPT !.today = 0, !.unseenToday = 0,
                             !.month = a, !.unseenMonth = b]
      IN  /\ new \in Traffic /\ new.total = sum.total
          /\ new.today = 0 /\ new.unseenToday = 0
          /\ new.month = a /\ new.unseenMonth = b
  BY <1>1 DEF Traffic
<1> QED BY <1>2, <1>3 DEF a, b
-----------------------------------------------------------------------------
(* One step of each kind. *)
USE AccountsAssumption
    DEF AccountsInv, AccountsAgree, TypeOK, HistoryOK, TrafficInv, CounterInv,
        PlanInv, Counted, Given, Withdrawn

LEMMA InitInv == Init => AccountsInv
BY RowIsRow DEF Init, Traffic, NoTraffic, Unseen, Free, Never, NoEntry

LEMMA TaskKeeps ==
  ASSUME AccountsInv, NEW u \in User, Task(u) PROVE AccountsInv'
BY DEF Task

LEMMA HandlerReturnsKeeps ==
  ASSUME AccountsInv, NEW u \in User, HandlerReturns(u) PROVE AccountsInv'
BY DEF HandlerReturns

LEMMA CreateJobKeeps ==
  ASSUME AccountsInv, NEW u \in User, NEW j \in Job, CreateJob(u, j)
  PROVE  AccountsInv'
BY DEF CreateJob

LEMMA FeedJobKeeps ==
  ASSUME AccountsInv, NEW u \in User, NEW j \in Job, FeedJob(u, j)
  PROVE  AccountsInv'
BY DEF FeedJob

LEMMA FinishJobKeeps ==
  ASSUME AccountsInv, NEW j \in Job, FinishJob(j) PROVE AccountsInv'
BY DEF FinishJob

LEMMA ReloadKeeps ==
  ASSUME AccountsInv, NEW set \in OwnerSets, Reload(set) PROVE AccountsInv'
BY DEF Reload

LEMMA RestartKeeps ==
  ASSUME AccountsInv, Restart PROVE AccountsInv'
BY SMTT(60), RowIsRow DEF Restart, Row, NoEntry

\* Record and row lose the access hash together.
LEMMA UnregisterKeeps ==
  ASSUME AccountsInv, NEW u \in User, Stopped(u) \/ ProbeFails(u)
  PROVE  AccountsInv'
<1>1. /\ UNCHANGED <<day, owners, job, by, moved, seen, grant>>
      /\ handler' \in [User -> {"idle", "probing", "checking", "admitted", "refused"}]
      /\ \A v \in User : handler'[v] = handler[v] \/ handler'[v] = "idle"
  BY DEF Stopped, ProbeFails
<1>2. CASE dm[u] = NoEntry
  <2>1. UNCHANGED <<dm, users>>
    BY <1>2 DEF Stopped, ProbeFails, Unregister
  <2> QED BY <1>1, <2>1
<1>3. CASE dm[u] # NoEntry
  <2>1. /\ dm' = [dm EXCEPT ![u] = NoEntry]
        /\ users' = [users EXCEPT ![u] = [users[u] EXCEPT !.hash = 0]]
        /\ users[u] \in Row
    BY <1>3 DEF Stopped, ProbeFails, Unregister
  <2>2. [users[u] EXCEPT !.hash = 0] \in Row
    BY <2>1 DEF Row
  <2>3. /\ \A v \in User : IF v = u THEN dm'[v] = NoEntry ELSE dm'[v] = dm[v]
        /\ \A v \in User \ {u} : users'[v] = users[v]
        /\ users'[u] = [users[u] EXCEPT !.hash = 0]
    BY <2>1
  <2> QED BY <1>1, <2>1, <2>2, <2>3, RowIsRow, SMTT(60) DEF Row
<1> QED BY <1>2, <1>3

\* The hash of a registration, 0 when there is none.
HashOf(u) == IF dm[u] = NoEntry THEN 0 ELSE dm[u]

\* It is enough to look at the user whose row is written.
LEMMA OneRow ==
  ASSUME AccountsInv, NEW u \in User, NEW row \in Row,
         users' = [users EXCEPT ![u] = row],
         UNCHANGED <<day, owners, by>>,
         dm' \in [User -> {NoEntry, 0, 1}], HistoryOK',
         handler' \in [User -> {"idle", "probing", "checking", "admitted", "refused"}],
         job' \in [Job -> {"none", "running", "charged", "finished"}],
         \A v \in User \ {u} :
           /\ dm'[v] = dm[v] /\ handler'[v] = handler[v] /\ moved'[v] = moved[v]
           /\ seen'[v] = seen[v] /\ grant'[v] = grant[v],
         \A j \in Job : job'[j] # "none" => job[j] # "none",
         row.hash = HashOf(u)', row.used = moved'[u].total,
         Counted(u)', Given(u)' \/ Withdrawn(u)'
  PROVE  AccountsInv'
<1>1. users'[u] = row /\ row # NoRow /\ \A v \in User \ {u} : users'[v] = users[v]
  BY RowIsRow
<1>2. TypeOK'
  OBVIOUS
<1>3. AccountsAgree'
  BY <1>1, <1>2 DEF HashOf
<1>4. TrafficInv'
  BY <1>1
<1>5. ASSUME NEW v \in User \ {u}
      PROVE  /\ Counted(v)' <=> Counted(v)
             /\ (Given(v) \/ Withdrawn(v))' <=> (Given(v) \/ Withdrawn(v))
  BY <1>1
<1> HIDE DEF Counted, Given, Withdrawn
<1>6. CounterInv' /\ PlanInv'
  BY <1>1, <1>5
<1> QED BY <1>3, <1>4, <1>6

\* UpsertUser makes a row of this day, or keeps everything but hash and plan.
LEMMA UpsertRow ==
  ASSUME AccountsInv, NEW u \in User, NEW hash \in {0, 1}
  PROVE  LET row == UpsertUser(u, hash) IN
         /\ row \in Row
         /\ IF users[u] = NoRow
              THEN row = [plan |-> PlanOf(u), expiry |-> Never, daily |-> 0,
                          monthly |-> 0, used |-> 0, reset |-> day, hash |-> hash]
              ELSE /\ row.hash = IF hash # 0 THEN hash ELSE users[u].hash
                   /\ row.plan = IF u \in owners THEN Admin ELSE users[u].plan
                   /\ row.expiry = users[u].expiry /\ row.used = users[u].used
                   /\ row.daily = users[u].daily /\ row.monthly = users[u].monthly
                   /\ row.reset = users[u].reset
<1>1. PlanOf(u) \in 0..4 /\ Admin \in 0..4
  BY DEF PlanOf, Admin, Free
<1>2. CASE users[u] = NoRow
  BY <1>1, <1>2 DEF UpsertUser, Row
<1>3. CASE users[u] # NoRow
  <2>1. users[u] \in Row
    BY <1>3
  <2> QED BY <1>1, <1>3, <2>1 DEF UpsertUser, Row
<1> QED BY <1>2, <1>3

\* GetUser brings the row up to this day.
LEMMA GetUserRow ==
  ASSUME AccountsInv, NEW u \in User, users[u] # NoRow
  PROVE  LET row == GetUser(u) IN
         /\ row \in Row
         /\ row.hash = HashOf(u) /\ row.used = moved[u].total /\ row.reset = day
         /\ row.daily = IF seen[u].day THEN users[u].daily ELSE 0
         /\ row.monthly = IF seen[u].month THEN users[u].monthly ELSE 0
<1> DEFINE row == Expire(Reset(users[u]))
<1>1. users[u] \in Row /\ users[u].reset <= day
  OBVIOUS
<1>2. /\ row \in Row
      /\ row.hash = users[u].hash /\ row.used = users[u].used /\ row.reset = day
      /\ row.daily = IF users[u].reset = day THEN users[u].daily ELSE 0
      /\ row.monthly = IF MonthOf(users[u].reset) = MonthOf(day)
                         THEN users[u].monthly ELSE 0
  BY <1>1, ResetRow, ExpireRow
<1>3. GetUser(u) = IF u \in owners THEN [row EXCEPT !.plan = Admin] ELSE row
  BY DEF GetUser
<1> HIDE DEF row
<1>4. /\ GetUser(u) \in Row
      /\ GetUser(u).hash = row.hash /\ GetUser(u).used = row.used
      /\ GetUser(u).reset = row.reset /\ GetUser(u).daily = row.daily
      /\ GetUser(u).monthly = row.monthly
  <2>1. CASE u \in owners
    BY <1>2, <1>3, <2>1, AdminRow
  <2> QED BY <1>2, <1>3, <2>1
<1>5. row.hash = HashOf(u) /\ row.used = moved[u].total
  BY <1>2 DEF HashOf
<1> QED BY <1>2, <1>4, <1>5

\* The plan of a row that was read is the one the user is entitled to.
LEMMA GetUserPlan ==
  ASSUME AccountsInv, NEW u \in User, users[u] # NoRow
  PROVE  /\ GetUser(u).plan = Entitled(u)
         /\ u \notin owners =>
              \/ /\ GetUser(u).plan = grant[u].plan
                 /\ grant[u].plan # Admin => GetUser(u).expiry = grant[u].until
              \/ /\ GetUser(u).plan = Free /\ GetUser(u).expiry = Never
                 /\ grant[u].plan # Admin /\ grant[u].until # Never
                 /\ grant[u].until < day
<1> DEFINE row == Reset(users[u])
<1>1. users[u] \in Row /\ users[u].reset <= day
  OBVIOUS
<1>2. row \in Row /\ row.plan = users[u].plan /\ row.expiry = users[u].expiry
  BY <1>1, ResetRow
<1>3. /\ Expire(row) \in Row
      /\ IF row.expiry # Never /\ row.expiry < day /\ row.plan > Free
           THEN Expire(row).plan = Free /\ Expire(row).expiry = Never
           ELSE Expire(row).plan = row.plan /\ Expire(row).expiry = row.expiry
  BY <1>2, ExpireRow
<1>4. GetUser(u) = IF u \in owners THEN [Expire(row) EXCEPT !.plan = Admin]
                                   ELSE Expire(row)
  BY DEF GetUser
<1>5. row.plan \in 0..4 /\ row.expiry \in Nat \cup {Never}
  BY <1>2 DEF Row
<1> HIDE DEF row
<1>6. CASE u \in owners
  BY <1>3, <1>4, <1>6 DEF Entitled, Row
<1>7. CASE u \notin owners
  BY <1>2, <1>3, <1>4, <1>5, <1>7 DEF Entitled, Admin, Free, Never
<1> QED BY <1>6, <1>7

\* A registration writes hash and record together; a first row is of this day.
LEMMA RegisterKeeps ==
  ASSUME AccountsInv, NEW u \in User, MessageInDM(u) \/ OwnerTask(u)
  PROVE  AccountsInv'
<1>1. PICK hash \in {0, 1} : Register(u, hash)
  BY DEF MessageInDM, OwnerTask
<1>2. /\ UNCHANGED <<day, owners, job, by, moved>>
      /\ handler' \in [User -> {"idle", "probing", "checking", "admitted", "refused"}]
      /\ \A v \in User \ {u} : handler'[v] = handler[v]
  BY DEF MessageInDM, OwnerTask
<1>. job \in [Job -> {"none", "running", "charged", "finished"}]
  OBVIOUS
<1> DEFINE known == IF hash = 0 /\ dm[u] # NoEntry THEN dm[u] ELSE hash
           row   == UpsertUser(u, known)
<1>3. /\ dm' = [dm EXCEPT ![u] = known] /\ users' = [users EXCEPT ![u] = row]
      /\ IF users[u] = NoRow THEN SeenNow(u) ELSE seen' = seen
      /\ grant' = IF u \in owners
                    THEN [grant EXCEPT ![u] = [plan |-> Admin, until |-> Never]]
                    ELSE grant
  BY <1>1 DEF Register, OwnerSeen
<1>4. known \in {0, 1} /\ (known = 0 => HashOf(u) = 0)
  BY DEF HashOf, NoEntry
<1>5. /\ dm' \in [User -> {NoEntry, 0, 1}] /\ dm'[u] = known
      /\ \A v \in User \ {u} : dm'[v] = dm[v]
  BY <1>3, <1>4
<1>6. /\ seen' \in [User -> [day : BOOLEAN, month : BOOLEAN]]
      /\ \A v \in User \ {u} : seen'[v] = seen[v]
      /\ IF users[u] = NoRow THEN seen'[u] = [day |-> TRUE, month |-> TRUE]
                             ELSE seen'[u] = seen[u]
  <2>1. CASE users[u] = NoRow
    BY <1>3, <2>1, SeenRow
  <2>2. CASE users[u] # NoRow
    BY <1>3, <2>2
  <2> QED BY <2>1, <2>2
<1>7. grant' \in [User -> [plan : 0..4, until : Nat \cup {Never}]]
  <2>1. [plan |-> Admin, until |-> Never] \in [plan : 0..4, until : Nat \cup {Never}]
    BY DEF Admin
  <2> QED BY <1>3, <2>1
<1>8. /\ HistoryOK'
      /\ \A v \in User \ {u} : /\ moved'[v] = moved[v]
                               /\ seen'[v] = seen[v] /\ grant'[v] = grant[v]
  <2>1. \A v \in User \ {u} : grant'[v] = grant[v]
    BY <1>3
  <2>2. moved' \in [User -> Traffic]
    BY <1>2
  <2> QED BY <1>2, <1>6, <1>7, <2>1, <2>2
<1> HIDE DEF row, known
<1>9. row \in Row /\ users'[u] = row
  BY <1>3, <1>4, UpsertRow DEF row
<1>10. row.hash = HashOf(u)' /\ row.used = moved'[u].total
  <2>1. HashOf(u)' = known
    BY <1>4, <1>5 DEF HashOf, NoEntry
  <2>2. CASE users[u] = NoRow
    <3>1. row.hash = known /\ row.used = 0
      BY <1>4, <2>2, UpsertRow DEF row
    <3>2. moved[u].total = 0
      BY <2>2
    <3> HIDE DEF AccountsInv
    <3> QED BY <1>2, <2>1, <3>1, <3>2
  <2>3. CASE users[u] # NoRow
    <3>1. /\ row.hash = IF known # 0 THEN known ELSE users[u].hash
          /\ row.used = users[u].used
      BY <1>4, <2>3, UpsertRow DEF row
    <3>2. users[u].hash = HashOf(u) /\ users[u].used = moved[u].total
      BY <2>3 DEF HashOf
    <3> HIDE DEF AccountsInv
    <3> QED BY <1>2, <1>4, <2>1, <3>1, <3>2
  <2> QED BY <2>2, <2>3
<1>11. Counted(u)'
  <2>1. CASE users[u] = NoRow
    <3>1. /\ moved[u].today = moved[u].unseenToday /\ moved[u].today \in Nat
          /\ moved[u].month = moved[u].unseenMonth /\ moved[u].month \in Nat
          /\ day \in Nat
      BY <2>1 DEF Traffic
    <3>2. /\ users'[u].reset = day /\ users'[u].daily = 0 /\ users'[u].monthly = 0
      BY <1>4, <1>9, <2>1, UpsertRow DEF row
    <3> HIDE DEF AccountsInv
    <3> QED BY <1>2, <1>6, <2>1, <3>1, <3>2
  <2>2. CASE users[u] # NoRow
    BY <1>2, <1>4, <1>6, <1>9, <2>2, UpsertRow DEF row
  <2> QED BY <2>1, <2>2
<1>12. Given(u)' \/ Withdrawn(u)'
  <2>1. CASE u \in owners
    <3>1. grant'[u] = [plan |-> Admin, until |-> Never]
      BY <1>3, <2>1
    <3>2. users'[u].plan = Admin
      BY <1>4, <1>9, <2>1, UpsertRow DEF row, PlanOf
    <3> QED BY <3>1, <3>2
  <2>2. CASE u \notin owners
    <3>1. grant'[u] = grant[u]
      BY <1>3, <2>2
    <3>2. CASE users[u] = NoRow
      <4>1. users'[u].plan = Free /\ users'[u].expiry = Never
        BY <1>4, <1>9, <2>2, <3>2, UpsertRow DEF row, PlanOf
      <4> QED BY <3>1, <3>2, <4>1
    <3>3. CASE users[u] # NoRow
      <4>1. users'[u].plan = users[u].plan /\ users'[u].expiry = users[u].expiry
        BY <1>4, <1>9, <2>2, <3>3, UpsertRow DEF row
      <4> QED BY <1>2, <3>1, <3>3, <4>1
    <3> QED BY <3>2, <3>3
  <2> QED BY <2>1, <2>2
<1> HIDE DEF AccountsInv, HistoryOK, Counted, Given, Withdrawn
<1> QED BY <1>2, <1>3, <1>5, <1>8, <1>9, <1>10, <1>11, <1>12, OneRow

\* Who reads a row counts from the day and the month of the reading.
LEMMA ReadCounts ==
  ASSUME AccountsInv, NEW u \in User, users[u] # NoRow,
         users' = [users EXCEPT ![u] = GetUser(u)], SeenNow(u),
         UNCHANGED <<day, moved>>
  PROVE  /\ seen' \in [User -> [day : BOOLEAN, month : BOOLEAN]]
         /\ \A v \in User \ {u} : seen'[v] = seen[v]
         /\ Counted(u)'
<1>1. users'[u] = GetUser(u)
  OBVIOUS
<1> QED BY <1>1, SeenRow, GetUserRow

\* CheckQuota stores the row as it has read it.
LEMMA CheckQuotaKeeps ==
  ASSUME AccountsInv, NEW u \in User, CheckQuota(u) PROVE AccountsInv'
<1>1. /\ UNCHANGED <<day, owners, dm, job, by, moved, grant>>
      /\ handler' \in [User -> {"idle", "probing", "checking", "admitted", "refused"}]
      /\ \A v \in User \ {u} : handler'[v] = handler[v]
      /\ handler[u] # "idle"
  BY DEF CheckQuota, Answer
<1>2. CASE UNCHANGED <<users, seen>>
  BY <1>1, <1>2
<1>3. CASE ~UNCHANGED <<users, seen>>
  <2>1. /\ u \notin owners /\ users[u] # NoRow
        /\ users' = [users EXCEPT ![u] = GetUser(u)] /\ SeenNow(u)
    BY <1>3 DEF CheckQuota
  <2>2. /\ dm' \in [User -> {NoEntry, 0, 1}]
        /\ job' \in [Job -> {"none", "running", "charged", "finished"}]
        /\ moved' \in [User -> Traffic]
        /\ grant' \in [User -> [plan : 0..4, until : Nat \cup {Never}]]
    BY <1>1
  <2>3. HistoryOK' /\ Counted(u)' /\ \A v \in User \ {u} : seen'[v] = seen[v]
    BY <1>1, <2>1, <2>2, ReadCounts
  <2>4. /\ GetUser(u) \in Row /\ GetUser(u).hash = HashOf(u)'
        /\ GetUser(u).used = moved'[u].total
    <3>1. HashOf(u)' = HashOf(u)
      BY <1>1 DEF HashOf
    <3> QED BY <1>1, <2>1, <3>1, GetUserRow
  <2>5. Given(u)' \/ Withdrawn(u)'
    <3>1. users'[u] = GetUser(u)
      BY <2>1
    <3> QED BY <1>1, <2>1, <3>1, GetUserPlan
  <2> HIDE DEF AccountsInv, HistoryOK, Counted, Given, Withdrawn
  <2> QED BY <1>1, <2>1, <2>2, <2>3, <2>4, <2>5, OneRow
<1> QED BY <1>2, <1>3

\* So does /plan; an owner is given plan 0 by the way.
LEMMA PlanCommandKeeps ==
  ASSUME AccountsInv, NEW u \in User, PlanCommand(u) PROVE AccountsInv'
<1>1. /\ UNCHANGED <<day, owners, dm, handler, job, by, moved>>
      /\ users[u] # NoRow /\ users' = [users EXCEPT ![u] = GetUser(u)]
      /\ SeenNow(u)
      /\ grant' = IF u \in owners
                    THEN [grant EXCEPT ![u] = [plan |-> Admin, until |-> Never]]
                    ELSE grant
  BY DEF PlanCommand, OwnerSeen
<1>2. /\ dm' \in [User -> {NoEntry, 0, 1}]
      /\ handler' \in [User -> {"idle", "probing", "checking", "admitted", "refused"}]
      /\ job' \in [Job -> {"none", "running", "charged", "finished"}]
      /\ moved' \in [User -> Traffic]
  BY <1>1
<1>3. /\ grant' \in [User -> [plan : 0..4, until : Nat \cup {Never}]]
      /\ \A v \in User \ {u} : grant'[v] = grant[v]
  <2>1. [plan |-> Admin, until |-> Never] \in [plan : 0..4, until : Nat \cup {Never}]
    BY DEF Admin
  <2> QED BY <1>1, <2>1
<1>4. HistoryOK' /\ Counted(u)' /\ \A v \in User \ {u} : seen'[v] = seen[v]
  BY <1>1, <1>2, <1>3, ReadCounts
<1>5. /\ GetUser(u) \in Row /\ GetUser(u).hash = HashOf(u)'
      /\ GetUser(u).used = moved'[u].total
  <2>1. HashOf(u)' = HashOf(u)
    BY <1>1 DEF HashOf
  <2> QED BY <1>1, <2>1, GetUserRow
<1>6. Given(u)' \/ Withdrawn(u)'
  <2>1. users'[u] = GetUser(u)
    BY <1>1
  <2>2. CASE u \in owners
    <3>1. grant'[u] = [plan |-> Admin, until |-> Never]
      BY <1>1, <2>2
    <3> QED BY <2>1, <2>2, <3>1, GetUserPlan, <1>1 DEF Entitled
  <2>3. CASE u \notin owners
    BY <1>1, <2>1, <2>3, GetUserPlan
  <2> QED BY <2>2, <2>3
<1> HIDE DEF AccountsInv, HistoryOK, Counted, Given, Withdrawn
<1> QED BY <1>1, <1>2, <1>3, <1>4, <1>5, <1>6, OneRow

\* SetUserPlan writes the plan it gives.
LEMMA SetUserPlanKeeps ==
  ASSUME AccountsInv, NEW u \in User, NEW plan \in Plans,
         NEW expiry \in Nat \cup {Never}, SetUserPlan(u, plan, expiry)
  PROVE  AccountsInv'
<1> DEFINE row == [users[u] EXCEPT !.plan = plan, !.expiry = expiry]
<1>1. /\ UNCHANGED <<day, owners, dm, handler, job, by, moved, seen>>
      /\ users[u] # NoRow /\ users' = [users EXCEPT ![u] = row]
      /\ grant' = [grant EXCEPT ![u] = [plan |-> plan, until |-> expiry]]
  BY DEF SetUserPlan
<1>2. /\ dm' \in [User -> {NoEntry, 0, 1}]
      /\ handler' \in [User -> {"idle", "probing", "checking", "admitted", "refused"}]
      /\ job' \in [Job -> {"none", "running", "charged", "finished"}]
      /\ moved' \in [User -> Traffic]
      /\ seen' \in [User -> [day : BOOLEAN, month : BOOLEAN]]
  BY <1>1
<1>3. [plan |-> plan, until |-> expiry] \in [plan : 0..4, until : Nat \cup {Never}]
  OBVIOUS
<1>4. HistoryOK' /\ \A v \in User \ {u} : grant'[v] = grant[v]
  BY <1>1, <1>2, <1>3
<1>5. users[u] \in Row
  BY <1>1
<1>6. /\ row \in Row /\ row.hash = users[u].hash /\ row.used = users[u].used
      /\ row.plan = plan /\ row.expiry = expiry /\ row.reset = users[u].reset
      /\ row.daily = users[u].daily /\ row.monthly = users[u].monthly
  BY <1>5 DEF Row
<1> HIDE DEF row
<1>7. row.hash = HashOf(u)' /\ row.used = moved'[u].total /\ users'[u] = row
  BY <1>1, <1>6 DEF HashOf
<1>8. Counted(u)' /\ Given(u)'
  BY <1>1, <1>6, <1>7
<1> HIDE DEF AccountsInv, HistoryOK, Counted, Given, Withdrawn
<1> QED BY <1>1, <1>2, <1>4, <1>6, <1>7, <1>8, OneRow

\* A charge counts in the row and in the history alike.
LEMMA ChargeKeeps ==
  ASSUME AccountsInv, NEW j \in Job, NEW size \in Sizes, Charge(j, size)
  PROVE  AccountsInv'
<1>2. PICK u \in User : u = by[j]
  OBVIOUS
<1> DEFINE row == AddedTo(users[u], size)
           sum == [total       |-> moved[u].total + size,
                   today       |-> moved[u].today + size,
                   month       |-> moved[u].month + size,
                   unseenToday |-> moved[u].unseenToday
                                     + (IF seen[u].day THEN 0 ELSE size),
                   unseenMonth |-> moved[u].unseenMonth
                                     + (IF seen[u].month THEN 0 ELSE size)]
           charged == IF size = 0 THEN users[u] ELSE row
<1>1. /\ UNCHANGED <<day, owners, dm, handler, by, seen, grant>>
      /\ job[j] = "running" /\ job' = [job EXCEPT ![j] = "charged"]
      /\ moved' = [moved EXCEPT ![u] = sum]
  BY <1>2 DEF Charge
<1>3. users[u] # NoRow /\ users[u] \in Row /\ size \in Nat
  <2>1. job[j] # "none"
    BY <1>1
  <2>2. users[u] # NoRow
    BY <1>2, <2>1
  <2> QED BY <2>2
<1>4. users' = [users EXCEPT ![u] = charged]
  <2>1. CASE size = 0
    BY <1>2, <1>3, <2>1 DEF Charge, AddTraffic
  <2>2. CASE size # 0
    <3>1. ~(users[by[j]] = NoRow \/ size <= 0)
      BY <1>2, <1>3, <2>2
    <3>2. AddTraffic(u, size)
      BY <1>2 DEF Charge
    <3> QED BY <1>2, <2>2, <3>1, <3>2 DEF AddTraffic, AddedTo
  <2> QED BY <2>1, <2>2
<1>5. moved[u] \in Traffic
  OBVIOUS
<1>6. /\ row \in Row /\ row.hash = users[u].hash
      /\ row.used = users[u].used + size
      /\ row.plan = users[u].plan /\ row.expiry = users[u].expiry
      /\ row.reset = users[u].reset
      /\ row.daily = users[u].daily + size
      /\ row.monthly = users[u].monthly + size
  <2> HIDE DEF AccountsInv
  <2> QED BY <1>3, ChargedRow
<1>7. /\ sum \in Traffic
      /\ sum.total = moved[u].total + size
      /\ sum.today = moved[u].today + size
      /\ sum.month = moved[u].month + size
      /\ sum.unseenToday = moved[u].unseenToday
                             + (IF seen[u].day THEN 0 ELSE size)
      /\ sum.unseenMonth = moved[u].unseenMonth
                             + (IF seen[u].month THEN 0 ELSE size)
  BY <1>3, <1>5 DEF Traffic
<1>8. /\ charged \in Row /\ charged.hash = users[u].hash
      /\ charged.used = users[u].used + size
      /\ charged.plan = users[u].plan /\ charged.expiry = users[u].expiry
      /\ charged.reset = users[u].reset
      /\ charged.daily = users[u].daily + size
      /\ charged.monthly = users[u].monthly + size
  <2>1. CASE size = 0
    BY <1>3, <2>1 DEF Row
  <2>2. CASE size # 0
    BY <1>6, <2>2
  <2> QED BY <2>1, <2>2
<1> HIDE DEF row, sum, charged
<1>10. /\ dm' \in [User -> {NoEntry, 0, 1}]
       /\ handler' \in [User -> {"idle", "probing", "checking", "admitted", "refused"}]
       /\ job' \in [Job -> {"none", "running", "charged", "finished"}]
       /\ seen' \in [User -> [day : BOOLEAN, month : BOOLEAN]]
       /\ grant' \in [User -> [plan : 0..4, until : Nat \cup {Never}]]
  BY <1>1
<1>11. HistoryOK' /\ \A v \in User \ {u} : moved'[v] = moved[v]
  BY <1>1, <1>7, <1>10
<1>12. \A k \in Job : job'[k] # "none" => job[k] # "none"
  BY <1>1
<1>13. users'[u] = charged /\ moved'[u] = sum
  BY <1>1, <1>4
<1>14. charged.hash = HashOf(u)' /\ charged.used = moved'[u].total
  BY <1>1, <1>2, <1>3, <1>7, <1>8, <1>13 DEF HashOf
<1>15. Counted(u)'
  <2>1. /\ users[u].daily \in Nat /\ users[u].monthly \in Nat
        /\ moved[u].today \in Nat /\ moved[u].unseenToday \in Nat
        /\ moved[u].month \in Nat /\ moved[u].unseenMonth \in Nat
    BY <1>3, <1>5 DEF Row, Traffic
  <2>2. Counted(u)
    BY <1>2, <1>3
  <2> QED BY <1>1, <1>2, <1>7, <1>8, <1>13, <2>1, <2>2
<1>16. Given(u)' \/ Withdrawn(u)'
  BY <1>1, <1>2, <1>3, <1>8, <1>13
<1> HIDE DEF AccountsInv, HistoryOK, Counted, Given, Withdrawn
<1> QED BY <1>1, <1>4, <1>8, <1>10, <1>11, <1>12, <1>14, <1>15, <1>16, OneRow

\* At midnight no row is of this day, nor of this month when it is a new one.
LEMMA MidnightKeeps ==
  ASSUME AccountsInv, Midnight PROVE AccountsInv'
<1> DEFINE newMonth == MonthOf(day + 1) # MonthOf(day)
           traffic(u) == NewDay(moved[u], newMonth)
           read(u) == [day |-> FALSE, month |-> seen[u].month /\ ~newMonth]
<1>1. /\ day \in Nat /\ day' = day + 1 /\ day' \in Nat
      /\ UNCHANGED <<owners, users, dm, handler, job, by, grant>>
      /\ moved' = [u \in User |-> traffic(u)] /\ seen' = [u \in User |-> read(u)]
  <2>1. day \in Nat
    OBVIOUS
  <2> HIDE DEF AccountsInv
  <2>2. /\ day' = day + 1 /\ UNCHANGED <<owners, users, dm, handler, job, by, grant>>
        /\ seen' = [u \in User |-> read(u)]
    BY DEF Midnight
  <2>3. moved' = [u \in User |-> traffic(u)]
    BY DEF Midnight, NewDay
  <2> QED BY <2>1, <2>2, <2>3
<1>3. ASSUME NEW u \in User
      PROVE  /\ traffic(u) \in Traffic /\ traffic(u).total = moved[u].total
             /\ traffic(u).today = 0 /\ traffic(u).unseenToday = 0
             /\ traffic(u).month = (IF newMonth THEN 0 ELSE moved[u].month)
             /\ traffic(u).unseenMonth =
                  (IF newMonth THEN 0 ELSE moved[u].unseenMonth)
  <2>1. moved[u] \in Traffic /\ newMonth \in BOOLEAN
    OBVIOUS
  <2> HIDE DEF newMonth
  <2> QED BY <2>1, NewDayTraffic
<1>4. ASSUME NEW u \in User PROVE read(u) \in [day : BOOLEAN, month : BOOLEAN]
  <2>1. ASSUME NEW b \in BOOLEAN
        PROVE  [day |-> FALSE, month |-> b] \in [day : BOOLEAN, month : BOOLEAN]
    OBVIOUS
  <2>2. (seen[u].month /\ ~newMonth) \in BOOLEAN
    OBVIOUS
  <2> QED BY <2>1, <2>2
<1> HIDE DEF traffic, read, newMonth
<1>2. AccountsAgree'
  <2>1. AccountsAgree
    OBVIOUS
  <2> HIDE DEF AccountsInv
  <2> QED BY <1>1, <2>1
<1>5. HistoryOK'
  BY <1>1, <1>3, <1>4
<1>6. TrafficInv'
  <2>1. \A u \in User : moved'[u] = traffic(u) /\ users'[u] = users[u]
    BY <1>1
  <2>2. TrafficInv
    OBVIOUS
  <2> HIDE DEF AccountsInv
  <2> QED BY <1>3, <2>1, <2>2
<1>7. ASSUME NEW u \in User, users[u] # NoRow PROVE Counted(u)'
  <2>1. users[u].reset \in Nat /\ users[u].reset <= day
    BY <1>7 DEF Row
  <2>2. users'[u].reset <= day' /\ users'[u].reset # day'
    BY <1>1, <2>1
  <2>3. seen'[u].day = FALSE /\ seen'[u].month = (seen[u].month /\ ~newMonth)
    BY <1>1 DEF read
  <2>4. newMonth => MonthOf(users[u].reset) # MonthOf(day + 1)
    <3> HIDE DEF AccountsInv
    <3>1. day \in Nat /\ day + 1 \in Nat /\ day <= day + 1
      BY <1>1
    <3>2. /\ MonthOf(users[u].reset) \in Nat /\ MonthOf(day) \in Nat
          /\ MonthOf(users[u].reset) <= MonthOf(day)
      BY <2>1, <3>1, MonthsGrow
    <3>3. MonthOf(day + 1) \in Nat /\ MonthOf(day) <= MonthOf(day + 1)
      BY <3>1, MonthsGrow
    <3> QED BY <3>2, <3>3 DEF newMonth
  <2>5. seen'[u].month <=> MonthOf(users'[u].reset) = MonthOf(day + 1)
    BY <1>1, <1>7, <2>3, <2>4 DEF newMonth
  <2>7. /\ moved'[u].today = 0 /\ moved'[u].unseenToday = 0
        /\ moved'[u].month = (IF newMonth THEN 0 ELSE moved[u].month)
        /\ moved'[u].unseenMonth = (IF newMonth THEN 0 ELSE moved[u].unseenMonth)
    BY <1>1, <1>3
  <2>8. /\ moved[u].month \in Nat /\ moved[u].unseenMonth \in Nat
        /\ users[u].monthly \in Nat /\ users'[u] = users[u] /\ Counted(u)
    <3>1. moved[u] \in Traffic /\ users[u] \in Row /\ Counted(u)
      BY <1>7
    <3> QED BY <1>1, <3>1 DEF Traffic, Row
  <2> HIDE DEF AccountsInv
  <2>9. newMonth => seen'[u].month = FALSE
    BY <2>3
  <2>10. ~newMonth => (seen'[u].month <=> seen[u].month)
    BY <2>3
  <2>11. moved'[u].month = moved'[u].unseenMonth
                             + (IF seen'[u].month THEN users'[u].monthly ELSE 0)
    BY <2>7, <2>8, <2>9, <2>10
  <2> QED BY <1>1, <2>2, <2>3, <2>5, <2>7, <2>11
<1>8. CounterInv'
  <2> HIDE DEF Counted
  <2> QED BY <1>1, <1>7
<1>9. PlanInv'
  BY <1>1
<1> QED BY <1>2, <1>5, <1>6, <1>8, <1>9
-----------------------------------------------------------------------------
HIDE DEF AccountsInv, AccountsAgree, TypeOK, HistoryOK, TrafficInv, CounterInv,
         PlanInv, Counted, Given, Withdrawn

\* No step of the system breaks the invariant.
LEMMA NextKeeps == AccountsInv /\ [Next]_vars => AccountsInv'
<1> SUFFICES ASSUME AccountsInv, [Next]_vars PROVE AccountsInv'
  OBVIOUS
<1>1. ASSUME NEW u \in User,
             MessageInDM(u) \/ Stopped(u) \/ TaskStep(u) \/ PlanCommand(u)
      PROVE  AccountsInv'
  BY <1>1, RegisterKeeps, UnregisterKeeps, TaskKeeps, CheckQuotaKeeps,
     HandlerReturnsKeeps, PlanCommandKeeps DEF TaskStep
<1>2. ASSUME NEW u \in User, NEW j \in Job, CreateJob(u, j) \/ FeedJob(u, j)
      PROVE  AccountsInv'
  BY <1>2, CreateJobKeeps, FeedJobKeeps
<1>3. ASSUME NEW u \in User, NEW plan \in Plans, NEW term \in Terms,
             SetUserPlan(u, plan, day + term) \/ SetUserPlan(u, plan, Never)
      PROVE  AccountsInv'
  <2>1. day + term \in Nat /\ Never \in Nat \cup {Never}
    BY AccountsAssumption DEF AccountsInv, AccountsAgree, TypeOK
  <2> QED BY <1>3, <2>1, SetUserPlanKeeps
<1>4. ASSUME NEW j \in Job, FinishJob(j) \/ \E size \in Sizes : Charge(j, size)
      PROVE  AccountsInv'
  BY <1>4, FinishJobKeeps, ChargeKeeps
<1>5. CASE UNCHANGED vars
  BY <1>5 DEF vars, AccountsInv, AccountsAgree, TypeOK, HistoryOK, TrafficInv,
     CounterInv, PlanInv, Counted, Given, Withdrawn
<1> QED BY <1>1, <1>2, <1>3, <1>4, <1>5, ReloadKeeps, MidnightKeeps, RestartKeeps
     DEF Next

\* The invariant holds in every reachable state.
THEOREM InvHolds == Spec => []AccountsInv
BY InitInv, NextKeeps, PTL DEF Spec

\* The registrations in memory and the rows of the table agree, and nobody
\* without a row has a job or a command under way (AccountsAgree), however
\* messages, reports, probes, reloads and restarts interleave.
THEOREM AccountsAgreeHolds == Spec => []AccountsAgree
<1>1. AccountsInv => AccountsAgree
  BY DEF AccountsInv
<1> QED BY <1>1, InvHolds, PTL

\* A row's lifetime traffic is what the user's transfers were charged
\* (TrafficIsAccounted), for all sizes and all days.
THEOREM TrafficIsAccountedHolds == Spec => []TrafficIsAccounted
<1>1. AccountsInv => TrafficIsAccounted
  BY DEF AccountsInv, TrafficInv, TrafficIsAccounted
<1> QED BY <1>1, InvHolds, PTL

\* Within looks at the plan and the two counters alone.
LEMMA WithinDepends ==
  ASSUME NEW row, NEW plan, NEW daily, NEW monthly,
         row.plan = plan, row.daily = daily, row.monthly = monthly
  PROVE  Within(row)
           <=> Within([plan |-> plan, daily |-> daily, monthly |-> monthly])
BY DEF Within

\* Plan 0 has no limits.
LEMMA AdminWithin ==
  ASSUME NEW daily, NEW monthly
  PROVE  Within([plan |-> Admin, daily |-> daily, monthly |-> monthly])
BY DEF Within, PlanLimits, Admin, Tier2, Tier3

\* The row CheckQuota has read is within its plan exactly when the counted
\* traffic is within the plan the user is entitled to.
LEMMA VerdictOfRow ==
  ASSUME AccountsInv, NEW u \in User, users[u] # NoRow
  PROVE  Within(GetUser(u)) <=> CountedWithin(u)
<1>1. Counted(u) /\ moved[u] \in Traffic /\ users[u] \in Row
  BY DEF AccountsInv, AccountsAgree, TypeOK, HistoryOK, CounterInv
<1>2. /\ moved[u].today - moved[u].unseenToday = GetUser(u).daily
      /\ moved[u].month - moved[u].unseenMonth = GetUser(u).monthly
  BY <1>1, GetUserRow DEF Counted, Traffic, Row
<1>3. GetUser(u).plan = Entitled(u)
  BY GetUserPlan
<1> QED BY <1>2, <1>3, WithinDepends DEF CountedWithin

\* Of all steps only CheckQuota gives a verdict, and it is the right one.
LEMMA VerdictStep ==
  ASSUME AccountsInv, [Next]_vars, NEW u \in User, handler'[u] # handler[u]
  PROVE  /\ handler'[u] = "admitted" => CountedWithin(u)
         /\ handler'[u] = "refused"  => ~CountedWithin(u)
<1>1. handler \in [User -> {"idle", "probing", "checking", "admitted", "refused"}]
  BY DEF AccountsInv, AccountsAgree, TypeOK
<1>2. \/ handler'[u] \in {"idle", "probing", "checking"}
      \/ CheckQuota(u)
  <2>1. ASSUME NEW v \in User,
               MessageInDM(v) \/ Stopped(v) \/ TaskStep(v) \/ PlanCommand(v)
        PROVE  handler'[u] \in {"idle", "probing", "checking"} \/ CheckQuota(u)
    BY <1>1, <2>1 DEF TaskStep, MessageInDM, Stopped, Task, ProbeFails, OwnerTask,
       CheckQuota, HandlerReturns, PlanCommand, Answer
  <2>2. CASE Restart
    BY <2>2 DEF Restart
  <2> QED BY <2>1, <2>2 DEF Next, vars, CreateJob, FeedJob, SetUserPlan,
         FinishJob, Charge, Reload, Midnight
<1>3. CASE CheckQuota(u)
  <2>1. users[u] # NoRow
    BY <1>3 DEF CheckQuota, AccountsInv, AccountsAgree
  <2>2. CASE u \in owners
    <3>1. handler'[u] = "admitted"
      BY <1>1, <1>3, <2>2 DEF CheckQuota, Answer
    <3>2. CountedWithin(u)
      BY <2>2, AdminWithin DEF CountedWithin, Entitled
    <3> QED BY <3>1, <3>2
  <2>3. CASE u \notin owners
    <3>1. handler'[u] = IF Within(GetUser(u)) THEN "admitted" ELSE "refused"
      BY <1>1, <1>3, <2>1, <2>3 DEF CheckQuota, Answer
    <3> QED BY <2>1, <3>1, VerdictOfRow
  <2> QED BY <2>2, <2>3
<1> QED BY <1>2, <1>3

\* CheckQuota admits or refuses by the plan the user is entitled to now and the
\* traffic of this day and month (VerdictsFollowPlan), whatever the days, the
\* length of the months, the plans and their terms.
THEOREM VerdictsFollowPlanHolds == Spec => VerdictsFollowPlan
<1>1. AccountsInv /\ [Next]_vars =>
        [\A u \in User : handler'[u] # handler[u] =>
           /\ handler'[u] = "admitted" => CountedWithin(u)
           /\ handler'[u] = "refused"  => ~CountedWithin(u)]_vars
  BY VerdictStep
<1> QED BY <1>1, InvHolds, PTL DEF Spec, VerdictsFollowPlan
=============================================================================
