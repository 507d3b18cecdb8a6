-------------------------- MODULE JobManagerProofs --------------------------
(***************************************************************************)
(* What holds of job_manager.go for every number of jobs, every limit and  *)
(* every value /reload may bring: the queue and the table, the slots, the  *)
(* start of a job's function, its row, and the pool.  JobInv is inductive; *)
(* the lemmas before it say what the operations on the queue and Promote   *)
(* do to its parts.  RecoveryInv carries it through the deaths and         *)
(* restarts of JobRecovery.                                                *)
(***************************************************************************)
EXTENDS JobRecovery, TLAPS, FiniteSetTheorems, SequenceTheorems, WellFoundedInduction

Increasing(s) == \A i, k \in DOMAIN s : i < k => s[i] < s[k]

\* QueueAgreesWithTable and SlotsHaveWorkers of any table, queue and goroutines.
Agree(table, q, st) ==
  /\ \A o \in Job : st[o] = "QUEUED" <=> o \in ToSet(q)
  /\ \A o \in Job : st[o] \in {"QUEUED", "RUNNING"} <=> o \in table
  /\ Increasing(q)

Working == {"transfer", "failed", "reporting", "returning"}

Manned(st, w, done) ==
  \A o \in Job :
    /\ st[o] = "RUNNING" => w[o] \in Working
    /\ st[o] = "QUEUED" => w[o] = "none"
    /\ w[o] \in Working =>
         st[o] = "RUNNING" \/ (st[o] = "CANCELLED" /\ o \in done)
-----------------------------------------------------------------------------
(* The queue. *)

\* Membership in ToSet, which the provers do not unfold under a binder.
LEMMA InToSet ==
  ASSUME NEW s, NEW x
  PROVE  x \in ToSet(s) <=> \E i \in DOMAIN s : s[i] = x
BY DEF ToSet

\* Jobs are numbers from 1: new ones are compared with queued ones (CreateJob).
LEMMA JobIsNat == \A o \in Job : o \in Nat /\ o >= 1
BY JobManagerAssumption DEF Job

\* Taking the head off an increasing queue removes that job and no other.
LEMMA TailRemovesHead ==
  ASSUME NEW s \in Seq(Job), s # <<>>, Increasing(s)
  PROVE  /\ Head(s) \in Job
         /\ Tail(s) \in Seq(Job)
         /\ Increasing(Tail(s))
         /\ ToSet(Tail(s)) = ToSet(s) \ {Head(s)}
         /\ Head(s) \in ToSet(s)
<1>1. /\ Head(s) = s[1] /\ Head(s) \in Job
      /\ Tail(s) \in Seq(Job)
      /\ Len(Tail(s)) = Len(s) - 1
      /\ \A i \in 1..Len(Tail(s)) : Tail(s)[i] = s[i + 1]
  BY HeadTailProperties
<1>2. Len(s) \in Nat \ {0} /\ DOMAIN s = 1..Len(s)
  BY EmptySeq, LenProperties
<1>3. DOMAIN Tail(s) = 1..(Len(s) - 1)
  BY <1>1, LenProperties
<1>4. \A i \in DOMAIN s : s[i] \in Job
  BY ElementOfSeq, <1>2
<1>5. Increasing(Tail(s))
  BY <1>1, <1>2, <1>3 DEF Increasing
<1>6. \A i \in 2..Len(s) : s[1] # s[i]
  BY <1>2, <1>4 DEF Increasing, Job
<1>7. ToSet(Tail(s)) = {s[i] : i \in 2..Len(s)}
  <2>1. ASSUME NEW i \in 2..Len(s)
        PROVE  \E j \in DOMAIN Tail(s) : s[i] = Tail(s)[j]
    <3>1. i - 1 \in DOMAIN Tail(s) /\ s[i] = Tail(s)[i - 1]
      BY <1>1, <1>2, <1>3
    <3>2. QED BY <3>1
  <2>2. ASSUME NEW j \in DOMAIN Tail(s)
        PROVE  \E i \in 2..Len(s) : Tail(s)[j] = s[i]
    <3>1. j + 1 \in 2..Len(s) /\ Tail(s)[j] = s[j + 1]
      BY <1>1, <1>2, <1>3
    <3>2. QED BY <3>1
  <2>3. ASSUME NEW x PROVE x \in ToSet(Tail(s)) <=> \E i \in 2..Len(s) : s[i] = x
    <3>1. x \in ToSet(Tail(s)) <=> \E j \in DOMAIN Tail(s) : Tail(s)[j] = x
      BY InToSet
    <3>2. QED BY <2>1, <2>2, <3>1
  <2>4. QED BY <2>3
<1>8. ToSet(s) = {s[i] : i \in 2..Len(s)} \cup {s[1]}
  BY <1>2 DEF ToSet
<1>9. QED BY <1>1, <1>5, <1>6, <1>7, <1>8

\* A job younger than the whole queue may be appended.
LEMMA AppendAddsLast ==
  ASSUME NEW s \in Seq(Job), Increasing(s), NEW o \in Job,
         \A p \in ToSet(s) : p < o
  PROVE  /\ Append(s, o) \in Seq(Job)
         /\ Increasing(Append(s, o))
         /\ ToSet(Append(s, o)) = ToSet(s) \cup {o}
<1> DEFINE t == Append(s, o)
<1>1. /\ t \in Seq(Job)
      /\ Len(t) = Len(s) + 1
      /\ \A i \in 1..Len(s) : t[i] = s[i]
      /\ t[Len(s) + 1] = o
  BY AppendProperties
<1>2. Len(s) \in Nat /\ DOMAIN s = 1..Len(s) /\ DOMAIN t = 1..(Len(s) + 1)
  BY <1>1, LenProperties
<1>3. \A i \in 1..Len(s) : s[i] < o
  BY <1>2 DEF ToSet
<1> HIDE DEF t
<1>4. Increasing(t)
  BY <1>1, <1>2, <1>3 DEF Increasing
<1>5. ToSet(t) = ToSet(s) \cup {o}
  BY <1>1, <1>2 DEF ToSet
<1>6. QED BY <1>1, <1>4, <1>5 DEF t

\* Removing a place of an increasing queue removes the job there, no other.
LEMMA RemoveAtRemovesOne ==
  ASSUME NEW s \in Seq(Job), Increasing(s), NEW k \in DOMAIN s
  PROVE  /\ RemoveAt(s, k) \in Seq(Job)
         /\ Increasing(RemoveAt(s, k))
         /\ ToSet(RemoveAt(s, k)) = ToSet(s) \ {s[k]}
<1> DEFINE a == SubSeq(s, 1, k - 1)
           b == SubSeq(s, k + 1, Len(s))
           t == RemoveAt(s, k)
<1>1. Len(s) \in Nat /\ DOMAIN s = 1..Len(s) /\ k \in 1..Len(s)
  BY LenProperties
<1>2. a \in Seq(Job) /\ Len(a) = k - 1 /\ \A i \in 1..(k - 1) : a[i] = s[i]
  BY <1>1, SubSeqProperties, ElementOfSeq
<1>3. b \in Seq(Job) /\ Len(b) = Len(s) - k
      /\ \A i \in 1..(Len(s) - k) : b[i] = s[k + i]
  BY <1>1, SubSeqProperties, ElementOfSeq
<1>4. t = a \o b
  BY DEF RemoveAt
<1> HIDE DEF a, b, t
<1>5. /\ t \in Seq(Job) /\ Len(t) = Len(s) - 1
      /\ \A i \in 1..(Len(s) - 1) : t[i] = IF i < k THEN s[i] ELSE s[i + 1]
  <2>1. /\ t \in Seq(Job) /\ Len(t) = Len(a) + Len(b)
        /\ \A i \in 1..(Len(a) + Len(b)) :
             t[i] = IF i <= Len(a) THEN a[i] ELSE b[i - Len(a)]
    BY <1>2, <1>3, <1>4, ConcatProperties
  <2>2. Len(t) = Len(s) - 1
    BY <1>1, <1>2, <1>3, <2>1
  <2>3. ASSUME NEW i \in 1..(Len(s) - 1)
        PROVE  t[i] = IF i < k THEN s[i] ELSE s[i + 1]
    <3>1. CASE i < k
      BY <1>1, <1>2, <1>3, <2>1, <3>1
    <3>2. CASE ~(i < k)
      <4>1. t[i] = b[i - (k - 1)]
        BY <1>1, <1>2, <1>3, <2>1, <3>2
      <4>2. i - (k - 1) \in 1..(Len(s) - k) /\ k + (i - (k - 1)) = i + 1
        BY <1>1, <3>2
      <4>3. QED BY <1>3, <3>2, <4>1, <4>2
    <3>3. QED BY <3>1, <3>2
  <2>4. QED BY <2>1, <2>2, <2>3
<1>6. DOMAIN t = 1..(Len(s) - 1)
  BY <1>5, LenProperties
<1>7. \A i \in 1..Len(s) : s[i] \in Nat
  BY <1>1, ElementOfSeq, JobIsNat
<1>8. Increasing(t)
  <2>1. SUFFICES ASSUME NEW i \in 1..(Len(s) - 1), NEW j \in 1..(Len(s) - 1), i < j
                 PROVE  t[i] < t[j]
    BY <1>6 DEF Increasing
  <2>2. \E x, y \in 1..Len(s) : x < y /\ t[i] = s[x] /\ t[j] = s[y]
    <3>1. CASE j < k
      BY <1>1, <1>5, <2>1, <3>1
    <3>2. CASE i < k /\ ~(j < k)
      <4>1. t[i] = s[i] /\ t[j] = s[j + 1] /\ i < j + 1 /\ j + 1 \in 1..Len(s)
        BY <1>1, <1>5, <2>1, <3>2
      <4>2. QED BY <1>1, <4>1
    <3>3. CASE ~(i < k)
      <4>1. t[i] = s[i + 1] /\ t[j] = s[j + 1] /\ i + 1 < j + 1
            /\ i + 1 \in 1..Len(s) /\ j + 1 \in 1..Len(s)
        BY <1>1, <1>5, <2>1, <3>3
      <4>2. QED BY <4>1
    <3>4. QED BY <3>1, <3>2, <3>3
  <2>3. QED BY <1>1, <2>2 DEF Increasing
<1>9. \A i \in 1..Len(s) : i # k => s[i] # s[k]
  BY <1>1, <1>7 DEF Increasing
<1>10. ToSet(t) = ToSet(s) \ {s[k]}
  <2>1. ASSUME NEW i \in 1..(Len(s) - 1)
        PROVE  \E j \in 1..Len(s) : j # k /\ t[i] = s[j]
    BY <1>1, <1>5
  <2>2. ASSUME NEW j \in 1..Len(s), j # k
        PROVE  \E i \in 1..(Len(s) - 1) : t[i] = s[j]
    <3>1. CASE j < k
      BY <1>1, <1>5, <3>1
    <3>2. CASE j > k
      <4>1. j - 1 \in 1..(Len(s) - 1) /\ t[j - 1] = s[j]
        BY <1>1, <1>5, <3>2
      <4>2. QED BY <4>1
    <3>3. QED BY <1>1, <2>2, <3>1, <3>2
  <2>3. ASSUME NEW x PROVE x \in ToSet(t) <=> x \in ToSet(s) /\ x # s[k]
    <3>1. /\ x \in ToSet(t) <=> \E i \in 1..(Len(s) - 1) : t[i] = x
          /\ x \in ToSet(s) <=> \E j \in 1..Len(s) : s[j] = x
      BY <1>1, <1>6, InToSet
    <3>2. QED BY <1>1, <1>9, <2>1, <2>2, <3>1
  <2>4. QED BY <2>3
<1>11. QED BY <1>5, <1>8, <1>10 DEF t

\* Without a job of id n the queue stays; with one, exactly that job leaves.
LEMMA UnqueueRemovesId ==
  ASSUME TypeOK, IdsFollowAllocation, QueueAgreesWithTable, NEW n \in JobID
  PROVE  /\ Unqueue(n) \in Seq(Job)
         /\ Increasing(Unqueue(n))
         /\ ToSet(Unqueue(n)) = ToSet(queue) \ {n}
         /\ \/ n \notin ToSet(queue) /\ Unqueue(n) = queue
            \/ \E k \in DOMAIN queue : queue[k] = n /\ Unqueue(n) = RemoveAt(queue, k)
<1>1. queue \in Seq(Job) /\ Increasing(queue)
  BY DEF TypeOK, QueueAgreesWithTable, Increasing
<1>2. Len(queue) \in Nat /\ DOMAIN queue = 1..Len(queue)
  BY <1>1, LenProperties
<1>3. \A i \in DOMAIN queue : queue[i] \in Job /\ id[queue[i]] = queue[i]
  <2>1. ASSUME NEW i \in DOMAIN queue PROVE queue[i] \in Job /\ id[queue[i]] = queue[i]
    <3>1. queue[i] \in Job
      BY <1>1, <1>2, ElementOfSeq
    <3>2. queue[i] \in ToSet(queue)
      BY DEF ToSet
    <3>3. state[queue[i]] = "QUEUED"
      BY <3>1, <3>2 DEF QueueAgreesWithTable
    <3>4. queue[i] <= allocated
      BY <3>1, <3>3, JobIsNat DEF IdsFollowAllocation, TypeOK
    <3>5. QED BY <3>1, <3>4 DEF IdsFollowAllocation
  <2>2. QED BY <2>1
<1>4. CASE \E i \in 1..Len(queue) : id[queue[i]] = n
  <2>1. PICK k \in 1..Len(queue) : id[queue[k]] = n
    BY <1>4
  <2>2. \A i \in 1..Len(queue) : id[queue[i]] = n => i = k
    BY <1>1, <1>2, <1>3, <2>1, JobIsNat DEF Increasing
  <2>3. {i \in 1..Len(queue) : id[queue[i]] = n} = {k}
    BY <2>1, <2>2
  <2>4. Min({k}) = k
    BY <1>2 DEF Min
  <2>5. Unqueue(n) = RemoveAt(queue, k)
    BY <1>4, <2>3, <2>4 DEF Unqueue, RemoveFirstMatch, SelectInSeq
  <2>6. queue[k] = n
    BY <1>2, <1>3, <2>1
  <2>7. QED BY <1>1, <1>2, <2>5, <2>6, RemoveAtRemovesOne
<1>5. CASE ~ \E i \in 1..Len(queue) : id[queue[i]] = n
  <2>1. Unqueue(n) = queue
    BY <1>5 DEF Unqueue, RemoveFirstMatch
  <2>2. n \notin ToSet(queue)
    BY <1>2, <1>3, <1>5 DEF ToSet
  <2>3. QED BY <1>1, <2>1, <2>2
<1>6. QED BY <1>4, <1>5

\* The table holds under key n nothing but job n.
LEMMA EntryIsJob ==
  ASSUME TypeOK, IdsFollowAllocation, QueueAgreesWithTable, NEW n \in JobID
  PROVE  Entry(n) = active \cap {n}
<1>1. \A o \in active : o \in Job /\ state[o] # "none"
  BY DEF TypeOK, QueueAgreesWithTable
<1>2. \A o \in active : o <= allocated /\ id[o] = o
  BY <1>1, JobIsNat DEF IdsFollowAllocation, TypeOK
<1>3. QED BY <1>2 DEF Entry
-----------------------------------------------------------------------------
(* What the pieces the methods share keep. *)

\* What saveStateLocked and CompleteJob write are statuses.
LEMMA SavedRowsAreTyped ==
  ASSUME NEW rows \in [JobID -> RowStatus], active' \subseteq Job,
         queue' \in Seq(Job), state' \in [Job -> JobState], SaveState(rows)
  PROVE  row' \in [JobID -> RowStatus]
<1>1. SUFFICES ASSUME NEW n \in JobID, SavedAs(n) # {}
               PROVE  Lower[state'[CHOOSE o \in SavedAs(n) : TRUE]] \in RowStatus
  BY DEF SaveState
<1>2. SavedAs(n) \subseteq Job
  <2>1. ToSet(queue') \subseteq Job
    BY ElementOfSeq, LenProperties DEF ToSet
  <2>2. QED BY <2>1 DEF SavedAs
<1>3. \A st \in JobState : Lower[st] \in RowStatus
  BY DEF JobState, Lower, RowStatus
<1>4. (CHOOSE o \in SavedAs(n) : TRUE) \in Job
  BY <1>1, <1>2
<1>5. QED BY <1>3, <1>4

\* DB.CompleteJob with a status of its own keeps the rows typed.
LEMMA CompletedRowsAreTyped ==
  ASSUME NEW rows \in [JobID -> RowStatus], NEW n \in JobID, NEW st \in RowStatus
  PROVE  CompleteRow(rows, n, st) \in [JobID -> RowStatus]
BY DEF CompleteRow

\* No free slot means that some job runs, as the limit is at least one.
LEMMA FullMeansRunning ==
  ASSUME maxConcurrency \in Nat \ {0}, NEW table, NEW st, ~ HasSlot(table, st)
  PROVE  Running(table, st) # {}
BY FS_EmptySet DEF HasSlot

\* Promote keeps the table, the queue and the goroutines in agreement, and
\* leaves nobody waiting while nothing runs.
LEMMA PromoteKeeps ==
  ASSUME maxConcurrency \in Nat \ {0},
         NEW table \in SUBSET Job, NEW q \in Seq(Job),
         NEW st \in [Job -> JobState], NEW w \in [Job -> Worker], NEW done,
         Agree(table, q, st), Manned(st, w, done), Promote(table, q, st, w)
  PROVE  /\ active' \subseteq Job /\ queue' \in Seq(Job)
         /\ state' \in [Job -> JobState] /\ worker' \in [Job -> Worker]
         /\ Agree(active', queue', state')
         /\ Manned(state', worker', done)
         /\ queue' # <<>> => Running(active', state') # {}
         /\ \A o \in Job : st[o] # "QUEUED" => state'[o] = st[o] /\ worker'[o] = w[o]
<1>1. active' = table
  BY DEF Promote
<1>2. CASE HasSlot(table, st) /\ q # <<>>
  <2>1. /\ queue' = Tail(q)
        /\ state' = [st EXCEPT ![Head(q)] = "RUNNING"]
        /\ worker' = [w EXCEPT ![Head(q)] = "transfer"]
    BY <1>2 DEF Promote
  <2>2. /\ Head(q) \in Job /\ queue' \in Seq(Job) /\ Increasing(queue')
        /\ ToSet(queue') = ToSet(q) \ {Head(q)} /\ Head(q) \in ToSet(q)
    BY <1>2, <2>1, TailRemovesHead DEF Agree
  <2>3. st[Head(q)] = "QUEUED" /\ Head(q) \in table
    BY <2>2 DEF Agree
  <2>4. state' \in [Job -> JobState] /\ worker' \in [Job -> Worker]
    BY <2>1, <2>2 DEF JobState, Worker
  <2>5. Agree(active', queue', state')
    BY <1>1, <2>1, <2>2, <2>3 DEF Agree
  <2>6. Manned(state', worker', done)
    BY <2>1, <2>2 DEF Manned, Working
  <2>7. Head(q) \in Running(active', state')
    BY <1>1, <2>1, <2>2, <2>3 DEF Running
  <2>8. QED BY <1>1, <2>1, <2>2, <2>3, <2>4, <2>5, <2>6, <2>7
<1>3. CASE ~ (HasSlot(table, st) /\ q # <<>>)
  <2>1. queue' = q /\ state' = st /\ worker' = w
    BY <1>3 DEF Promote
  <2>2. q # <<>> => Running(table, st) # {}
    BY <1>3, FullMeansRunning
  <2>3. QED BY <1>1, <2>1, <2>2
<1>4. QED BY <1>2, <1>3
-----------------------------------------------------------------------------
(* JobInv is inductive: one lemma per method, then the goroutine's steps.  *)

\* NewJobManager: an empty table and an empty queue satisfy the invariant.
LEMMA JobInvInit == Init => JobInv
<1>1. SUFFICES ASSUME Init PROVE JobInv
  OBVIOUS
<1>2. Limits \subseteq Nat \ {0} /\ MaxJobs \in Nat \ {0}
  BY JobManagerAssumption
<1>3. queue = <<>> /\ queue \in Seq(Job) /\ DOMAIN queue = {} /\ ToSet(queue) = {}
  BY <1>1, EmptySeq DEF Init, ToSet
<1>4. TypeOK
  BY <1>1, <1>2, <1>3 DEF Init, TypeOK, JobState, Worker, RowStatus
<1>5. IdsFollowAllocation
  BY <1>1, JobIsNat DEF Init, IdsFollowAllocation
<1>6. QueueAgreesWithTable /\ SlotsHaveWorkers /\ NoStall
  BY <1>1, <1>3 DEF Init, QueueAgreesWithTable, SlotsHaveWorkers, NoStall
<1>7. QED BY <1>4, <1>5, <1>6 DEF JobInv

\* JobInv in the terms of PromoteKeeps.
LEMMA JobInvParts ==
  ASSUME JobInv
  PROVE  /\ Agree(active, queue, state)
         /\ Manned(state, worker, ctxDone)
         /\ \A o \in active : o \in Job /\ o <= allocated
         /\ \A o \in ToSet(queue) : o \in Job /\ o <= allocated
         /\ \A o \in Job : worker[o] # "none" => o <= allocated /\ id[o] = o
<1>1. Agree(active, queue, state)
  BY DEF JobInv, QueueAgreesWithTable, Agree, Increasing
<1>2. Manned(state, worker, ctxDone)
  BY DEF JobInv, SlotsHaveWorkers, Manned, Working
<1>3. \A o \in ToSet(queue) : o \in Job
  BY ElementOfSeq, LenProperties DEF JobInv, TypeOK, ToSet
<1>4. \A o \in Job : state[o] # "none" \/ worker[o] # "none" => o <= allocated
  BY JobIsNat DEF JobInv, TypeOK, IdsFollowAllocation
<1>5. \A o \in active : o \in Job /\ o <= allocated
  BY <1>1, <1>4 DEF JobInv, TypeOK, Agree
<1>6. \A o \in ToSet(queue) : o <= allocated
  BY <1>1, <1>3, <1>4 DEF Agree
<1>7. \A o \in Job : worker[o] # "none" => id[o] = o
  BY <1>4 DEF JobInv, IdsFollowAllocation
<1>8. QED BY <1>1, <1>2, <1>3, <1>4, <1>5, <1>6, <1>7

\* What is left to say of a method once Agree and Manned hold after it.
LEMMA JobInvAfter ==
  ASSUME maxConcurrency' \in Nat \ {0},
         jobCounter' \in 0..MaxJobs, allocated' \in 0..MaxJobs,
         id' \in [Job -> 0..MaxJobs], IdsFollowAllocation',
         active' \subseteq Job, queue' \in Seq(Job),
         state' \in [Job -> JobState], worker' \in [Job -> Worker],
         ctxDone' \subseteq Job, row' \in [JobID -> RowStatus],
         Agree(active', queue', state'), Manned(state', worker', ctxDone'),
         queue' # <<>> => Running(active', state') # {}
  PROVE  JobInv'
<1>1. TypeOK'
  BY DEF TypeOK
<1>2. QueueAgreesWithTable'
  BY DEF QueueAgreesWithTable, Agree, Increasing
<1>3. SlotsHaveWorkers'
  BY DEF SlotsHaveWorkers, Manned, Working
<1>4. NoStall'
  BY DEF NoStall
<1>5. QED BY <1>1, <1>2, <1>3, <1>4 DEF JobInv

\* CreateJob admits the next job, whether it starts or waits.
LEMMA CreateJobFrame ==
  ASSUME TypeOK, IdsFollowAllocation, NEW o \in Job, o \in JobID, o = allocated + 1,
         allocated' = o, jobCounter' = o, id' = [id EXCEPT ![o] = o],
         active' = active \cup {o}, maxConcurrency' = maxConcurrency,
         ctxDone' = ctxDone, SaveState(row),
         queue' \in Seq(Job), state' \in [Job -> JobState], worker' \in [Job -> Worker],
         \A p \in Job : p # o => state'[p] = state[p] /\ worker'[p] = worker[p],
         Agree(active', queue', state'), Manned(state', worker', ctxDone'),
         queue' # <<>> => Running(active', state') # {}
  PROVE  JobInv'
<1>1. o \in Nat /\ o \in 0..MaxJobs
  BY JobManagerAssumption DEF Job
<1>2. id' \in [Job -> 0..MaxJobs] /\ active' \subseteq Job
  BY <1>1 DEF TypeOK
<1>3. row' \in [JobID -> RowStatus]
  BY <1>2, SavedRowsAreTyped DEF TypeOK
<1>4. IdsFollowAllocation'
  BY <1>1, JobIsNat DEF TypeOK, IdsFollowAllocation
<1>5. QED BY <1>1, <1>2, <1>3, <1>4, JobInvAfter DEF TypeOK

\* CreateJob, whether the new job starts or queues, keeps the invariant.
LEMMA CreateJobKeepsInv == JobInv /\ CreateJob => JobInv'
<1>1. SUFFICES ASSUME JobInv, CreateJob PROVE JobInv'
  OBVIOUS
<1> DEFINE o == allocated + 1
<1>2. /\ TypeOK /\ IdsFollowAllocation /\ QueueAgreesWithTable /\ SlotsHaveWorkers
      /\ NoStall
  BY <1>1 DEF JobInv
<1>3. /\ o \in Job /\ o \in JobID /\ o > allocated /\ o = allocated + 1
      /\ jobCounter' = o /\ state[o] = "none" /\ worker[o] = "none"
  BY <1>1, <1>2, JobManagerAssumption
  DEF CreateJob, TypeOK, IdsFollowAllocation, Job, JobID
<1>4. o \notin active /\ \A p \in ToSet(queue) : p < o
  BY <1>1, <1>2, <1>3, JobInvParts, JobIsNat DEF TypeOK
<1>5. active \ Entry(o) = active
  BY <1>2, <1>3, <1>4, EntryIsJob
<1>6. Admit(o, o) /\ ctxDone' = ctxDone
  BY <1>1, <1>3 DEF CreateJob
<1>7. /\ allocated' = o /\ id' = [id EXCEPT ![o] = o]
      /\ active' = active \cup {o} /\ maxConcurrency' = maxConcurrency
      /\ SaveState(row)
  BY <1>5, <1>6 DEF Admit
<1>8. Agree(active, queue, state) /\ Manned(state, worker, ctxDone)
  BY <1>1, JobInvParts
<1> HIDE DEF o
<1>9. CASE HasSlot(active, state)
  <2>1. /\ state' = [state EXCEPT ![o] = "RUNNING"]
        /\ worker' = [worker EXCEPT ![o] = "transfer"]
        /\ queue' = queue
    BY <1>5, <1>6, <1>9 DEF Admit
  <2>2. queue' \in Seq(Job) /\ state' \in [Job -> JobState] /\ worker' \in [Job -> Worker]
    BY <1>2, <1>3, <2>1 DEF TypeOK, JobState, Worker
  <2>3. Agree(active', queue', state')
    BY <1>3, <1>7, <1>8, <2>1, <1>2 DEF Agree, TypeOK
  <2>4. Manned(state', worker', ctxDone')
    BY <1>3, <1>6, <1>8, <2>1, <1>2 DEF Manned, Working, TypeOK
  <2>5. o \in Running(active', state')
    BY <1>2, <1>3, <1>7, <2>1 DEF Running, TypeOK
  <2>6. \A p \in Job : p # o => state'[p] = state[p] /\ worker'[p] = worker[p]
    BY <1>2, <2>1 DEF TypeOK
  <2>7. QED
    BY <1>2, <1>3, <1>6, <1>7, <2>2, <2>3, <2>4, <2>5, <2>6, CreateJobFrame
<1>10. CASE ~ HasSlot(active, state)
  <2>1. /\ state' = [state EXCEPT ![o] = "QUEUED"]
        /\ worker' = worker
        /\ queue' = Append(queue, o)
    BY <1>5, <1>6, <1>10 DEF Admit
  <2>2. /\ queue' \in Seq(Job) /\ Increasing(queue')
        /\ ToSet(queue') = ToSet(queue) \cup {o}
    BY <1>2, <1>3, <1>4, <1>8, <2>1, AppendAddsLast DEF TypeOK, Agree
  <2>3. state' \in [Job -> JobState] /\ worker' \in [Job -> Worker]
    BY <1>2, <2>1 DEF TypeOK, JobState
  <2>4. Agree(active', queue', state')
    BY <1>2, <1>3, <1>7, <1>8, <2>1, <2>2 DEF Agree, TypeOK
  <2>5. Manned(state', worker', ctxDone')
    BY <1>2, <1>3, <1>6, <1>8, <2>1 DEF Manned, Working, TypeOK
  <2>6. \A p \in Job : p # o => state'[p] = state[p] /\ worker'[p] = worker[p]
    BY <1>2, <2>1 DEF TypeOK
  <2>7. Running(active', state') # {}
    <3>1. Running(active, state) # {}
      BY <1>2, <1>10, FullMeansRunning DEF TypeOK
    <3>2. Running(active, state) \subseteq Running(active', state')
      BY <1>2, <1>4, <1>7, <2>6 DEF Running, TypeOK
    <3>3. QED BY <3>1, <3>2
  <2>8. QED
    BY <1>2, <1>3, <1>6, <1>7, <2>2, <2>3, <2>4, <2>5, <2>6, <2>7, CreateJobFrame
<1>11. QED BY <1>9, <1>10

\* The tail that FinishJob and CancelJob share: job n leaves the table and the
\* queue in state st[n], and perhaps another job starts.
LEMMA WithdrawKeepsInv ==
  ASSUME JobInv, NEW n \in Job, n <= allocated,
         NEW st \in [Job -> JobState], NEW w \in [Job -> Worker],
         NEW rows \in [JobID -> RowStatus],
         \A o \in Job : o # n => st[o] = state[o] /\ w[o] = worker[o],
         st[n] \notin {"QUEUED", "RUNNING"},
         Manned(st, w, ctxDone'),
         Promote(active \ Entry(n), Unqueue(n), st, w),
         ctxDone' = ctxDone \cup Entry(n),
         UNCHANGED <<maxConcurrency, jobCounter, allocated, id>>,
         SaveState(rows)
  PROVE  JobInv'
<1> DEFINE table == active \ Entry(n)
           q == Unqueue(n)
<1>1. /\ TypeOK /\ IdsFollowAllocation /\ QueueAgreesWithTable /\ n \in JobID
      /\ Agree(active, queue, state)
  BY JobInvParts DEF JobInv, Job, JobID
<1>2. table = active \ {n} /\ table \subseteq Job /\ Entry(n) \subseteq Job
  BY <1>1, EntryIsJob DEF TypeOK
<1>3. q \in Seq(Job) /\ Increasing(q) /\ ToSet(q) = ToSet(queue) \ {n}
  BY <1>1, UnqueueRemovesId
<1>4. Agree(table, q, st)
  BY <1>1, <1>2, <1>3 DEF Agree
<1> HIDE DEF table, q
<1>5. maxConcurrency \in Nat \ {0} /\ Promote(table, q, st, w)
  BY <1>1 DEF TypeOK, table, q
<1>6. /\ active' \subseteq Job /\ queue' \in Seq(Job)
      /\ state' \in [Job -> JobState] /\ worker' \in [Job -> Worker]
      /\ Agree(active', queue', state')
      /\ Manned(state', worker', ctxDone')
      /\ queue' # <<>> => Running(active', state') # {}
      /\ \A o \in Job : st[o] # "QUEUED" => state'[o] = st[o] /\ worker'[o] = w[o]
  <2>1. table \in SUBSET Job /\ q \in Seq(Job) /\ Agree(table, q, st)
        /\ Manned(st, w, ctxDone')
    BY <1>2, <1>3, <1>4
  <2>2. active' \subseteq Job /\ queue' \in Seq(Job)
    BY <1>5, <2>1, PromoteKeeps
  <2>3. state' \in [Job -> JobState] /\ worker' \in [Job -> Worker]
    BY <1>5, <2>1, PromoteKeeps
  <2>4. Agree(active', queue', state') /\ Manned(state', worker', ctxDone')
    BY <1>5, <2>1, PromoteKeeps
  <2>5. queue' # <<>> => Running(active', state') # {}
    BY <1>5, <2>1, PromoteKeeps
  <2>6. \A o \in Job : st[o] # "QUEUED" => state'[o] = st[o] /\ worker'[o] = w[o]
    BY <1>5, <2>1, PromoteKeeps
  <2>7. QED BY <2>2, <2>3, <2>4, <2>5, <2>6
<1>7. row' \in [JobID -> RowStatus]
  BY <1>6, SavedRowsAreTyped
<1>8. IdsFollowAllocation'
  <2>1. ASSUME NEW o \in Job, o > allocated
        PROVE  state'[o] = "none" /\ worker'[o] = "none"
    <3>1. o # n /\ state[o] = "none" /\ worker[o] = "none"
      BY <1>1, <2>1, JobIsNat DEF IdsFollowAllocation, TypeOK
    <3>2. st[o] = "none" /\ w[o] = "none"
      BY <3>1
    <3>3. QED BY <1>6, <3>2
  <2>2. QED BY <1>1, <2>1 DEF IdsFollowAllocation
<1>9. ctxDone' \subseteq Job
  BY <1>1, <1>2 DEF TypeOK
<1>10. QED BY <1>1, <1>6, <1>7, <1>8, <1>9, JobInvAfter DEF TypeOK

\* FinishJob of a job that is in the table, and of one cancelled before, keeps it.
LEMMA FinishJobKeepsInv == ASSUME NEW o \in Job PROVE JobInv /\ FinishJob(o) => JobInv'
<1>1. SUFFICES ASSUME JobInv, FinishJob(o) PROVE JobInv'
  OBVIOUS
<1> DEFINE st == [j \in Job |-> IF j \in Entry(o) THEN "COMPLETED" ELSE state[j]]
           w == [worker EXCEPT ![o] = "done"]
           rows == IF Entry(o) = {} THEN row ELSE CompleteRow(row, o, "completed")
<1>2. TypeOK /\ IdsFollowAllocation /\ QueueAgreesWithTable /\ SlotsHaveWorkers
  BY <1>1 DEF JobInv
<1>3. worker[o] = "returning" /\ o <= allocated /\ id[o] = o /\ o \in JobID
  BY <1>1, JobInvParts DEF FinishJob, Job, JobID
<1>4. Entry(o) = active \cap {o}
  BY <1>2, <1>3, EntryIsJob
<1>5. /\ Promote(active \ Entry(o), Unqueue(o), st, w)
      /\ ctxDone' = ctxDone \cup Entry(o)
      /\ UNCHANGED <<maxConcurrency, jobCounter, allocated, id>>
      /\ SaveState(rows)
  BY <1>1, <1>3 DEF FinishJob
<1>6. st \in [Job -> JobState] /\ w \in [Job -> Worker]
  BY <1>2 DEF TypeOK, JobState, Worker
<1>7. rows \in [JobID -> RowStatus]
  BY <1>2, <1>3, CompletedRowsAreTyped DEF TypeOK, RowStatus
<1>8. \A p \in Job : p # o => st[p] = state[p] /\ w[p] = worker[p]
  BY <1>2, <1>4 DEF TypeOK
<1>9. st[o] \notin {"QUEUED", "RUNNING"}
  BY <1>2, <1>4 DEF QueueAgreesWithTable
<1>10. Manned(st, w, ctxDone')
  <2>1. \A p \in Job : p # o =>
          /\ st[p] = "RUNNING" => w[p] \in Working
          /\ st[p] = "QUEUED" => w[p] = "none"
          /\ w[p] \in Working =>
               st[p] = "RUNNING" \/ (st[p] = "CANCELLED" /\ p \in ctxDone')
    BY <1>2, <1>5, <1>8 DEF SlotsHaveWorkers, Working
  <2>2. w[o] = "done" /\ "done" \notin Working
    BY <1>2 DEF TypeOK, Working
  <2>3. QED BY <1>9, <2>1, <2>2 DEF Manned
<1> HIDE DEF st, w, rows
<1>11. QED BY <1>1, <1>3, <1>5, <1>6, <1>7, <1>8, <1>9, <1>10, WithdrawKeepsInv

\* CancelJob of a running and of a queued job keeps it.
LEMMA CancelJobKeepsInv == ASSUME NEW n \in JobID PROVE JobInv /\ CancelJob(n) => JobInv'
<1>1. SUFFICES ASSUME JobInv, CancelJob(n) PROVE JobInv'
  OBVIOUS
<1> DEFINE st == [j \in Job |-> IF j \in Entry(n) THEN "CANCELLED" ELSE state[j]]
<1>2. TypeOK /\ IdsFollowAllocation /\ QueueAgreesWithTable /\ SlotsHaveWorkers
  BY <1>1 DEF JobInv
<1>3. Entry(n) = {n} /\ n \in active
  BY <1>1, <1>2, EntryIsJob DEF CancelJob
<1>4. n \in Job /\ n <= allocated
  BY <1>1, <1>3, JobInvParts
<1>5. /\ Promote(active \ Entry(n), Unqueue(n), st, worker)
      /\ ctxDone' = ctxDone \cup Entry(n)
      /\ UNCHANGED <<maxConcurrency, jobCounter, allocated, id>>
      /\ SaveState(row)
  BY <1>1 DEF CancelJob
<1>6. /\ st \in [Job -> JobState] /\ worker \in [Job -> Worker]
      /\ row \in [JobID -> RowStatus]
  BY <1>2 DEF TypeOK, JobState
<1>7. /\ \A p \in Job : p # n => st[p] = state[p]
      /\ st[n] = "CANCELLED"
  BY <1>3, <1>4
<1>8. Manned(st, worker, ctxDone')
  <2>1. \A p \in Job : p # n =>
          /\ st[p] = "RUNNING" => worker[p] \in Working
          /\ st[p] = "QUEUED" => worker[p] = "none"
          /\ worker[p] \in Working =>
               st[p] = "RUNNING" \/ (st[p] = "CANCELLED" /\ p \in ctxDone')
    BY <1>2, <1>5, <1>7 DEF SlotsHaveWorkers, Working
  <2>2. n \in ctxDone'
    BY <1>3, <1>5
  <2>3. QED BY <1>7, <2>1, <2>2 DEF Manned
<1> HIDE DEF st
<1>9. QED BY <1>1, <1>4, <1>5, <1>6, <1>7, <1>8, WithdrawKeepsInv

\* CancelAllJobs, which empties table and queue together, keeps it.
LEMMA CancelAllKeepsInv == JobInv /\ CancelAllJobs => JobInv'
<1>1. SUFFICES ASSUME JobInv, CancelAllJobs PROVE JobInv'
  OBVIOUS
<1>2. /\ TypeOK /\ IdsFollowAllocation /\ QueueAgreesWithTable /\ SlotsHaveWorkers
  BY <1>1 DEF JobInv
<1>3. /\ state' = [o \in Job |-> IF o \in active THEN "CANCELLED" ELSE state[o]]
      /\ ctxDone' = ctxDone \cup active
      /\ active' = {} /\ queue' = <<>>
      /\ UNCHANGED <<maxConcurrency, jobCounter, allocated, id, worker>>
      /\ SaveState(row)
  BY <1>1 DEF CancelAllJobs
<1>4. queue' \in Seq(Job) /\ DOMAIN queue' = {} /\ ToSet(queue') = {}
  BY <1>3, EmptySeq DEF ToSet
<1>5. state' \in [Job -> JobState] /\ row' \in [JobID -> RowStatus]
  <2>1. state' \in [Job -> JobState]
    BY <1>2, <1>3 DEF TypeOK, JobState
  <2>2. QED BY <1>2, <1>3, <1>4, <2>1, SavedRowsAreTyped DEF TypeOK
<1>6. Agree(active', queue', state')
  BY <1>2, <1>3, <1>4 DEF Agree, Increasing, QueueAgreesWithTable
<1>7. Manned(state', worker', ctxDone')
  BY <1>2, <1>3 DEF Manned, Working, SlotsHaveWorkers, QueueAgreesWithTable
<1>8. IdsFollowAllocation'
  BY <1>1, <1>2, <1>3, JobInvParts, JobIsNat DEF IdsFollowAllocation, TypeOK
<1>9. QED
  BY <1>2, <1>3, <1>4, <1>5, <1>6, <1>7, <1>8, JobInvAfter DEF TypeOK

\* The steps a goroutine takes before FinishJob: it goes on working, and at
\* most its own row changes.
LEMMA WorkerMovesKeepInv ==
  ASSUME JobInv, NEW o \in Job, worker[o] \in Working,
         NEW to \in Working, worker' = [worker EXCEPT ![o] = to],
         row' \in [JobID -> RowStatus],
         UNCHANGED <<maxConcurrency, jobCounter, allocated, id, active, queue,
                     state, ctxDone>>
  PROVE  JobInv'
<1>1. /\ TypeOK /\ IdsFollowAllocation /\ NoStall
      /\ Agree(active, queue, state) /\ Manned(state, worker, ctxDone)
  BY JobInvParts DEF JobInv
<1>2. worker' \in [Job -> Worker]
  BY <1>1 DEF TypeOK, Worker, Working
<1>3. Manned(state', worker', ctxDone')
  BY <1>1 DEF Manned, Working, TypeOK
<1>4. Agree(active', queue', state')
  BY <1>1
<1>5. o <= allocated
  BY JobInvParts DEF Working
<1>6. IdsFollowAllocation'
  <2>1. ASSUME NEW p \in Job, p > allocated
        PROVE  state'[p] = "none" /\ worker'[p] = "none"
    BY <1>1, <1>5, <2>1, JobIsNat DEF IdsFollowAllocation, TypeOK
  <2>2. QED BY <1>1, <2>1 DEF IdsFollowAllocation
<1>7. queue' # <<>> => Running(active', state') # {}
  BY <1>1 DEF NoStall, Running
<1>8. QED BY <1>1, <1>2, <1>3, <1>4, <1>6, <1>7, JobInvAfter DEF TypeOK

\* Every step of a job's goroutine keeps it, FinishJob at its end included.
LEMMA WorkerStepKeepsInv ==
  ASSUME NEW o \in Job PROVE JobInv /\ WorkerStep(o) => JobInv'
<1>1. SUFFICES ASSUME JobInv, WorkerStep(o) PROVE JobInv'
  OBVIOUS
<1>2. row \in [JobID -> RowStatus] /\ TypeOK
  BY <1>1 DEF JobInv, TypeOK
<1>3. CASE TransferSucceeds(o)
  BY <1>1, <1>2, <1>3, WorkerMovesKeepInv DEF TransferSucceeds, Working
<1>4. CASE TransferFails(o)
  BY <1>1, <1>2, <1>4, WorkerMovesKeepInv DEF TransferFails, Working
<1>5. CASE TransferCancelled(o)
  BY <1>1, <1>2, <1>5, WorkerMovesKeepInv DEF TransferCancelled, Working
<1>6. CASE SendJobFailure(o)
  BY <1>1, <1>2, <1>6, WorkerMovesKeepInv DEF SendJobFailure, Working
<1>7. CASE ReportFailure(o)
  <2>1. id[o] \in JobID
    BY <1>1, <1>7, JobInvParts DEF ReportFailure, Job, JobID
  <2>2. row' \in [JobID -> RowStatus]
    BY <1>2, <1>7, <2>1, CompletedRowsAreTyped DEF ReportFailure, RowStatus
  <2>3. QED BY <1>1, <1>7, <2>2, WorkerMovesKeepInv DEF ReportFailure, Working
<1>8. CASE FinishJob(o)
  BY <1>1, <1>8, FinishJobKeepsInv
<1>9. QED
  BY <1>1, <1>3, <1>4, <1>5, <1>6, <1>7, <1>8 DEF WorkerStep, EndTransfer

\* /reload and SaveState, which start and stop nothing, keep it.
LEMMA SettingsKeepInv ==
  /\ \A n \in Reloads : JobInv /\ SetMaxConcurrency(n) => JobInv'
  /\ JobInv /\ SaveStateNow => JobInv'
  /\ \A o \in Job : JobInv /\ CallerDone(o) => JobInv'
<1>1. ASSUME JobInv
      PROVE  /\ TypeOK /\ IdsFollowAllocation /\ NoStall
             /\ Agree(active, queue, state) /\ Manned(state, worker, ctxDone)
  BY <1>1, JobInvParts DEF JobInv
<1>2. ASSUME JobInv, NEW n \in Reloads, SetMaxConcurrency(n) PROVE JobInv'
  <2>1. maxConcurrency' \in Nat \ {0}
    BY <1>2, JobManagerAssumption DEF SetMaxConcurrency
  <2>2. UNCHANGED <<jobCounter, allocated, id, active, queue, state, worker, ctxDone, row>>
    BY <1>2 DEF SetMaxConcurrency
  <2>3. IdsFollowAllocation' /\ (queue' # <<>> => Running(active', state') # {})
    BY <1>1, <1>2, <2>2 DEF IdsFollowAllocation, NoStall, Running
  <2>4. Agree(active', queue', state') /\ Manned(state', worker', ctxDone')
    BY <1>1, <1>2, <2>2
  <2>5. QED BY <1>1, <1>2, <2>1, <2>2, <2>3, <2>4, JobInvAfter DEF TypeOK
<1>3. ASSUME JobInv, SaveStateNow PROVE JobInv'
  <2>1. UNCHANGED <<maxConcurrency, jobCounter, allocated, id, active, queue, state,
                    worker, ctxDone>> /\ SaveState(row)
    BY <1>3 DEF SaveStateNow
  <2>2. row' \in [JobID -> RowStatus]
    BY <1>1, <1>3, <2>1, SavedRowsAreTyped DEF TypeOK
  <2>3. IdsFollowAllocation' /\ (queue' # <<>> => Running(active', state') # {})
    BY <1>1, <1>3, <2>1 DEF IdsFollowAllocation, NoStall, Running
  <2>4. Agree(active', queue', state') /\ Manned(state', worker', ctxDone')
    BY <1>1, <1>3, <2>1
  <2>5. QED BY <1>1, <1>3, <2>1, <2>2, <2>3, <2>4, JobInvAfter DEF TypeOK
<1>4. ASSUME JobInv, NEW o \in Job, CallerDone(o) PROVE JobInv'
  <2>1. ctxDone' = ctxDone \cup {o}
        /\ UNCHANGED <<maxConcurrency, jobCounter, allocated, id, active, queue, state,
                       worker, row>>
    BY <1>4 DEF CallerDone
  <2>2. IdsFollowAllocation' /\ (queue' # <<>> => Running(active', state') # {})
    BY <1>1, <1>4, <2>1 DEF IdsFollowAllocation, NoStall, Running
  <2>3. Agree(active', queue', state') /\ Manned(state', worker', ctxDone')
    BY <1>1, <1>4, <2>1 DEF Manned
  <2>4. QED BY <1>1, <1>4, <2>1, <2>2, <2>3, JobInvAfter DEF TypeOK
<1>5. QED BY <1>2, <1>3, <1>4

\* Every step keeps the invariant, one case per method and per goroutine step.
LEMMA JobInvStep == JobInv /\ [Next]_vars => JobInv'
<1>1. SUFFICES ASSUME JobInv, [Next]_vars PROVE JobInv'
  OBVIOUS
<1>2. CASE CreateJob
  BY <1>1, <1>2, CreateJobKeepsInv
<1>3. CASE \E n \in JobID : CancelJob(n)
  BY <1>1, <1>3, CancelJobKeepsInv
<1>4. CASE CancelAllJobs
  BY <1>1, <1>4, CancelAllKeepsInv
<1>5. CASE \E n \in Reloads : SetMaxConcurrency(n)
  BY <1>1, <1>5, SettingsKeepInv
<1>6. CASE SaveStateNow
  BY <1>1, <1>6, SettingsKeepInv
<1>7. CASE \E o \in Job : WorkerStep(o)
  BY <1>1, <1>7, WorkerStepKeepsInv
<1>8. CASE \E o \in Job : CallerDone(o)
  BY <1>1, <1>8, SettingsKeepInv
<1>9. CASE UNCHANGED vars
  <2>1. /\ TypeOK /\ IdsFollowAllocation /\ NoStall
        /\ Agree(active, queue, state) /\ Manned(state, worker, ctxDone)
    BY <1>1, JobInvParts DEF JobInv
  <2>2. IdsFollowAllocation' /\ (queue' # <<>> => Running(active', state') # {})
    BY <1>9, <2>1 DEF IdsFollowAllocation, NoStall, Running, vars
  <2>3. Agree(active', queue', state') /\ Manned(state', worker', ctxDone')
    BY <1>9, <2>1 DEF vars
  <2>4. QED BY <1>9, <2>1, <2>2, <2>3, JobInvAfter DEF TypeOK, vars
<1>10. QED
  BY <1>1, <1>2, <1>3, <1>4, <1>5, <1>6, <1>7, <1>8, <1>9 DEF Next, Command
-----------------------------------------------------------------------------
(* The invariants, as theorems. *)

\* JobInv is an invariant of the job manager.
THEOREM Invariance == Spec => []JobInv
<1>1. QED BY JobInvInit, JobInvStep, PTL DEF Spec

\* Every variable keeps its type for any number of jobs and any limits.
THEOREM TypeCorrect == Spec => []TypeOK
<1>1. JobInv => TypeOK
  BY DEF JobInv
<1>2. QED BY <1>1, Invariance, PTL

\* The table, the queue and the job states never disagree, and the queue keeps
\* the order of creation.
THEOREM QueueAgreement == Spec => []QueueAgreesWithTable
<1>1. JobInv => QueueAgreesWithTable
  BY DEF JobInv
<1>2. QED BY <1>1, Invariance, PTL

\* No slot leaks, and no goroutine works unseen unless it was cancelled.
THEOREM NoSlotLeaks == Spec => []SlotsHaveWorkers
<1>1. JobInv => SlotsHaveWorkers
  BY DEF JobInv
<1>2. QED BY <1>1, Invariance, PTL

\* Nobody waits while nothing runs, whatever /reload does to the limit.
THEOREM NeverStalls == Spec => []NoStall
<1>1. JobInv => NoStall
  BY DEF JobInv
<1>2. QED BY <1>1, Invariance, PTL
-----------------------------------------------------------------------------
(* What a step may start: at most one job, only into a free slot, and never *)
(* one that was cancelled.  Each step either starts none or fills one slot. *)

\* The step starts no goroutine and gives no job a slot.
StartsNone ==
  /\ \A o \in Job : worker[o] = "none" => worker'[o] = "none"
  /\ Running(active', state') \subseteq Running(active, state)

\* The step starts job h beside the running jobs it leaves alone.
Starts(h, kept) ==
  /\ state[h] \in {"none", "QUEUED"} /\ state'[h] = "RUNNING"
  /\ \A o \in Job : o # h /\ worker[o] = "none" => worker'[o] = "none"
  /\ Cardinality(kept) < maxConcurrency
  /\ Running(active', state') = kept \cup {h}

StartsOne ==
  \E h \in Job : \E kept \in SUBSET Running(active, state) : Starts(h, kept)
-----------------------------------------------------------------------------
(* Which steps start something. *)

\* Table, queue and states still agree once a method took job n out of all
\* three, before it looks for the next job to start.
LEMMA WithdrawAgrees ==
  ASSUME JobInv, NEW n \in Job, NEW st \in [Job -> JobState],
         \A o \in Job : o # n => st[o] = state[o],
         st[n] \notin {"QUEUED", "RUNNING"}
  PROVE  /\ Unqueue(n) \in Seq(Job)
         /\ active \ Entry(n) = active \ {n}
         /\ Agree(active \ {n}, Unqueue(n), st)
<1>1. /\ TypeOK /\ IdsFollowAllocation /\ QueueAgreesWithTable /\ n \in JobID
      /\ Agree(active, queue, state)
  BY JobInvParts DEF JobInv, Job, JobID
<1>2. Entry(n) = active \cap {n}
  BY <1>1, EntryIsJob
<1>3. /\ Unqueue(n) \in Seq(Job) /\ Increasing(Unqueue(n))
      /\ ToSet(Unqueue(n)) = ToSet(queue) \ {n}
  BY <1>1, UnqueueRemovesId
<1>4. Agree(active \ {n}, Unqueue(n), st)
  BY <1>1, <1>3 DEF Agree
<1>5. QED BY <1>2, <1>3, <1>4

\* The tail of FinishJob and CancelJob starts the head of the queue or nobody.
LEMMA WithdrawStarts ==
  ASSUME JobInv, NEW n \in Job, NEW st \in [Job -> JobState],
         NEW w \in [Job -> Worker],
         \A o \in Job : o # n => st[o] = state[o],
         st[n] \notin {"QUEUED", "RUNNING"},
         \A o \in Job : worker[o] = "none" => w[o] = "none",
         Promote(active \ Entry(n), Unqueue(n), st, w)
  PROVE  StartsNone \/ StartsOne
<1> DEFINE table == active \ {n}
           q == Unqueue(n)
           kept == Running(table, st)
<1>1. q \in Seq(Job) /\ Agree(table, q, st) /\ Promote(table, q, st, w)
  BY WithdrawAgrees
<1>2. active \subseteq Job
  BY DEF JobInv, TypeOK
<1> HIDE DEF q
<1>3. active' = table /\ kept \subseteq Running(active, state)
  BY <1>1, <1>2 DEF Promote, Running
<1>4. CASE HasSlot(table, st) /\ q # <<>>
  <2>1. /\ state' = [st EXCEPT ![Head(q)] = "RUNNING"]
        /\ worker' = [w EXCEPT ![Head(q)] = "transfer"]
    BY <1>1, <1>4 DEF Promote
  <2>2. Head(q) \in Job /\ Head(q) \in ToSet(q)
    BY <1>1, <1>4, TailRemovesHead DEF Agree
  <2>3. st[Head(q)] = "QUEUED" /\ Head(q) \in table
    BY <1>1, <2>2 DEF Agree
  <2>4. state[Head(q)] = "QUEUED" /\ state'[Head(q)] = "RUNNING"
    BY <2>1, <2>2, <2>3
  <2>5. \A o \in Job : o # Head(q) /\ worker[o] = "none" => worker'[o] = "none"
    BY <2>1
  <2>6. Running(active', state') = kept \cup {Head(q)}
    BY <1>2, <1>3, <2>1, <2>2, <2>3 DEF Running
  <2>7. Cardinality(kept) < maxConcurrency
    BY <1>4 DEF HasSlot
  <2>8. Starts(Head(q), kept)
    BY <2>4, <2>5, <2>6, <2>7 DEF Starts
  <2>9. QED BY <1>3, <2>2, <2>8 DEF StartsOne
<1>5. CASE ~ (HasSlot(table, st) /\ q # <<>>)
  <2>1. state' = st /\ worker' = w
    BY <1>1, <1>5 DEF Promote
  <2>2. Running(active', state') \subseteq Running(active, state)
    BY <1>3, <2>1
  <2>3. QED BY <2>1, <2>2 DEF StartsNone
<1>6. QED BY <1>4, <1>5

\* CreateJob starts the job it admits or nobody.
LEMMA CreateJobStarts == JobInv /\ CreateJob => StartsNone \/ StartsOne
<1>1. SUFFICES ASSUME JobInv, CreateJob PROVE StartsNone \/ StartsOne
  OBVIOUS
<1> DEFINE o == allocated + 1
<1>2. TypeOK /\ IdsFollowAllocation /\ QueueAgreesWithTable
  BY <1>1 DEF JobInv
<1>3. /\ o \in Job /\ o \in JobID /\ o > allocated /\ jobCounter' = o
      /\ state[o] = "none"
  BY <1>1, <1>2, JobManagerAssumption
  DEF CreateJob, TypeOK, IdsFollowAllocation, Job, JobID
<1>4. o \notin active
  BY <1>2, <1>3 DEF QueueAgreesWithTable
<1>5. active \ Entry(o) = active /\ active \subseteq Job
  BY <1>2, <1>3, <1>4, EntryIsJob DEF TypeOK
<1>6. Admit(o, o)
  BY <1>1, <1>3 DEF CreateJob
<1>7. active' = active \cup {o}
  BY <1>5, <1>6 DEF Admit
<1> HIDE DEF o
<1>8. CASE HasSlot(active, state)
  <2>1. /\ state' = [state EXCEPT ![o] = "RUNNING"]
        /\ worker' = [worker EXCEPT ![o] = "transfer"]
    BY <1>5, <1>6, <1>8 DEF Admit
  <2>2. state'[o] = "RUNNING" /\ \A p \in Job : p # o => worker'[p] = worker[p]
    BY <1>2, <1>3, <2>1 DEF TypeOK
  <2>3. Running(active', state') = Running(active, state) \cup {o}
    BY <1>2, <1>3, <1>4, <1>5, <1>7, <2>1 DEF Running, TypeOK
  <2>4. Starts(o, Running(active, state))
    BY <1>3, <1>8, <2>2, <2>3 DEF Starts, HasSlot
  <2>5. QED BY <1>3, <2>4 DEF StartsOne
<1>9. CASE ~ HasSlot(active, state)
  <2>1. state' = [state EXCEPT ![o] = "QUEUED"] /\ worker' = worker
    BY <1>5, <1>6, <1>9 DEF Admit
  <2>2. Running(active', state') \subseteq Running(active, state)
    BY <1>2, <1>3, <1>5, <1>7, <2>1 DEF Running, TypeOK
  <2>3. QED BY <2>1, <2>2 DEF StartsNone
<1>10. QED BY <1>8, <1>9

\* FinishJob starts at most the head of the queue.
LEMMA FinishJobStarts ==
  ASSUME NEW o \in Job PROVE JobInv /\ FinishJob(o) => StartsNone \/ StartsOne
<1>1. SUFFICES ASSUME JobInv, FinishJob(o) PROVE StartsNone \/ StartsOne
  OBVIOUS
<1> DEFINE st == [j \in Job |-> IF j \in Entry(o) THEN "COMPLETED" ELSE state[j]]
           w == [worker EXCEPT ![o] = "done"]
<1>2. TypeOK /\ IdsFollowAllocation /\ QueueAgreesWithTable
  BY <1>1 DEF JobInv
<1>3. worker[o] = "returning" /\ id[o] = o /\ o \in JobID
  BY <1>1, JobInvParts DEF FinishJob, Job, JobID
<1>4. Entry(o) = active \cap {o}
  BY <1>2, <1>3, EntryIsJob
<1>5. Promote(active \ Entry(o), Unqueue(o), st, w)
  BY <1>1, <1>3 DEF FinishJob
<1>6. st \in [Job -> JobState] /\ w \in [Job -> Worker]
  BY <1>2 DEF TypeOK, JobState, Worker
<1>7. /\ \A p \in Job : p # o => st[p] = state[p]
      /\ \A p \in Job : worker[p] = "none" => w[p] = "none"
  BY <1>2, <1>3, <1>4 DEF TypeOK
<1>8. st[o] \notin {"QUEUED", "RUNNING"}
  BY <1>2, <1>4 DEF QueueAgreesWithTable
<1> HIDE DEF st, w
<1>9. QED BY <1>1, <1>5, <1>6, <1>7, <1>8, WithdrawStarts

\* CancelJob starts at most the head of the queue.
LEMMA CancelJobStarts ==
  ASSUME NEW n \in JobID PROVE JobInv /\ CancelJob(n) => StartsNone \/ StartsOne
<1>1. SUFFICES ASSUME JobInv, CancelJob(n) PROVE StartsNone \/ StartsOne
  OBVIOUS
<1> DEFINE st == [j \in Job |-> IF j \in Entry(n) THEN "CANCELLED" ELSE state[j]]
<1>2. TypeOK /\ IdsFollowAllocation /\ QueueAgreesWithTable
  BY <1>1 DEF JobInv
<1>3. Entry(n) = {n} /\ n \in Job
  BY <1>1, <1>2, EntryIsJob, JobInvParts DEF CancelJob
<1>4. Promote(active \ Entry(n), Unqueue(n), st, worker)
  BY <1>1 DEF CancelJob
<1>5. st \in [Job -> JobState] /\ worker \in [Job -> Worker]
  BY <1>2 DEF TypeOK, JobState
<1>6. (\A p \in Job : p # n => st[p] = state[p]) /\ st[n] = "CANCELLED"
  BY <1>3
<1> HIDE DEF st
<1>7. QED BY <1>1, <1>3, <1>4, <1>5, <1>6, WithdrawStarts

\* Every step of the system starts nobody or fills one slot.
LEMMA StepStarts == JobInv /\ [Next]_vars => StartsNone \/ StartsOne
<1>1. SUFFICES ASSUME JobInv, [Next]_vars PROVE StartsNone \/ StartsOne
  OBVIOUS
<1>2. active \subseteq Job
  BY <1>1 DEF JobInv, TypeOK
<1>3. CASE UNCHANGED <<active, state, worker>>
  BY <1>3 DEF StartsNone, Running
<1>4. CASE CreateJob
  BY <1>1, <1>4, CreateJobStarts
<1>5. CASE \E n \in JobID : CancelJob(n)
  BY <1>1, <1>5, CancelJobStarts
<1>6. CASE \E o \in Job : FinishJob(o)
  BY <1>1, <1>6, FinishJobStarts
<1>7. CASE CancelAllJobs
  BY <1>7 DEF CancelAllJobs, StartsNone, Running
<1>8. ASSUME NEW o \in Job, EndTransfer(o) \/ SendJobFailure(o) \/ ReportFailure(o)
      PROVE  StartsNone
  <2>1. /\ worker[o] # "none" /\ \A p \in Job : p # o => worker'[p] = worker[p]
        /\ UNCHANGED <<active, state>>
    BY <1>1, <1>8
    DEF EndTransfer, TransferSucceeds, TransferFails, TransferCancelled,
        SendJobFailure, ReportFailure, JobInv, TypeOK
  <2>2. Running(active', state') \subseteq Running(active, state)
    BY <2>1
  <2>3. QED BY <2>1, <2>2 DEF StartsNone
<1>9. CASE \/ \E n \in Reloads : SetMaxConcurrency(n)
           \/ SaveStateNow
           \/ \E o \in Job : CallerDone(o)
           \/ UNCHANGED vars
  BY <1>3, <1>9 DEF SetMaxConcurrency, SaveStateNow, CallerDone, vars
<1>10. QED
  BY <1>1, <1>4, <1>5, <1>6, <1>7, <1>8, <1>9 DEF Next, Command, WorkerStep

\* Finitely many jobs: what runs can be counted.
LEMMA RunningCount ==
  ASSUME JobInv
  PROVE  /\ IsFiniteSet(Running(active, state))
         /\ Cardinality(Running(active, state)) \in Nat
         /\ maxConcurrency \in Nat \ {0}
         /\ Running(active, state) \subseteq Job
<1>1. IsFiniteSet(Job)
  BY FS_Interval, JobManagerAssumption DEF Job
<1>2. Running(active, state) \subseteq Job /\ maxConcurrency \in Nat \ {0}
  BY DEF Running, JobInv, TypeOK
<1>3. IsFiniteSet(Running(active, state))
  BY <1>1, <1>2, FS_Subset
<1>4. QED BY <1>2, <1>3, FS_CardinalityType
-----------------------------------------------------------------------------
(* What the steps start, as theorems. *)

\* A job cancelled while it waits in the queue is never executed.
THEOREM CancelledStaysOut == Spec => CancelledNeverStarts
<1> DEFINE Step ==
      \A o \in Job : worker[o] = "none" /\ worker'[o] # "none" =>
                       state[o] # "CANCELLED" /\ state'[o] = "RUNNING"
<1>1. StartsNone => Step
  BY DEF StartsNone
<1>2. StartsOne => Step
  BY DEF StartsOne, Starts
<1>3. JobInv /\ [Next]_vars => Step
  BY <1>1, <1>2, StepStarts
<1>4. QED BY <1>3, Invariance, PTL DEF Spec, CancelledNeverStarts

\* A step starts one job at most, and never beyond max_concurrency.
THEOREM StartsRespectLimit == Spec => StartsWithinLimit
<1> DEFINE started == Running(active', state') \ Running(active, state)
           Step == started # {} =>
                     /\ Cardinality(started) = 1
                     /\ Cardinality(Running(active', state')) <= maxConcurrency
<1>1. StartsNone => Step
  BY DEF StartsNone
<1>2. ASSUME JobInv, NEW h \in Job, NEW kept \in SUBSET Running(active, state),
             Starts(h, kept)
      PROVE  Step
  <2>1. started = {h}
    BY <1>2 DEF Starts, Running
  <2>2. Cardinality(started) = 1
    BY <2>1, FS_Singleton
  <2>3. IsFiniteSet(kept)
    BY <1>2, RunningCount, FS_Subset
  <2>4. Cardinality(kept) \in Nat /\ maxConcurrency \in Nat
    BY <1>2, <2>3, FS_CardinalityType DEF JobInv, TypeOK
  <2>5. h \notin kept
    BY <1>2 DEF Starts, Running
  <2>6. Cardinality(kept \cup {h}) = Cardinality(kept) + 1
    BY <2>3, <2>5, FS_AddElement
  <2>7. Cardinality(Running(active', state')) <= maxConcurrency
    BY <1>2, <2>4, <2>6 DEF Starts
  <2>8. QED BY <2>2, <2>7
<1> HIDE DEF Step
<1>3. JobInv /\ [Next]_vars => Step
  BY <1>1, <1>2, StepStarts DEF StartsOne
<1>4. QED BY <1>3, Invariance, PTL DEF Spec, StartsWithinLimit, Step
-----------------------------------------------------------------------------
(* What the database says of the jobs: after each method the rows agree     *)
(* with the table, because saveStateLocked ends every method that changes   *)
(* it, and a finished job's row is never written again.                     *)

\* RowsFollowTable without the keys.
JobRows ==
  \A o \in Job :
    /\ o \in active => \/ row[o] = Lower[state[o]]
                       \/ row[o] = "failed" /\ worker[o] = "returning"
    /\ state[o] = "COMPLETED" => row[o] = "completed"
-----------------------------------------------------------------------------
(* What saveStateLocked writes. *)

\* saveStateLocked finds at most one job for a key: job n, if the table has it.
LEMMA SavedAsIsJob ==
  ASSUME JobInv', NEW n \in JobID
  PROVE  SavedAs(n) = active' \cap {n}
<1>1. TypeOK' /\ IdsFollowAllocation' /\ QueueAgreesWithTable'
  BY DEF JobInv
<1>2. \A o \in ToSet(queue') : o \in active'
  <2>1. \A o \in ToSet(queue') : o \in Job
    BY <1>1, ElementOfSeq, LenProperties DEF TypeOK, ToSet
  <2>2. QED BY <1>1, <2>1 DEF QueueAgreesWithTable
<1>3. \A o \in active' : o \in Job /\ id'[o] = o
  <2>1. \A o \in active' : o \in Job /\ state'[o] # "none"
    BY <1>1 DEF TypeOK, QueueAgreesWithTable
  <2>2. \A o \in active' : o <= allocated'
    BY <1>1, <2>1, JobIsNat DEF TypeOK, IdsFollowAllocation
  <2>3. QED BY <1>1, <2>1, <2>2 DEF IdsFollowAllocation
<1>4. {o \in active' : id'[o] = n} = active' \cap {n}
  BY <1>3
<1>5. {o \in ToSet(queue') : id'[o] = n} \subseteq active' \cap {n}
  BY <1>2, <1>3
<1> DEFINE inQueue == {o \in ToSet(queue') : id'[o] = n}
<1>6. inQueue # {} => inQueue = {n} /\ active' \cap {n} = {n}
  BY <1>5
<1>7. {o \in inQueue : \A p \in inQueue : p <= o} = inQueue
  <2>1. n <= n
    BY DEF JobID
  <2> HIDE DEF inQueue
  <2> QED BY <1>6, <2>1
<1>8. SavedAs(n) = IF inQueue # {} THEN {o \in inQueue : \A p \in inQueue : p <= o}
                   ELSE {o \in active' : id'[o] = n}
  BY DEF SavedAs
<1> HIDE DEF inQueue
<1>9. QED BY <1>4, <1>6, <1>7, <1>8

\* Rows of the table's jobs take their states; all other rows stay.
LEMMA SaveWritesTable ==
  ASSUME JobInv', NEW rows, SaveState(rows), NEW n \in JobID
  PROVE  row'[n] = IF n \in active' THEN Lower[state'[n]] ELSE rows[n]
<1>1. SavedAs(n) = active' \cap {n}
  BY SavedAsIsJob
<1>2. row'[n] = IF SavedAs(n) = {} THEN rows[n]
                ELSE Lower[state'[CHOOSE o \in SavedAs(n) : TRUE]]
  BY DEF SaveState
<1>3. CASE n \in active'
  <2>1. SavedAs(n) = {n}
    BY <1>1, <1>3
  <2>2. (CHOOSE o \in {n} : TRUE) = n
    OBVIOUS
  <2>3. QED BY <1>2, <1>3, <2>1, <2>2
<1>4. CASE n \notin active'
  BY <1>1, <1>2, <1>4
<1>5. QED BY <1>3, <1>4

\* RowsFollowTable in terms of jobs alone: a job's key is its number.
LEMMA RowsOfJobs == JobInv => (RowsFollowTable <=> JobRows)
<1>1. SUFFICES ASSUME JobInv PROVE RowsFollowTable <=> JobRows
  OBVIOUS
<1>2. TypeOK /\ IdsFollowAllocation /\ QueueAgreesWithTable
  BY <1>1 DEF JobInv
<1>3. \A o \in Job : state[o] # "none" => id[o] = o
  BY <1>2, JobIsNat DEF TypeOK, IdsFollowAllocation
<1>4. \A o \in active : o \in Job /\ id[o] = o
  BY <1>2, <1>3 DEF TypeOK, QueueAgreesWithTable
<1>5. QED BY <1>3, <1>4 DEF RowsFollowTable, JobRows

\* The same of the state after a step.
LEMMA RowsOfJobsNext == JobInv' => (RowsFollowTable' <=> JobRows')
BY RowsOfJobs, PTL
-----------------------------------------------------------------------------
(* The steps. *)

\* A method that saves at its end leaves the rows right, if those it finds
\* hold "completed" for every job that is completed when it ends.
LEMMA SavingKeepsRows ==
  ASSUME JobInv', NEW rows, SaveState(rows),
         \A o \in Job : state'[o] = "COMPLETED" => rows[o] = "completed"
  PROVE  JobRows'
<1>1. ASSUME NEW o \in Job, o \in active' PROVE row'[o] = Lower[state'[o]]
  BY <1>1, SaveWritesTable DEF Job, JobID
<1>2. ASSUME NEW o \in Job, state'[o] = "COMPLETED" PROVE row'[o] = "completed"
  <2>1. o \notin active'
    BY <1>2 DEF JobInv, QueueAgreesWithTable
  <2>2. QED BY <1>2, <2>1, SaveWritesTable DEF Job, JobID
<1>3. QED BY <1>1, <1>2 DEF JobRows

\* The methods that finish no job.
LEMMA MethodKeepsRows ==
  ASSUME JobRows, JobInv', SaveState(row),
         \A o \in Job : state'[o] = "COMPLETED" => state[o] = "COMPLETED"
  PROVE  JobRows'
BY SavingKeepsRows DEF JobRows

\* Promote turns no job into a completed one.
LEMMA PromoteCompletesNone ==
  ASSUME NEW table, NEW q, NEW st \in [Job -> JobState], NEW w, Promote(table, q, st, w)
  PROVE  \A o \in Job : state'[o] = "COMPLETED" => st[o] = "COMPLETED"
BY DEF Promote

\* CreateJob leaves the rows right, the new job's own included.
LEMMA CreateJobKeepsRows == JobInv /\ JobInv' /\ JobRows /\ CreateJob => JobRows'
<1>1. SUFFICES ASSUME JobInv, JobInv', JobRows, CreateJob PROVE JobRows'
  OBVIOUS
<1>2. state \in [Job -> JobState]
  BY <1>1 DEF JobInv, TypeOK
<1>3. SaveState(row) /\ \A o \in Job : state'[o] = "COMPLETED" => state[o] = "COMPLETED"
  BY <1>1, <1>2 DEF CreateJob, Admit
<1>4. QED BY <1>1, <1>3, MethodKeepsRows

\* CompleteJob and the save after it finish one job's row and keep the others.
LEMMA FinishJobKeepsRows ==
  ASSUME NEW o \in Job PROVE JobInv /\ JobInv' /\ JobRows /\ FinishJob(o) => JobRows'
<1>1. SUFFICES ASSUME JobInv, JobInv', JobRows, FinishJob(o) PROVE JobRows'
  OBVIOUS
<1> DEFINE st == [j \in Job |-> IF j \in Entry(o) THEN "COMPLETED" ELSE state[j]]
           w == [worker EXCEPT ![o] = "done"]
           rows == IF Entry(o) = {} THEN row ELSE CompleteRow(row, o, "completed")
<1>2. TypeOK /\ IdsFollowAllocation /\ QueueAgreesWithTable /\ SlotsHaveWorkers
  BY <1>1 DEF JobInv
<1>3. worker[o] = "returning" /\ id[o] = o /\ o \in JobID
  BY <1>1, JobInvParts DEF FinishJob, Job, JobID
<1>4. Entry(o) = active \cap {o}
  BY <1>2, <1>3, EntryIsJob
<1>5. Promote(active \ Entry(o), Unqueue(o), st, w) /\ SaveState(rows)
  BY <1>1, <1>3 DEF FinishJob
<1>6. st \in [Job -> JobState] /\ row \in [JobID -> RowStatus]
  BY <1>2 DEF TypeOK, JobState
<1>7. \A p \in Job : state'[p] = "COMPLETED" => st[p] = "COMPLETED"
  BY <1>5, <1>6, PromoteCompletesNone
<1>8. ASSUME NEW p \in Job, st[p] = "COMPLETED" PROVE rows[p] = "completed"
  <2>1. CASE p \in Entry(o)
    <3>1. p = o /\ o \in active
      BY <1>4, <2>1
    <3>2. state[o] = "RUNNING"
      BY <1>2, <1>3 , <3>1 DEF QueueAgreesWithTable, SlotsHaveWorkers
    <3>3. row[o] = "running" \/ row[o] = "failed"
      BY <1>1, <3>1, <3>2 DEF JobRows, Lower
    <3>4. QED BY <1>3, <1>6, <2>1, <3>1, <3>3 DEF CompleteRow
  <2>2. CASE p \notin Entry(o)
    <3>1. state[p] = "COMPLETED" /\ row[p] = "completed"
      BY <1>1, <1>8, <2>2 DEF JobRows
    <3>2. QED BY <1>3, <1>6, <3>1 DEF CompleteRow
  <2>3. QED BY <2>1, <2>2
<1> HIDE DEF st, w, rows
<1>9. QED BY <1>1, <1>5, <1>7, <1>8, SavingKeepsRows

\* CancelJob leaves the rows of the table right, the started job's included.
LEMMA CancelJobKeepsRows ==
  ASSUME NEW n \in JobID PROVE JobInv /\ JobInv' /\ JobRows /\ CancelJob(n) => JobRows'
<1>1. SUFFICES ASSUME JobInv, JobInv', JobRows, CancelJob(n) PROVE JobRows'
  OBVIOUS
<1> DEFINE st == [j \in Job |-> IF j \in Entry(n) THEN "CANCELLED" ELSE state[j]]
<1>2. Promote(active \ Entry(n), Unqueue(n), st, worker) /\ SaveState(row)
  BY <1>1 DEF CancelJob
<1>3. st \in [Job -> JobState]
  BY <1>1 DEF JobInv, TypeOK, JobState
<1>4. \A p \in Job : st[p] = "COMPLETED" => state[p] = "COMPLETED"
  OBVIOUS
<1> HIDE DEF st
<1>5. \A p \in Job : state'[p] = "COMPLETED" => state[p] = "COMPLETED"
  BY <1>2, <1>3, <1>4, PromoteCompletesNone
<1>6. QED BY <1>1, <1>2, <1>5, MethodKeepsRows

\* ReportFailure writes the row of a job that is then about to return.
LEMMA ReportFailureKeepsRows ==
  ASSUME NEW o \in Job
  PROVE  JobInv /\ JobRows /\ ReportFailure(o) => JobRows'
<1>1. SUFFICES ASSUME JobInv, JobRows, ReportFailure(o) PROVE JobRows'
  OBVIOUS
<1>2. TypeOK /\ SlotsHaveWorkers
  BY <1>1 DEF JobInv
<1>3. worker[o] = "reporting" /\ id[o] = o /\ o \in JobID
  BY <1>1, JobInvParts DEF ReportFailure, Job, JobID
<1>4. /\ worker' = [worker EXCEPT ![o] = "returning"]
      /\ row' = CompleteRow(row, o, "failed")
      /\ UNCHANGED <<active, state>>
  BY <1>1, <1>3 DEF ReportFailure
<1>5. \A p \in Job : p # o => worker'[p] = worker[p] /\ row'[p] = row[p]
  BY <1>2, <1>3, <1>4 DEF TypeOK, CompleteRow
<1>6. worker'[o] = "returning" /\ (row'[o] = "failed" \/ row'[o] = row[o])
  BY <1>2, <1>3, <1>4 DEF TypeOK, CompleteRow
<1>7. state[o] # "COMPLETED"
  BY <1>2, <1>3 DEF SlotsHaveWorkers
<1>8. QED BY <1>1, <1>4, <1>5, <1>6, <1>7 DEF JobRows

\* Every step keeps JobRows beside JobInv.
LEMMA JobRowsStep == JobInv /\ JobInv' /\ JobRows /\ [Next]_vars => JobRows'
<1>1. SUFFICES ASSUME JobInv, JobInv', JobRows, [Next]_vars PROVE JobRows'
  OBVIOUS
<1>2. CASE CreateJob
  BY <1>1, <1>2, CreateJobKeepsRows
<1>3. CASE \E n \in JobID : CancelJob(n)
  BY <1>1, <1>3, CancelJobKeepsRows
<1>4. CASE CancelAllJobs \/ SaveStateNow
  <2>1. SaveState(row) /\ \A o \in Job : state'[o] = "COMPLETED" => state[o] = "COMPLETED"
    BY <1>4 DEF CancelAllJobs, SaveStateNow
  <2>2. QED BY <1>1, <2>1, MethodKeepsRows
<1>5. CASE \E o \in Job : FinishJob(o)
  BY <1>1, <1>5, FinishJobKeepsRows
<1>6. CASE \E o \in Job : ReportFailure(o)
  BY <1>1, <1>6, ReportFailureKeepsRows
<1>7. ASSUME NEW o \in Job, EndTransfer(o) \/ SendJobFailure(o) PROVE JobRows'
  <2>1. /\ worker[o] # "returning" /\ UNCHANGED <<active, state, row>>
        /\ \A p \in Job : p # o => worker'[p] = worker[p]
    BY <1>1, <1>7
    DEF EndTransfer, TransferSucceeds, TransferFails, TransferCancelled,
        SendJobFailure, JobInv, TypeOK
  <2>2. QED BY <1>1, <2>1 DEF JobRows
<1>8. CASE UNCHANGED <<active, state, worker, row>>
  BY <1>1, <1>8 DEF JobRows
<1>9. CASE \/ \E n \in Reloads : SetMaxConcurrency(n)
           \/ \E o \in Job : CallerDone(o)
           \/ UNCHANGED vars
  BY <1>8, <1>9 DEF SetMaxConcurrency, CallerDone, vars
<1>10. QED
  BY <1>1, <1>2, <1>3, <1>4, <1>5, <1>6, <1>7, <1>9 DEF Next, Command, WorkerStep

\* No rows and no jobs at the start.
LEMMA JobRowsInit == Init => JobRows
BY DEF Init, JobRows
-----------------------------------------------------------------------------
(* What the rows say, as a theorem. *)

\* The row of every job of the table says what the table says, but for a
\* failure already reported, and a finished job's row stays "completed".
THEOREM RowsAreRight == Spec => []RowsFollowTable
<1>1. Init => JobInv /\ JobRows
  BY JobInvInit, JobRowsInit
<1>2. JobInv /\ JobRows /\ [Next]_vars => (JobInv /\ JobRows)'
  BY JobInvStep, JobRowsStep
<1>3. JobInv /\ JobRows => RowsFollowTable
  BY RowsOfJobs
<1>4. QED BY <1>1, <1>2, <1>3, PTL DEF Spec
-----------------------------------------------------------------------------
(* The pool.  Without /reload no slot is idle in front of a queue, and each *)
(* method is one operation of JobPool.                                     *)

\* As many jobs run as may run, if any job waits.
PoolFull ==
  /\ Cardinality(Running(active, state)) <= maxConcurrency
  /\ WorkConserving

\* Operators that JobPool took from the library are the ones used here.
LEMMA PoolOperators ==
  ASSUME NEW s, NEW x
  PROVE  /\ Pool!Cardinality(s) = Cardinality(s)
         /\ Pool!RemoveAt(s, x) = RemoveAt(s, x)
         /\ Pool!Contains(s, x) = Contains(s, x)
<1>1. Pool!Cardinality(s) = Cardinality(s)
  BY DEF Pool!Cardinality, Cardinality
<1>2. Pool!RemoveAt(s, x) = RemoveAt(s, x)
  BY DEF Pool!RemoveAt, RemoveAt
<1>3. Pool!Contains(s, x) = Contains(s, x)
  BY DEF Pool!Contains, Contains
<1>4. QED BY <1>1, <1>2, <1>3

\* Settle and Arrive of JobPool in the variables of JobManager.
LEMMA PoolMeans ==
  /\ \A r, w : Pool!Settle(r, w) <=>
       /\ IF w # <<>> /\ Cardinality(r) < maxConcurrency
            THEN Running(active', state') = r \cup {Head(w)} /\ queue' = Tail(w)
            ELSE Running(active', state') = r /\ queue' = w
       /\ maxConcurrency' = maxConcurrency
  /\ \A j : Pool!Arrive(j) <=>
       /\ j \notin Running(active, state) /\ ~ Contains(queue, j)
       /\ IF queue = <<>> /\ Cardinality(Running(active, state)) < maxConcurrency
            THEN /\ Running(active', state') = Running(active, state) \cup {j}
                 /\ queue' = queue
            ELSE /\ queue' = Append(queue, j)
                 /\ Running(active', state') = Running(active, state)
       /\ maxConcurrency' = maxConcurrency
<1>1. Running(active, state)' = Running(active', state')
  BY DEF Running
<1>2. ASSUME NEW r, NEW w
      PROVE  Pool!Settle(r, w) <=>
               /\ IF w # <<>> /\ Cardinality(r) < maxConcurrency
                    THEN Running(active', state') = r \cup {Head(w)} /\ queue' = Tail(w)
                    ELSE Running(active', state') = r /\ queue' = w
               /\ maxConcurrency' = maxConcurrency
  BY <1>1, PoolOperators DEF Pool!Settle
<1>3. ASSUME NEW j
      PROVE  Pool!Arrive(j) <=>
       /\ j \notin Running(active, state) /\ ~ Contains(queue, j)
       /\ IF queue = <<>> /\ Cardinality(Running(active, state)) < maxConcurrency
            THEN /\ Running(active', state') = Running(active, state) \cup {j}
                 /\ queue' = queue
            ELSE /\ queue' = Append(queue, j)
                 /\ Running(active', state') = Running(active, state)
       /\ maxConcurrency' = maxConcurrency
  BY <1>1, PoolOperators DEF Pool!Arrive
<1>4. QED BY <1>2, <1>3

\* What Promote does to the slots and the queue is what Settle says.
LEMMA PromoteSettles ==
  ASSUME NEW table \in SUBSET Job, NEW q \in Seq(Job), NEW st \in [Job -> JobState],
         NEW w, Agree(table, q, st), Promote(table, q, st, w),
         maxConcurrency' = maxConcurrency
  PROVE  Pool!Settle(Running(table, st), q)
<1>1. CASE HasSlot(table, st) /\ q # <<>>
  <2>1. active' = table /\ queue' = Tail(q) /\ state' = [st EXCEPT ![Head(q)] = "RUNNING"]
    BY <1>1 DEF Promote
  <2>2. Head(q) \in Job /\ Head(q) \in ToSet(q)
    BY <1>1, TailRemovesHead DEF Agree
  <2>3. Head(q) \in table
    BY <2>2 DEF Agree
  <2>4. Running(active', state') = Running(table, st) \cup {Head(q)}
    BY <2>1, <2>2, <2>3 DEF Running
  <2>5. QED BY <1>1, <2>1, <2>4, PoolMeans DEF HasSlot
<1>2. CASE ~ (HasSlot(table, st) /\ q # <<>>)
  <2>1. active' = table /\ queue' = q /\ state' = st
    BY <1>2 DEF Promote
  <2>2. QED BY <1>2, <2>1, PoolMeans DEF HasSlot
<1>3. QED BY <1>1, <1>2

\* The tail of FinishJob and CancelJob is a job's leaving or withdrawing, or
\* nothing but Settle when the job was gone before.
LEMMA WithdrawIsPoolStep ==
  ASSUME JobInv, NEW n \in Job, NEW st \in [Job -> JobState], NEW w,
         \A o \in Job : o # n => st[o] = state[o],
         st[n] \notin {"QUEUED", "RUNNING"},
         Promote(active \ Entry(n), Unqueue(n), st, w),
         maxConcurrency' = maxConcurrency
  PROVE  \/ Pool!Leave(n)
         \/ \E k \in DOMAIN queue : Pool!Withdraw(k)
         \/ Pool!Fill
<1> DEFINE table == active \ {n}
           q == Unqueue(n)
<1>1. /\ TypeOK /\ IdsFollowAllocation /\ QueueAgreesWithTable /\ n \in JobID
      /\ Agree(active, queue, state)
  BY JobInvParts DEF JobInv, Job, JobID
<1>2. active \ Entry(n) = table /\ table \subseteq Job
  BY <1>1, EntryIsJob DEF TypeOK
<1>3. /\ q \in Seq(Job) /\ Increasing(q) /\ ToSet(q) = ToSet(queue) \ {n}
      /\ \/ n \notin ToSet(queue) /\ q = queue
         \/ \E k \in DOMAIN queue : queue[k] = n /\ q = RemoveAt(queue, k)
  BY <1>1, UnqueueRemovesId
<1>4. Agree(table, q, st)
  BY <1>1, <1>3 DEF Agree
<1>5. Running(table, st) = Running(active, state) \ {n}
  BY <1>1, <1>2 DEF Running, Agree, TypeOK
<1>6. Promote(table, q, st, w)
  BY <1>2
<1> HIDE DEF q, table
<1>7. Pool!Settle(Running(table, st), q)
  BY <1>2, <1>3, <1>4, <1>6, PromoteSettles
<1>8. CASE n \in ToSet(queue)
  <2>1. PICK k \in DOMAIN queue : queue[k] = n /\ q = RemoveAt(queue, k)
    BY <1>3, <1>8
  <2>2. n \notin Running(active, state)
    BY <1>1, <1>8 DEF Agree, Running
  <2>3. Running(table, st) = Running(active, state)
    BY <1>5, <2>2
  <2>4. Pool!Withdraw(k)
    BY <1>7, <2>1, <2>3, PoolOperators DEF Pool!Withdraw
  <2>5. QED BY <2>4
<1>9. CASE n \notin ToSet(queue)
  <2>1. q = queue
    <3>1. \A k \in DOMAIN queue : queue[k] # n
      BY <1>9, InToSet
    <3>2. QED BY <1>3, <3>1
  <2>2. CASE n \in Running(active, state)
    BY <1>5, <1>7, <2>1, <2>2 DEF Pool!Leave
  <2>3. CASE n \notin Running(active, state)
    BY <1>5, <1>7, <2>1, <2>3 DEF Pool!Fill
  <2>4. QED BY <2>2, <2>3
<1>10. QED BY <1>8, <1>9

\* A new job arrives at the pool; it never overtakes, as whoever waits finds
\* every slot taken.
LEMMA CreateJobArrives ==
  ASSUME JobInv, WorkConserving, CreateJob
  PROVE  \E j \in Job : Pool!Arrive(j)
<1> DEFINE o == allocated + 1
<1>1. TypeOK /\ IdsFollowAllocation /\ QueueAgreesWithTable
  BY DEF JobInv
<1>2. /\ o \in Job /\ o \in JobID /\ o > allocated /\ jobCounter' = o
      /\ state[o] = "none"
  BY <1>1, JobManagerAssumption DEF CreateJob, TypeOK, IdsFollowAllocation, Job, JobID
<1>3. o \notin active /\ o \notin ToSet(queue)
  BY <1>1, <1>2 DEF QueueAgreesWithTable
<1>4. active \ Entry(o) = active /\ active \subseteq Job
  BY <1>1, <1>2, <1>3, EntryIsJob DEF TypeOK
<1>5. Admit(o, o) /\ maxConcurrency' = maxConcurrency
  BY <1>2 DEF CreateJob, Admit
<1>6. active' = active \cup {o}
  BY <1>4, <1>5 DEF Admit
<1> HIDE DEF o
<1>7. o \notin Running(active, state) /\ ~ Contains(queue, o)
  <2>1. ~ Contains(queue, o)
    BY <1>3 DEF Contains, ToSet
  <2>2. QED BY <1>3, <2>1 DEF Running
<1>8. CASE HasSlot(active, state)
  <2>1. queue' = queue /\ state' = [state EXCEPT ![o] = "RUNNING"]
    BY <1>4, <1>5, <1>8 DEF Admit
  <2>2. Running(active', state') = Running(active, state) \cup {o}
    BY <1>1, <1>2, <1>3, <1>4, <1>6, <2>1 DEF Running, TypeOK
  <2>3. queue = <<>>
    BY <1>8, RunningCount DEF WorkConserving, HasSlot
  <2>4. Pool!Arrive(o)
    BY <1>5, <1>7, <1>8, <2>1, <2>2, <2>3, PoolMeans DEF HasSlot
  <2>5. QED BY <1>2, <2>4
<1>9. CASE ~ HasSlot(active, state)
  <2>1. queue' = Append(queue, o) /\ state' = [state EXCEPT ![o] = "QUEUED"]
    BY <1>4, <1>5, <1>9 DEF Admit
  <2>2. Running(active', state') = Running(active, state)
    BY <1>1, <1>2, <1>3, <1>4, <1>6, <2>1 DEF Running, TypeOK
  <2>3. Pool!Arrive(o)
    BY <1>5, <1>7, <1>9, <2>1, <2>2, PoolMeans DEF HasSlot
  <2>4. QED BY <1>2, <2>3
<1>10. QED BY <1>8, <1>9

\* The steps of the pool that leave its limit alone.
PoolStep ==
  \/ \E j \in Job : Pool!Arrive(j) \/ Pool!Leave(j)
  \/ \E k \in DOMAIN queue : Pool!Withdraw(k)
  \/ Pool!Fill
  \/ Pool!Clear
  \/ UNCHANGED <<maxConcurrency, Running(active, state), queue>>

\* Every step of the job manager is a step of the pool or no step.
LEMMA StepIsPoolStep ==
  ASSUME Reloads = {}, JobInv, WorkConserving, [Next]_vars PROVE PoolStep
<1>1. TypeOK /\ IdsFollowAllocation /\ QueueAgreesWithTable
  BY DEF JobInv
<1>2. CASE CreateJob
  BY <1>2, CreateJobArrives DEF PoolStep
<1>3. ASSUME NEW n \in JobID, CancelJob(n) PROVE PoolStep
  <2> DEFINE st == [j \in Job |-> IF j \in Entry(n) THEN "CANCELLED" ELSE state[j]]
  <2>1. Entry(n) = {n} /\ n \in Job
    BY <1>1, <1>3, EntryIsJob, JobInvParts DEF CancelJob
  <2>2. /\ Promote(active \ Entry(n), Unqueue(n), st, worker)
        /\ maxConcurrency' = maxConcurrency
    BY <1>3 DEF CancelJob
  <2>3. st \in [Job -> JobState]
    BY <1>1 DEF TypeOK, JobState
  <2>4. (\A p \in Job : p # n => st[p] = state[p]) /\ st[n] = "CANCELLED"
    BY <2>1
  <2> HIDE DEF st
  <2>5. QED BY <2>1, <2>2, <2>3, <2>4, WithdrawIsPoolStep DEF PoolStep
<1>4. ASSUME NEW o \in Job, FinishJob(o) PROVE PoolStep
  <2> DEFINE st == [j \in Job |-> IF j \in Entry(o) THEN "COMPLETED" ELSE state[j]]
             w == [worker EXCEPT ![o] = "done"]
  <2>1. worker[o] = "returning" /\ id[o] = o /\ o \in JobID
    BY <1>4, JobInvParts DEF FinishJob, Job, JobID
  <2>2. Entry(o) = active \cap {o}
    BY <1>1, <2>1, EntryIsJob
  <2>3. /\ Promote(active \ Entry(o), Unqueue(o), st, w)
        /\ maxConcurrency' = maxConcurrency
    BY <1>4, <2>1 DEF FinishJob
  <2>4. st \in [Job -> JobState] /\ \A p \in Job : p # o => st[p] = state[p]
    BY <1>1, <2>2 DEF TypeOK, JobState
  <2>5. st[o] \notin {"QUEUED", "RUNNING"}
    BY <1>1, <2>2 DEF QueueAgreesWithTable
  <2> HIDE DEF st, w
  <2>6. QED BY <2>3, <2>4, <2>5, WithdrawIsPoolStep DEF PoolStep
<1>5. CASE CancelAllJobs
  BY <1>5 DEF CancelAllJobs, PoolStep, Pool!Clear, Running
<1>6. ASSUME UNCHANGED <<maxConcurrency, active, queue, state>> PROVE PoolStep
  BY <1>6 DEF PoolStep, Running
<1>7. ASSUME NEW o \in Job, EndTransfer(o) \/ SendJobFailure(o) \/ ReportFailure(o)
      PROVE  PoolStep
  BY <1>6, <1>7 DEF EndTransfer, TransferSucceeds, TransferFails, TransferCancelled,
                    SendJobFailure, ReportFailure
<1>8. CASE SaveStateNow \/ (\E o \in Job : CallerDone(o)) \/ UNCHANGED vars
  BY <1>6, <1>8 DEF SaveStateNow, CallerDone, vars
<1>9. QED
  BY <1>2, <1>3, <1>4, <1>5, <1>7, <1>8 DEF Next, Command, WorkerStep

\* Settle fills the slot that is free, and a slot at most is free.
LEMMA SettleFills ==
  ASSUME JobInv, NEW r \in SUBSET Job, IsFiniteSet(r), NEW q \in Seq(Job),
         Cardinality(r) <= maxConcurrency, ToSet(q) \cap r = {},
         q # <<>> => Cardinality(r) + 1 >= maxConcurrency,
         Pool!Settle(r, q)
  PROVE  PoolFull'
<1> DEFINE run == Cardinality(Running(active', state'))
           c == Cardinality(r)
<1>1. c \in Nat /\ maxConcurrency \in Nat \ {0} /\ maxConcurrency' = maxConcurrency
  BY FS_CardinalityType, RunningCount, PoolMeans
<1>2. CASE q # <<>> /\ c < maxConcurrency
  <2>1. Running(active', state') = r \cup {Head(q)}
    BY <1>2, PoolMeans
  <2>2. Head(q) \notin r
    <3>1. 1 \in DOMAIN q /\ Head(q) = q[1]
      BY <1>2, EmptySeq, LenProperties, HeadTailProperties
    <3>2. Head(q) \in ToSet(q)
      BY <3>1, InToSet
    <3>3. QED BY <3>2
  <2>3. run = c + 1
    BY <2>1, <2>2, FS_AddElement
  <2> HIDE DEF run, c
  <2>4. run = maxConcurrency'
    BY <1>1, <1>2, <2>3 DEF c
  <2>5. QED BY <1>1, <2>4 DEF PoolFull, WorkConserving, run
<1>3. CASE ~(q # <<>> /\ c < maxConcurrency)
  <2>1. Running(active', state') = r /\ queue' = q
    BY <1>3, PoolMeans
  <2>2. q # <<>> => c = maxConcurrency
    BY <1>1, <1>3
  <2>3. QED BY <1>1, <2>1, <2>2 DEF PoolFull, WorkConserving
<1>4. QED BY <1>2, <1>3

\* A step of the pool leaves no slot idle in front of its queue.
LEMMA PoolStepKeepsFull == ASSUME JobInv, PoolFull, PoolStep PROVE PoolFull'
<1> DEFINE r == Running(active, state)
<1>1. /\ IsFiniteSet(r) /\ Cardinality(r) \in Nat /\ maxConcurrency \in Nat \ {0}
      /\ r \subseteq Job /\ Cardinality(r) <= maxConcurrency
      /\ queue # <<>> => Cardinality(r) = maxConcurrency
  BY RunningCount DEF PoolFull, WorkConserving
<1>2. /\ queue \in Seq(Job) /\ Increasing(queue) /\ ToSet(queue) \subseteq Job
      /\ ToSet(queue) \cap r = {}
  <2>1. queue \in Seq(Job) /\ Agree(active, queue, state)
    BY JobInvParts DEF JobInv, TypeOK
  <2>2. \A o \in ToSet(queue) : o \in Job
    BY JobInvParts
  <2>3. QED BY <2>1, <2>2 DEF Agree, Running
<1>3. ASSUME NEW j \in Job, Pool!Arrive(j) PROVE PoolFull'
  <2>1. j \notin r /\ maxConcurrency' = maxConcurrency
    BY <1>3, PoolMeans
  <2>2. CASE queue = <<>> /\ Cardinality(r) < maxConcurrency
    <3>1. Running(active', state') = r \cup {j} /\ queue' = <<>>
      BY <1>3, <2>2, PoolMeans
    <3>2. Cardinality(Running(active', state')) = Cardinality(r) + 1
      BY <1>1, <2>1, <3>1, FS_AddElement
    <3> HIDE DEF r
    <3>3. QED BY <1>1, <2>1, <2>2, <3>1, <3>2 DEF PoolFull, WorkConserving
  <2>3. CASE ~(queue = <<>> /\ Cardinality(r) < maxConcurrency)
    <3>1. Running(active', state') = r
      BY <1>3, <2>3, PoolMeans
    <3>2. Cardinality(r) = maxConcurrency
      BY <1>1, <2>3
    <3>3. QED BY <1>1, <2>1, <3>1, <3>2 DEF PoolFull, WorkConserving
  <2>4. QED BY <2>2, <2>3
<1>4. ASSUME NEW j \in Job, Pool!Leave(j) PROVE PoolFull'
  <2>1. j \in r /\ Pool!Settle(r \ {j}, queue)
    BY <1>4 DEF Pool!Leave
  <2>2. IsFiniteSet(r \ {j}) /\ Cardinality(r \ {j}) = Cardinality(r) - 1
    BY <1>1, <2>1, FS_RemoveElement
  <2>3. /\ Cardinality(r \ {j}) <= maxConcurrency
        /\ queue # <<>> => Cardinality(r \ {j}) + 1 >= maxConcurrency
    BY <1>1, <2>2
  <2> HIDE DEF r
  <2>4. QED BY <1>1, <1>2, <2>1, <2>2, <2>3, SettleFills
<1>5. ASSUME NEW k \in DOMAIN queue, Pool!Withdraw(k) PROVE PoolFull'
  <2>1. Pool!Settle(r, RemoveAt(queue, k))
    BY <1>5, PoolOperators DEF Pool!Withdraw
  <2>2. /\ RemoveAt(queue, k) \in Seq(Job)
        /\ ToSet(RemoveAt(queue, k)) = ToSet(queue) \ {queue[k]}
    BY <1>2, <1>5, RemoveAtRemovesOne
  <2>3. queue # <<>>
    BY <1>2, <1>5, EmptySeq
  <2>4. Cardinality(r) + 1 >= maxConcurrency
    BY <1>1, <2>3
  <2> HIDE DEF r
  <2>5. QED BY <1>1, <1>2, <2>1, <2>2, <2>4, SettleFills
<1>6. CASE Pool!Fill
  <2>1. Pool!Settle(r, queue)
    BY <1>6 DEF Pool!Fill
  <2>2. queue # <<>> => Cardinality(r) + 1 >= maxConcurrency
    BY <1>1
  <2> HIDE DEF r
  <2>3. QED BY <1>1, <1>2, <2>1, <2>2, SettleFills
<1>7. CASE Pool!Clear
  BY <1>1, <1>7, FS_EmptySet DEF Pool!Clear, PoolFull, WorkConserving
<1>8. CASE UNCHANGED <<maxConcurrency, r, queue>>
  BY <1>8 DEF PoolFull, WorkConserving
<1>9. QED BY <1>3, <1>4, <1>5, <1>6, <1>7, <1>8 DEF PoolStep

\* Without /reload: JobInv, and every slot is taken while a job waits.
LEMMA PoolInvariance == Reloads = {} => (Spec => [](JobInv /\ PoolFull))
<1>1. SUFFICES ASSUME Reloads = {} PROVE Spec => [](JobInv /\ PoolFull)
  OBVIOUS
<1>2. Init => JobInv /\ PoolFull
  <2>1. SUFFICES ASSUME Init PROVE JobInv /\ PoolFull
    OBVIOUS
  <2>2. JobInv
    BY <2>1, JobInvInit
  <2>3. Running(active, state) = {} /\ queue = <<>>
    BY <2>1 DEF Init, Running
  <2>4. QED BY <2>2, <2>3, RunningCount, FS_EmptySet DEF PoolFull, WorkConserving
<1>3. JobInv /\ PoolFull /\ [Next]_vars => (JobInv /\ PoolFull)'
  <2>1. SUFFICES ASSUME JobInv, PoolFull, [Next]_vars PROVE JobInv' /\ PoolFull'
    OBVIOUS
  <2>2. JobInv'
    BY <2>1, JobInvStep
  <2>3. PoolStep
    BY <1>1, <2>1, StepIsPoolStep DEF PoolFull
  <2>4. QED BY <2>1, <2>2, <2>3, PoolStepKeepsFull
<1>4. QED BY <1>2, <1>3, PTL DEF Spec

\* While the limit stays as it is no slot is idle in front of a queue.
THEOREM WorkConservingHolds == Reloads = {} => (Spec => []WorkConserving)
<1>1. SUFFICES ASSUME Reloads = {} PROVE Spec => []WorkConserving
  OBVIOUS
<1>2. Spec => [](JobInv /\ PoolFull)
  BY <1>1, PoolInvariance
<1>3. PoolFull => WorkConserving
  BY DEF PoolFull
<1>4. QED BY <1>2, <1>3, PTL

\* While the limit stays as it is the job manager is the FIFO pool its users
\* were promised: nobody overtakes, and a free slot goes to the head of the line.
THEOREM ImplementsPoolHolds == Reloads = {} => (Spec => ImplementsPool)
<1>1. SUFFICES ASSUME Reloads = {} PROVE Spec => ImplementsPool
  OBVIOUS
<1>2. Spec => [](JobInv /\ PoolFull)
  BY <1>1, PoolInvariance
<1>3. Init => Pool!PoolInit
  BY JobManagerAssumption DEF Init, Running, Pool!PoolInit
<1>4. JobInv /\ PoolFull /\ [Next]_vars => [Pool!PoolNext]_(Pool!poolVars)
  <2>1. SUFFICES ASSUME JobInv, PoolFull, [Next]_vars
                 PROVE  [Pool!PoolNext]_(Pool!poolVars)
    OBVIOUS
  <2>2. PoolStep
    BY <1>1, <2>1, StepIsPoolStep DEF PoolFull
  <2>3. QED BY <2>2 DEF PoolStep, Pool!PoolNext, Pool!poolVars
<1>5. QED BY <1>2, <1>3, <1>4, PTL DEF Spec, ImplementsPool, Pool!PoolSpec

-----------------------------------------------------------------------------
(* Several lives: RecoverJobs and the rows (JobRecovery).                  *)

\* A crash may forget these.
Settled == cancelled \cup told \cup signalled \cup collided

\* The next RecoverJobs will load this row.
RowLive(n) == row[n] \in {"queued", "running"}

\* No request of this identifier met another one.  What a collision does, it
\* does to jobs, rows and records of identifiers that are not fresh.
Fresh(n) == rowReq[n] \notin collided

CleanJobs == {o \in Job : req[o] \notin collided}

\* Agree and Manned of the jobs in S only.
AgreeOn(S, table, q, st) ==
  \A o \in S :
    /\ st[o] = "QUEUED" <=> o \in ToSet(q)
    /\ st[o] \in {"QUEUED", "RUNNING"} <=> o \in table

MannedOn(S, st, w, done) ==
  \A o \in S :
    /\ st[o] = "RUNNING" => w[o] \in Working
    /\ st[o] = "QUEUED" => w[o] = "none"
    /\ w[o] \in Working => st[o] = "RUNNING" \/ (st[o] = "CANCELLED" /\ o \in done)

\* Jobs exist in the order of allocation, with keys in any order.
IdsKnown ==
  /\ \A o \in Job : o <= allocated => id[o] \in 1..jobCounter
  /\ \A o \in Job : o > allocated =>
       id[o] = 0 /\ state[o] = "none" /\ worker[o] = "none"
  /\ Increasing(queue)
  /\ \A o \in ToSet(queue) : o <= allocated
  /\ \A o \in active : o <= allocated

\* The job manager of one life, for the jobs no collision has touched.
TableInv ==
  /\ TypeOK /\ IdsKnown
  /\ AgreeOn(CleanJobs, active, queue, state)
  /\ MannedOn(CleanJobs, state, worker, ctxDone)

RequestTypeOK ==
  /\ mode \in {"up", "stopping", "down"}
  /\ recovery \in {"notLoaded", "loaded", "returned"}
  /\ lives \in 1..MaxLives
  /\ pending \subseteq Record
  /\ accepted \in 0..MaxRequests
  /\ req \in [Job -> 0..MaxRequests] /\ owner \in [Job -> 0..MaxRequests]
  /\ rowReq \in [JobID -> 0..MaxRequests] /\ rowOwner \in [JobID -> 0..MaxRequests]
  /\ cancelled \subseteq Request /\ told \subseteq Request
  /\ finished \subseteq Request /\ signalled \subseteq Request
  /\ collided \subseteq Request

\* A life counts jobs from zero; a process that is down has none.
LifeInv ==
  /\ jobCounter <= accepted
  /\ mode = "down" => recovery = "notLoaded" /\ allocated = 0
  /\ recovery # "loaded" => pending = {}
  /\ \A o \in ctxDone : o <= allocated

\* A row belongs to one request, and a request that met no other to one row.
RowsInv ==
  /\ \A n \in JobID : row[n] # "none" =>
       n <= accepted /\ rowReq[n] # 0 /\ rowOwner[n] # 0
  /\ \A n \in JobID : rowReq[n] <= accepted
  /\ \A n, m \in JobID : n # m /\ rowReq[n] # 0 /\ Fresh(n) => rowReq[n] # rowReq[m]

\* What RecoverJobs has still to handle is a live row of no job.
PendingInv ==
  \A p \in pending :
    /\ p.id <= accepted /\ p.req <= accepted
    /\ ~ Fresh(p.id) => p.req \in collided
    /\ Fresh(p.id) =>
         /\ RowLive(p.id) /\ rowReq[p.id] = p.req /\ rowOwner[p.id] = p.owner
         /\ \A o \in Job : o <= allocated => id[o] # p.id

\* A job and its row are of one request, no other job has its key, and while
\* it is in the table its row is live, but for a failure just reported.
JobsInv ==
  /\ \A o \in Job : o <= allocated =>
       /\ req[o] # 0 /\ req[o] <= accepted /\ owner[o] # 0
       /\ ~ Fresh(id[o]) => req[o] \in collided
       /\ Fresh(id[o]) =>
            /\ rowReq[id[o]] = req[o]
            /\ \A p \in Job : p <= allocated /\ id[p] = id[o] => p = o
  /\ \A o \in active : Fresh(id[o]) =>
       RowLive(id[o]) \/ (row[id[o]] = "failed" /\ worker[o] = "returning")

\* A goroutine ends, and a context is done, only for a request that may be
\* forgotten, and SIGTERM makes all such.
SettledInv ==
  /\ \A o \in Job : worker[o] = "returning" \/ o \in ctxDone \/ state[o] = "CANCELLED" =>
       req[o] \in Settled
  /\ mode = "stopping" =>
       active \subseteq ctxDone /\ \A n \in JobID : RowLive(n) => rowReq[n] \in Settled

\* What FinishJob marked completed has neither a live row nor a job.
FinishedInv ==
  /\ \A r \in finished : r <= accepted
  /\ \A n \in JobID : RowLive(n) => rowReq[n] \notin finished \ collided
  /\ \A o \in active : req[o] \notin finished \ collided

\* CrashLosesNothing, row by row.
KeptInv ==
  \A r \in 1..accepted : r \in Settled \/ \E n \in JobID : RowLive(n) /\ rowReq[n] = r

RecoveryInv ==
  /\ TableInv /\ RequestTypeOK /\ LifeInv /\ RowsInv /\ PendingInv
  /\ JobsInv /\ SettledInv /\ FinishedInv /\ KeptInv
-----------------------------------------------------------------------------
(* The job manager of one life. *)

\* Members of the queue are jobs.
LEMMA QueuedIsJob ==
  ASSUME NEW q \in Seq(Job)
  PROVE  ToSet(q) \subseteq Job
BY ElementOfSeq, LenProperties DEF ToSet

\* TableInv in the terms of the lemmas below.
LEMMA TableParts ==
  ASSUME TableInv
  PROVE  /\ TypeOK /\ IdsKnown
         /\ AgreeOn(CleanJobs, active, queue, state)
         /\ MannedOn(CleanJobs, state, worker, ctxDone)
         /\ \A o \in active : o \in Job /\ o <= allocated /\ id[o] \in JobID
         /\ \A o \in ToSet(queue) : o \in Job /\ o <= allocated /\ id[o] \in JobID
         /\ \A o \in Job : worker[o] # "none" \/ state[o] # "none" => o <= allocated
         /\ \A o \in Job : o <= allocated => id[o] \in JobID /\ id[o] <= jobCounter
<1>1. /\ TypeOK /\ IdsKnown
      /\ AgreeOn(CleanJobs, active, queue, state)
      /\ MannedOn(CleanJobs, state, worker, ctxDone)
  BY DEF TableInv
<1>2. \A o \in Job : o <= allocated => id[o] \in JobID /\ id[o] <= jobCounter
  <2>1. jobCounter \in 0..MaxJobs /\ MaxJobs \in Nat
    BY <1>1, JobManagerAssumption DEF TypeOK
  <2>2. \A n \in 1..jobCounter : n \in JobID /\ n <= jobCounter
    BY <2>1 DEF JobID
  <2> QED BY <1>1, <2>2 DEF IdsKnown
<1>3. \A o \in active : o \in Job /\ o <= allocated
  BY <1>1 DEF TypeOK, IdsKnown
<1>4. \A o \in ToSet(queue) : o \in Job /\ o <= allocated
  BY <1>1, QueuedIsJob DEF TypeOK, IdsKnown
<1>5. \A o \in Job : worker[o] # "none" \/ state[o] # "none" => o <= allocated
  BY <1>1, JobIsNat DEF TypeOK, IdsKnown
<1> QED BY <1>1, <1>2, <1>3, <1>4, <1>5

\* The same after a step.
TablePartsHold ==
  /\ \A o \in active : o \in Job /\ o <= allocated /\ id[o] \in JobID
  /\ \A o \in ToSet(queue) : o \in Job /\ o <= allocated /\ id[o] \in JobID
LEMMA TableMembers == TableInv => TablePartsHold
BY TableParts DEF TablePartsHold
LEMMA TableMembersNext == TableInv' => TablePartsHold'
BY TableMembers, PTL

\* A set of numbers has a least one.
LEMMA LeastNumber ==
  ASSUME NEW T \in SUBSET Nat, T # {}
  PROVE  Min(T) \in T
<1>1. \E x \in T : \A y \in T : ~ (<<y, x>> \in OpToRel(<, Nat))
  BY WFMin, NatLessThanWellFounded, Zenon
<1>2. \A x, y \in Nat : y < x => <<y, x>> \in OpToRel(<, Nat)
  BY Zenon DEF OpToRel
<1>3. \E x \in T : \A y \in T : ~ (y < x)
  BY <1>1, <1>2, Zenon
<1>4. \E x \in T : \A y \in T : x <= y
  BY <1>3
<1> QED BY <1>4 DEF Min

\* One job of id n leaves the queue, if there is one.
LEMMA UnqueueKeeps ==
  ASSUME TableInv, NEW n
  PROVE  /\ Unqueue(n) \in Seq(Job) /\ Increasing(Unqueue(n))
         /\ ToSet(Unqueue(n)) \subseteq ToSet(queue)
         /\ \A o \in ToSet(queue) : id[o] # n => o \in ToSet(Unqueue(n))
         /\ \A o \in ToSet(Unqueue(n)) : id[o] = n =>
              \E p \in ToSet(queue) : p # o /\ id[p] = n
<1>1. queue \in Seq(Job) /\ Increasing(queue)
  BY DEF TableInv, TypeOK, IdsKnown
<1>2. Len(queue) \in Nat /\ DOMAIN queue = 1..Len(queue)
  BY <1>1, LenProperties
<1> DEFINE I == {i \in 1..Len(queue) : id[queue[i]] = n}
           k == Min(I)
<1>3. CASE I # {}
  <2>1. I \in SUBSET Nat
    BY <1>2
  <2> HIDE DEF I
  <2>2. k \in I
    BY <1>3, <2>1, LeastNumber
  <2> USE DEF I
  <2>3. k \in DOMAIN queue /\ id[queue[k]] = n
    BY <1>2, <2>2
  <2>4. (\E i \in 1..Len(queue) : id[queue[i]] = n) /\ I # {}
    BY <1>3
  <2>5. Unqueue(n) = RemoveAt(queue, k)
    BY <2>4 DEF Unqueue, RemoveFirstMatch, SelectInSeq
  <2> HIDE DEF I, k
  <2>6. /\ Unqueue(n) \in Seq(Job) /\ Increasing(Unqueue(n))
        /\ ToSet(Unqueue(n)) = ToSet(queue) \ {queue[k]}
    BY <1>1, <2>3, <2>5, RemoveAtRemovesOne
  <2>7. queue[k] \in ToSet(queue)
    BY <2>3, InToSet
  <2> QED BY <2>3, <2>6, <2>7
<1>4. CASE I = {}
  <2>1. ~ \E i \in 1..Len(queue) : id[queue[i]] = n
    BY <1>4
  <2>2. Unqueue(n) = queue
    BY <2>1 DEF Unqueue, RemoveFirstMatch
  <2>3. \A o \in ToSet(queue) : id[o] # n
    BY <1>2, <2>1, InToSet
  <2> QED BY <1>1, <2>2, <2>3
<1> QED BY <1>3, <1>4

\* Promote, for the jobs in S.
LEMMA PromoteKeepsOn ==
  ASSUME NEW S \in SUBSET Job, NEW table \in SUBSET Job,
         NEW q \in Seq(Job), Increasing(q),
         NEW st \in [Job -> JobState], NEW w \in [Job -> Worker], NEW done,
         AgreeOn(S, table, q, st), MannedOn(S, st, w, done), Promote(table, q, st, w)
  PROVE  /\ active' = table
         /\ queue' \in Seq(Job) /\ Increasing(queue') /\ ToSet(queue') \subseteq ToSet(q)
         /\ state' \in [Job -> JobState] /\ worker' \in [Job -> Worker]
         /\ AgreeOn(S, table, queue', state') /\ MannedOn(S, state', worker', done)
         /\ \A o \in Job : state'[o] = st[o] \/ (state'[o] = "RUNNING" /\ o \in ToSet(q))
         /\ \A o \in Job : worker'[o] = w[o] \/ (worker'[o] = "transfer" /\ o \in ToSet(q))
<1>1. CASE HasSlot(table, st) /\ q # <<>>
  <2>1. /\ active' = table /\ queue' = Tail(q)
        /\ state' = [st EXCEPT ![Head(q)] = "RUNNING"]
        /\ worker' = [w EXCEPT ![Head(q)] = "transfer"]
    BY <1>1 DEF Promote
  <2>2. /\ Head(q) \in Job /\ queue' \in Seq(Job) /\ Increasing(queue')
        /\ ToSet(queue') = ToSet(q) \ {Head(q)} /\ Head(q) \in ToSet(q)
    BY <1>1, <2>1, TailRemovesHead
  <2>3. /\ state' \in [Job -> JobState] /\ worker' \in [Job -> Worker]
        /\ \A o \in Job : state'[o] = IF o = Head(q) THEN "RUNNING" ELSE st[o]
        /\ \A o \in Job : worker'[o] = IF o = Head(q) THEN "transfer" ELSE w[o]
    BY <2>1, <2>2 DEF JobState, Worker
  <2>4. AgreeOn(S, table, queue', state')
    BY <2>2, <2>3 DEF AgreeOn
  <2>5. MannedOn(S, state', worker', done)
    BY <2>2, <2>3 DEF MannedOn, Working
  <2> QED BY <2>1, <2>2, <2>3, <2>4, <2>5
<1>2. CASE ~ (HasSlot(table, st) /\ q # <<>>)
  BY <1>2 DEF Promote
<1> QED BY <1>1, <1>2

\* What is left to say once AgreeOn and MannedOn hold after a step.
LEMMA TableAfter ==
  ASSUME maxConcurrency' \in Nat \ {0},
         jobCounter' \in 0..MaxJobs, allocated' \in 0..MaxJobs,
         id' \in [Job -> 0..MaxJobs], IdsKnown',
         active' \subseteq Job, queue' \in Seq(Job),
         state' \in [Job -> JobState], worker' \in [Job -> Worker],
         ctxDone' \subseteq Job, row' \in [JobID -> RowStatus],
         AgreeOn(CleanJobs', active', queue', state'),
         MannedOn(CleanJobs', state', worker', ctxDone')
  PROVE  TableInv'
<1>1. TypeOK'
  BY DEF TypeOK
<1>2. AgreeOn(CleanJobs, active, queue, state)' /\ MannedOn(CleanJobs, state, worker, ctxDone)'
  BY DEF AgreeOn, MannedOn
<1> QED BY <1>1, <1>2 DEF TableInv

\* A key that is not fresh is one of collided jobs; under a fresh key the
\* table and the queue hold one job at most.
LEMMA FreshKeys ==
  ASSUME TableInv, JobsInv
  PROVE  /\ \A o \in CleanJobs : o <= allocated => Fresh(id[o])
         /\ \A o \in Job : o <= allocated /\ Fresh(id[o]) =>
              o \in CleanJobs /\ rowReq[id[o]] = req[o]
         /\ \A o, p \in Job : o <= allocated /\ p <= allocated /\ id[o] = id[p]
                              /\ (o \in CleanJobs \/ Fresh(id[o])) => o = p
<1>1. \A o \in CleanJobs : o \in Job /\ req[o] \notin collided
  BY DEF CleanJobs
<1>2. \A o \in CleanJobs : o <= allocated => Fresh(id[o])
  BY <1>1 DEF JobsInv
<1>3. \A o \in Job : o <= allocated /\ Fresh(id[o]) =>
        rowReq[id[o]] = req[o] /\ req[o] \notin collided
  BY DEF JobsInv, Fresh
<1>4. \A o, p \in Job : o <= allocated /\ p <= allocated /\ id[o] = id[p] /\ Fresh(id[o])
                        => o = p
  BY DEF JobsInv
<1> QED BY <1>2, <1>3, <1>4 DEF CleanJobs

\* Some job of a set is the last.
LEMMA LastJob ==
  ASSUME NEW T \in SUBSET Job, T # {}
  PROVE  \E o \in T : \A p \in T : p <= o
<1>1. MaxJobs \in Nat /\ \A o \in T : o \in Nat /\ o <= MaxJobs
  BY JobManagerAssumption DEF Job
<1> DEFINE D == {MaxJobs - o : o \in T}
<1>2. D \in SUBSET Nat /\ D # {}
  BY <1>1
<1>3. \E x \in D : \A y \in D : x <= y
  <2>1. \E x \in D : \A y \in D : ~ (<<y, x>> \in OpToRel(<, Nat))
    <3> HIDE DEF D
    <3> QED BY <1>2, WFMin, NatLessThanWellFounded, Zenon
  <2>2. \A x, y \in Nat : y < x => <<y, x>> \in OpToRel(<, Nat)
    BY Zenon DEF OpToRel
  <2> HIDE DEF D
  <2>3. \E x \in D : \A y \in D : ~ (y < x)
    BY <1>2, <2>1, <2>2, Zenon
  <2> QED BY <1>2, <2>3
<1>4. PICK o \in T : \A y \in D : MaxJobs - o <= y
  BY <1>3
<1>5. \A p \in T : MaxJobs - o <= MaxJobs - p
  BY <1>4
<1> QED BY <1>1, <1>5

\* SaveJob of every job of the table and the queue: a row is that of such a
\* job, or it has none of its id and stays.
LEMMA SaveWrites ==
  ASSUME TableInv', NEW rows, SaveState(rows), SaveSource,
         \A o \in Job : o <= allocated' => owner'[o] # 0, NEW n \in JobID
  PROVE  \/ /\ \A o \in active' \cup ToSet(queue') : id'[o] # n
            /\ row'[n] = rows[n] /\ rowReq'[n] = rowReq[n] /\ rowOwner'[n] = rowOwner[n]
         \/ \E o \in active' \cup ToSet(queue') :
              /\ id'[o] = n /\ row'[n] = Lower[state'[o]]
              /\ rowReq'[n] = req'[o] /\ rowOwner'[n] # 0
              /\ rowOwner[n] # 0 => rowOwner'[n] = rowOwner[n]
<1> DEFINE inTable == {o \in active' : id'[o] = n}
           inQueue == {o \in ToSet(queue') : id'[o] = n}
           lastQueued == {o \in inQueue : \A p \in inQueue : p <= o}
<1>1. /\ \A o \in active' : o \in Job /\ o <= allocated'
      /\ \A o \in ToSet(queue') : o \in Job /\ o <= allocated'
  BY TableMembersNext DEF TablePartsHold
<1>2. SavedAs(n) = IF inQueue # {} THEN lastQueued ELSE inTable
  BY DEF SavedAs
<1>3. inQueue # {} => lastQueued # {}
  <2>1. inQueue \in SUBSET Job
    BY <1>1
  <2> HIDE DEF inQueue
  <2> QED BY <2>1, LastJob
<1>4. lastQueued \subseteq inQueue
  OBVIOUS
<1> HIDE DEF lastQueued
<1>5. CASE inQueue = {} /\ inTable = {}
  <2>1. SavedAs(n) = {}
    BY <1>2, <1>5
  <2>2. \A o \in active' \cup ToSet(queue') : id'[o] # n
    BY <1>5
  <2> QED BY <2>1, <2>2 DEF SaveState, SaveSource
<1>6. CASE ~ (inQueue = {} /\ inTable = {})
  <2> DEFINE o == CHOOSE x \in SavedAs(n) : TRUE
  <2>1. SavedAs(n) # {} /\ SavedAs(n) \subseteq inTable \cup inQueue
    <3> HIDE DEF inTable, inQueue
    <3> QED BY <1>2, <1>3, <1>4, <1>6
  <2>2. o \in inTable \cup inQueue
    BY <2>1
  <2>3. /\ row'[n] = Lower[state'[o]] /\ rowReq'[n] = req'[o]
        /\ rowOwner'[n] = IF rowOwner[n] # 0 THEN rowOwner[n] ELSE owner'[o]
    BY <2>1 DEF SaveState, SaveSource
  <2> HIDE DEF o
  <2>4. o \in active' \cup ToSet(queue') /\ id'[o] = n /\ owner'[o] # 0
    BY <1>1, <2>2
  <2> QED BY <2>3, <2>4
<1> QED BY <1>5, <1>6

\* The rows keep their types when they are saved.
LEMMA SavedSourceIsTyped ==
  ASSUME TableInv', SaveSource,
         req' \in [Job -> 0..MaxRequests], owner' \in [Job -> 0..MaxRequests],
         rowReq \in [JobID -> 0..MaxRequests], rowOwner \in [JobID -> 0..MaxRequests]
  PROVE  rowReq' \in [JobID -> 0..MaxRequests] /\ rowOwner' \in [JobID -> 0..MaxRequests]
<1>1. ASSUME NEW n \in JobID, SavedAs(n) # {}
      PROVE  (CHOOSE o \in SavedAs(n) : TRUE) \in Job
  <2>1. SavedAs(n) \subseteq Job
    <3>1. \A o \in active' \cup ToSet(queue') : o \in Job
      BY TableMembersNext DEF TablePartsHold
    <3> QED BY <3>1 DEF SavedAs
  <2> QED BY <1>1, <2>1
<1>2. ASSUME NEW n \in JobID
      PROVE  /\ (IF SavedAs(n) = {} THEN rowReq[n]
                 ELSE req'[CHOOSE o \in SavedAs(n) : TRUE]) \in 0..MaxRequests
             /\ (IF SavedAs(n) = {} \/ rowOwner[n] # 0 THEN rowOwner[n]
                 ELSE owner'[CHOOSE o \in SavedAs(n) : TRUE]) \in 0..MaxRequests
  BY <1>1
<1> QED BY <1>2 DEF SaveSource

\* The tail of FinishJob and CancelJob, with the job under key n withdrawn.
LEMMA WithdrawKeepsTable ==
  ASSUME TableInv, JobsInv, NEW n \in JobID,
         NEW st \in [Job -> JobState], NEW w \in [Job -> Worker],
         NEW rows \in [JobID -> RowStatus],
         \A o \in Job : o \notin Entry(n) => st[o] = state[o],
         \A o \in Entry(n) : st[o] \notin {"QUEUED", "RUNNING"},
         \A o \in Job : o > allocated => w[o] = worker[o],
         MannedOn(CleanJobs, st, w, ctxDone'),
         Promote(active \ Entry(n), Unqueue(n), st, w),
         ctxDone' \subseteq Job,
         UNCHANGED <<maxConcurrency, jobCounter, allocated, id, req, collided>>,
         SaveState(rows)
  PROVE  /\ TableInv' /\ active' = active \ Entry(n) /\ ToSet(queue') \subseteq ToSet(queue)
         /\ \A o \in Job : state'[o] = st[o] \/ state'[o] = "RUNNING"
         /\ \A o \in Job : worker'[o] = w[o] \/ (worker'[o] = "transfer" /\ o \in ToSet(queue))
<1> DEFINE table == active \ Entry(n)
           q == Unqueue(n)
<1>1. /\ TypeOK /\ IdsKnown /\ AgreeOn(CleanJobs, active, queue, state)
      /\ \A o \in active : o \in Job /\ o <= allocated
      /\ \A o \in ToSet(queue) : o \in Job /\ o <= allocated
  BY TableParts
<1>2. /\ q \in Seq(Job) /\ Increasing(q) /\ ToSet(q) \subseteq ToSet(queue)
      /\ \A o \in ToSet(queue) : id[o] # n => o \in ToSet(q)
      /\ \A o \in ToSet(q) : id[o] = n => \E p \in ToSet(queue) : p # o /\ id[p] = n
  BY UnqueueKeeps
<1>3. \A o \in CleanJobs : o \in Job
  BY DEF CleanJobs
<1>4. AgreeOn(CleanJobs, table, q, st)
  <2>1. ASSUME NEW o \in CleanJobs, o \in Entry(n)
        PROVE  st[o] \notin {"QUEUED", "RUNNING"} /\ o \notin table /\ o \notin ToSet(q)
    <3>1. o \in active /\ id[o] = n
      BY <2>1 DEF Entry
    <3>2. ~ \E p \in ToSet(queue) : p # o /\ id[p] = n
      BY <1>1, <1>3, <3>1, FreshKeys
    <3> QED BY <1>2, <2>1, <3>1, <3>2
  <2>2. ASSUME NEW o \in CleanJobs, o \notin Entry(n)
        PROVE  /\ st[o] = state[o] /\ (o \in table <=> o \in active)
               /\ o \in ToSet(q) <=> o \in ToSet(queue)
    <3>1. o \in ToSet(queue) => o \in active
      BY <1>1 DEF AgreeOn
    <3>2. o \in active => id[o] # n
      BY <2>2 DEF Entry
    <3> QED BY <1>2, <1>3, <2>2, <3>1, <3>2
  <2> HIDE DEF table, q
  <2>3. ASSUME NEW o \in CleanJobs
        PROVE  /\ st[o] = "QUEUED" <=> o \in ToSet(q)
               /\ st[o] \in {"QUEUED", "RUNNING"} <=> o \in table
    BY <1>1, <2>1, <2>2 DEF AgreeOn
  <2> QED BY <2>3 DEF AgreeOn
<1>5. table \in SUBSET Job /\ CleanJobs \in SUBSET Job
  BY <1>1, <1>3
<1> HIDE DEF table, q
<1>6. Promote(table, q, st, w)
  BY DEF table, q
<1>7. /\ active' = table
      /\ queue' \in Seq(Job) /\ Increasing(queue') /\ ToSet(queue') \subseteq ToSet(q)
      /\ state' \in [Job -> JobState] /\ worker' \in [Job -> Worker]
      /\ AgreeOn(CleanJobs, table, queue', state')
      /\ MannedOn(CleanJobs, state', worker', ctxDone')
      /\ \A o \in Job : state'[o] = st[o] \/ (state'[o] = "RUNNING" /\ o \in ToSet(q))
      /\ \A o \in Job : worker'[o] = w[o] \/ (worker'[o] = "transfer" /\ o \in ToSet(q))
  <2>1. active' = table
    BY <1>6 DEF Promote
  <2>2. queue' \in Seq(Job) /\ Increasing(queue') /\ ToSet(queue') \subseteq ToSet(q)
    BY <1>2, <1>4, <1>5, <1>6, PromoteKeepsOn
  <2>3. state' \in [Job -> JobState] /\ worker' \in [Job -> Worker]
    BY <1>2, <1>4, <1>5, <1>6, PromoteKeepsOn
  <2>4. AgreeOn(CleanJobs, table, queue', state') /\ MannedOn(CleanJobs, state', worker', ctxDone')
    BY <1>2, <1>4, <1>5, <1>6, PromoteKeepsOn
  <2>5. /\ \A o \in Job : state'[o] = st[o] \/ (state'[o] = "RUNNING" /\ o \in ToSet(q))
        /\ \A o \in Job : worker'[o] = w[o] \/ (worker'[o] = "transfer" /\ o \in ToSet(q))
    BY <1>2, <1>4, <1>5, <1>6, PromoteKeepsOn
  <2> QED BY <2>1, <2>2, <2>3, <2>4, <2>5
<1>8. row' \in [JobID -> RowStatus]
  BY <1>5, <1>7, SavedRowsAreTyped
<1>9. IdsKnown'
  <2>1. ASSUME NEW o \in Job, o > allocated
        PROVE  state'[o] = "none" /\ worker'[o] = "none"
    <3>1. state[o] = "none" /\ worker[o] = "none" /\ ~ (o <= allocated)
      BY <1>1, <2>1, JobIsNat DEF IdsKnown, TypeOK
    <3>2. o \notin Entry(n) /\ o \notin ToSet(q)
      BY <1>1, <1>2, <3>1 DEF Entry
    <3>3. st[o] = "none" /\ w[o] = "none"
      BY <2>1, <3>1, <3>2
    <3> QED BY <1>7, <3>2, <3>3
  <2>2. (\A o \in ToSet(queue') : o <= allocated) /\ (\A o \in active' : o <= allocated)
    BY <1>1, <1>2, <1>7 DEF table
  <2> QED BY <1>1, <1>7, <2>1, <2>2 DEF IdsKnown
<1>10. CleanJobs' = CleanJobs
  BY DEF CleanJobs
<1>11. TableInv'
  BY <1>1, <1>5, <1>7, <1>8, <1>9, <1>10, TableAfter DEF TypeOK
<1>12. ToSet(queue') \subseteq ToSet(queue)
  BY <1>2, <1>7
<1>13. \A o \in Job : worker'[o] = w[o] \/ (worker'[o] = "transfer" /\ o \in ToSet(queue))
  BY <1>2, <1>7
<1> QED BY <1>7, <1>11, <1>12, <1>13 DEF table

\* A job enters the table under key n, which no untouched job has.
LEMMA AdmitKeepsTable ==
  ASSUME TableInv, NEW o \in Job, o = allocated + 1, NEW n \in JobID,
         jobCounter' \in 0..MaxJobs, jobCounter <= jobCounter', n <= jobCounter',
         ctxDone' \in {ctxDone, ctxDone \cup {o}},
         CleanJobs' \subseteq CleanJobs \cup {o},
         \A p \in CleanJobs' : p # o /\ p <= allocated => id[p] # n,
         Admit(o, n)
  PROVE  /\ TableInv' /\ o \notin active
         /\ active' = (active \ Entry(n)) \cup {o}
         /\ ToSet(queue') \subseteq ToSet(queue) \cup {o}
         /\ allocated' = o /\ id' = [id EXCEPT ![o] = n] /\ SaveState(row)
         /\ \A p \in Job : p # o => state'[p] = state[p] /\ worker'[p] = worker[p]
         /\ state'[o] \in {"QUEUED", "RUNNING"} /\ worker'[o] # "returning"
<1>1. /\ TypeOK /\ IdsKnown /\ AgreeOn(CleanJobs, active, queue, state)
      /\ MannedOn(CleanJobs, state, worker, ctxDone)
      /\ \A p \in active : p \in Job /\ p <= allocated
      /\ \A p \in ToSet(queue) : p \in Job /\ p <= allocated
  BY TableParts
<1>2. /\ allocated \in Nat /\ o \in Nat /\ ~ (o <= allocated) /\ o > allocated
      /\ state[o] = "none" /\ worker[o] = "none"
  BY <1>1, JobIsNat DEF TypeOK, IdsKnown
<1>3. /\ o \notin active /\ o \notin ToSet(queue)
      /\ \A p \in ToSet(queue) : p < o /\ p <= o
      /\ \A p \in active : p <= o
      /\ o <= o
  <2>1. \A p \in Job : p <= allocated => p < o /\ p <= o
    BY <1>2, JobIsNat
  <2>2. o \notin active /\ o \notin ToSet(queue) /\ o <= o
    BY <1>1, <1>2
  <2> QED BY <1>1, <2>1, <2>2
<1> DEFINE others == active \ Entry(n)
<1>4. /\ allocated' = o /\ id' = [id EXCEPT ![o] = n]
      /\ active' = others \cup {o} /\ maxConcurrency' = maxConcurrency
      /\ SaveState(row)
      /\ state' = [state EXCEPT ![o] = IF HasSlot(others, state) THEN "RUNNING" ELSE "QUEUED"]
      /\ worker' = IF HasSlot(others, state) THEN [worker EXCEPT ![o] = "transfer"]
                   ELSE worker
      /\ queue' = IF HasSlot(others, state) THEN queue ELSE Append(queue, o)
  BY DEF Admit
<1>5. \A p \in CleanJobs' : p # o =>
       p \in CleanJobs /\ p \in Job /\ (p \in active' <=> p \in active)
  BY <1>1, <1>4 DEF CleanJobs, Entry
<1>6. \A p \in CleanJobs' : p \in Job
  BY <1>5
<1> HIDE DEF others
<1>7. /\ state' \in [Job -> JobState] /\ worker' \in [Job -> Worker]
      /\ \A p \in Job : p # o => state'[p] = state[p] /\ worker'[p] = worker[p]
      /\ state'[o] = IF HasSlot(others, state) THEN "RUNNING" ELSE "QUEUED"
      /\ worker'[o] = IF HasSlot(others, state) THEN "transfer" ELSE "none"
  BY <1>1, <1>2, <1>4 DEF TypeOK, JobState, Worker
<1>8. /\ queue' \in Seq(Job) /\ Increasing(queue')
      /\ ToSet(queue') = IF HasSlot(others, state) THEN ToSet(queue) ELSE ToSet(queue) \cup {o}
  <2>1. CASE HasSlot(others, state)
    BY <1>1, <1>4, <2>1 DEF TypeOK, IdsKnown
  <2>2. CASE ~ HasSlot(others, state)
    <3>1. queue' = Append(queue, o)
      BY <1>4, <2>2
    <3> QED BY <1>1, <1>3, <2>2, <3>1, AppendAddsLast DEF TypeOK, IdsKnown
  <2> QED BY <2>1, <2>2
<1>9. AgreeOn(CleanJobs', active', queue', state')
  <2>1. ASSUME NEW p \in CleanJobs', p # o
        PROVE  /\ state'[p] = state[p] /\ (p \in active' <=> p \in active)
               /\ p \in ToSet(queue') <=> p \in ToSet(queue)
               /\ p \in CleanJobs
    BY <1>5, <1>7, <1>8, <2>1
  <2>2. o \in active' /\ (o \in ToSet(queue') <=> state'[o] = "QUEUED")
        /\ state'[o] \in {"QUEUED", "RUNNING"}
    BY <1>3, <1>4, <1>7, <1>8
  <2> QED BY <1>1, <2>1, <2>2 DEF AgreeOn
<1>10. MannedOn(CleanJobs', state', worker', ctxDone')
  <2>1. ASSUME NEW p \in CleanJobs', p # o
        PROVE  state'[p] = state[p] /\ worker'[p] = worker[p] /\ p \in CleanJobs
    BY <1>5, <1>7, <2>1
  <2>2. /\ state'[o] = "RUNNING" => worker'[o] = "transfer"
        /\ state'[o] = "QUEUED" => worker'[o] = "none"
        /\ state'[o] \in {"QUEUED", "RUNNING"}
    BY <1>7
  <2>3. ctxDone \subseteq ctxDone'
    OBVIOUS
  <2> QED BY <1>1, <2>1, <2>2, <2>3 DEF MannedOn, Working
<1>11. IdsKnown'
  <2>1. n \in 1..jobCounter' /\ jobCounter \in Nat /\ jobCounter' \in Nat
    BY <1>1 DEF JobID, TypeOK
  <2>2. \A p \in Job : id'[p] = IF p = o THEN n ELSE id[p]
    BY <1>1, <1>4 DEF TypeOK
  <2>3. \A p \in Job : p <= allocated' <=> p <= allocated \/ p = o
    BY <1>2, <1>4, JobIsNat
  <2>4. ASSUME NEW p \in Job, p <= allocated' PROVE id'[p] \in 1..jobCounter'
    BY <1>1, <2>1, <2>2, <2>3, <2>4 DEF IdsKnown
  <2>5. ASSUME NEW p \in Job, p > allocated'
        PROVE  id'[p] = 0 /\ state'[p] = "none" /\ worker'[p] = "none"
    <3>1. p # o /\ p > allocated
      BY <1>2, <1>4, <2>5, JobIsNat
    <3> QED BY <1>1, <1>7, <2>2, <3>1 DEF IdsKnown
  <2>6. (\A p \in ToSet(queue') : p <= allocated') /\ (\A p \in active' : p <= allocated')
    <3>1. (\A p \in ToSet(queue) : p <= o) /\ (\A p \in active : p <= o) /\ o <= o
      BY <1>3
    <3>2. \A p \in active' : p \in active \/ p = o
      BY <1>4 DEF others
    <3>3. \A p \in ToSet(queue') : p \in ToSet(queue) \/ p = o
      BY <1>8
    <3> QED BY <1>4, <3>1, <3>2, <3>3
  <2> QED BY <1>8, <2>4, <2>5, <2>6 DEF IdsKnown
<1>12. id' \in [Job -> 0..MaxJobs] /\ active' \subseteq Job /\ ctxDone' \subseteq Job
  <2>1. n \in 0..MaxJobs
    BY JobManagerAssumption DEF JobID
  <2> QED BY <1>1, <1>4, <2>1 DEF TypeOK, others
<1>13. row' \in [JobID -> RowStatus]
  BY <1>1, <1>4, <1>7, <1>8, <1>12, SavedRowsAreTyped DEF TypeOK
<1>14. allocated' \in 0..MaxJobs
  BY <1>2, <1>4, JobManagerAssumption DEF Job
<1>15. TableInv'
  BY <1>1, <1>4, <1>7, <1>8, <1>9, <1>10, <1>11, <1>12, <1>13, <1>14, TableAfter DEF TypeOK
<1>16. state'[o] \in {"QUEUED", "RUNNING"} /\ worker'[o] # "returning"
  BY <1>7
<1>17. ToSet(queue') \subseteq ToSet(queue) \cup {o}
  BY <1>8
<1> QED BY <1>3, <1>4, <1>7, <1>15, <1>16, <1>17 DEF others

\* /cancelall empties table and queue.
LEMMA CancelAllKeepsTable ==
  ASSUME TableInv, CancelAllJobs, UNCHANGED <<req, collided>>
  PROVE  /\ TableInv' /\ active' = {} /\ ToSet(queue') = {} /\ SaveState(row)
         /\ \A o \in Job : state'[o] = state[o] \/ (o \in active /\ state'[o] = "CANCELLED")
<1>1. /\ TypeOK /\ IdsKnown /\ AgreeOn(CleanJobs, active, queue, state)
      /\ MannedOn(CleanJobs, state, worker, ctxDone)
      /\ \A o \in active : o \in Job /\ o <= allocated
  BY TableParts
<1>2. /\ state' = [o \in Job |-> IF o \in active THEN "CANCELLED" ELSE state[o]]
      /\ ctxDone' = ctxDone \cup active
      /\ active' = {} /\ queue' = <<>>
      /\ UNCHANGED <<maxConcurrency, jobCounter, allocated, id, worker>>
      /\ SaveState(row)
  BY DEF CancelAllJobs
<1>3. queue' \in Seq(Job) /\ DOMAIN queue' = {} /\ ToSet(queue') = {}
  BY <1>2, EmptySeq DEF ToSet
<1>4. /\ state' \in [Job -> JobState] /\ active' \subseteq Job
      /\ \A o \in Job : state'[o] = IF o \in active THEN "CANCELLED" ELSE state[o]
  BY <1>1, <1>2 DEF TypeOK, JobState
<1>5. row' \in [JobID -> RowStatus]
  BY <1>1, <1>2, <1>3, <1>4, SavedRowsAreTyped DEF TypeOK
<1>6. CleanJobs' = CleanJobs /\ \A o \in CleanJobs : o \in Job
  BY DEF CleanJobs
<1>7. AgreeOn(CleanJobs', active', queue', state')
  BY <1>1, <1>2, <1>3, <1>4, <1>6 DEF AgreeOn
<1>8. MannedOn(CleanJobs', state', worker', ctxDone')
  <2>1. ASSUME NEW o \in CleanJobs, o \in active
        PROVE  state'[o] = "CANCELLED" /\ o \in ctxDone'
    BY <1>2, <1>4, <1>6, <2>1
  <2>2. ASSUME NEW o \in CleanJobs, o \notin active
        PROVE  state'[o] = state[o]
    BY <1>4, <1>6, <2>2
  <2> QED BY <1>1, <1>2, <1>6, <2>1, <2>2 DEF MannedOn
<1>9. IdsKnown'
  <2>1. \A o \in Job : o > allocated => state'[o] = "none"
    BY <1>1, <1>4, JobIsNat DEF IdsKnown, TypeOK
  <2>2. Increasing(queue')
    BY <1>3 DEF Increasing
  <2> QED BY <1>1, <1>2, <1>3, <2>1, <2>2 DEF IdsKnown
<1>10. TableInv'
  BY <1>1, <1>2, <1>3, <1>4, <1>5, <1>7, <1>8, <1>9, TableAfter DEF TypeOK
<1> QED BY <1>2, <1>3, <1>4, <1>10

\* The steps of a goroutine before FinishJob.
LEMMA WorkerMovesKeepTable ==
  ASSUME TableInv, NEW o \in Job, worker[o] \in Working,
         NEW to \in Working, worker' = [worker EXCEPT ![o] = to],
         row' \in [JobID -> RowStatus],
         UNCHANGED <<maxConcurrency, jobCounter, allocated, id, active, queue,
                     state, ctxDone, req, collided>>
  PROVE  TableInv'
<1>1. /\ TypeOK /\ IdsKnown /\ o <= allocated
      /\ AgreeOn(CleanJobs, active, queue, state)
      /\ MannedOn(CleanJobs, state, worker, ctxDone)
  BY TableParts DEF Working
<1>2. /\ worker' \in [Job -> Worker]
      /\ \A p \in Job : worker'[p] = IF p = o THEN to ELSE worker[p]
  BY <1>1 DEF TypeOK, Worker, Working
<1>3. CleanJobs' = CleanJobs /\ \A p \in CleanJobs : p \in Job
  BY DEF CleanJobs
<1>4. MannedOn(CleanJobs', state', worker', ctxDone')
  BY <1>1, <1>2, <1>3 DEF MannedOn, Working
<1>5. AgreeOn(CleanJobs', active', queue', state')
  BY <1>1, <1>3
<1>6. IdsKnown'
  <2>1. ASSUME NEW p \in Job, p > allocated PROVE worker'[p] = "none"
    BY <1>1, <1>2, <2>1, JobIsNat DEF IdsKnown, TypeOK
  <2> QED BY <1>1, <2>1 DEF IdsKnown
<1> QED BY <1>1, <1>2, <1>4, <1>5, <1>6, TableAfter DEF TypeOK

\* A step that changes nothing but contexts, limit and rows.
LEMMA RowStepKeepsTable ==
  ASSUME TableInv, maxConcurrency' \in Nat \ {0}, row' \in [JobID -> RowStatus],
         ctxDone \subseteq ctxDone', ctxDone' \subseteq Job,
         CleanJobs' \subseteq CleanJobs,
         UNCHANGED <<jobCounter, allocated, id, active, queue, state, worker>>
  PROVE  TableInv'
<1>1. /\ TypeOK /\ IdsKnown
      /\ AgreeOn(CleanJobs, active, queue, state)
      /\ MannedOn(CleanJobs, state, worker, ctxDone)
  BY TableParts
<1>2. MannedOn(CleanJobs', state', worker', ctxDone')
  BY <1>1 DEF MannedOn
<1>3. AgreeOn(CleanJobs', active', queue', state')
  BY <1>1 DEF AgreeOn
<1>4. IdsKnown'
  BY <1>1 DEF IdsKnown
<1> QED BY <1>1, <1>2, <1>3, <1>4, TableAfter DEF TypeOK
-----------------------------------------------------------------------------
(* The requests and the rows. *)

\* The invariant in its parts, and what they say of the jobs, rows and records
\* a step meets.
LEMMA RecoveryParts ==
  ASSUME RecoveryInv
  PROVE  /\ TableInv /\ RequestTypeOK /\ LifeInv /\ RowsInv /\ PendingInv
         /\ JobsInv /\ SettledInv /\ FinishedInv /\ KeptInv /\ TypeOK /\ IdsKnown
         /\ \A o \in Job : o <= allocated =>
              /\ req[o] \in Request /\ req[o] # 0 /\ req[o] <= accepted /\ owner[o] # 0
              /\ id[o] \in JobID /\ id[o] <= jobCounter
         /\ \A n \in JobID : row[n] # "none" => rowReq[n] \in Request
         /\ \A o \in active \cup ToSet(queue) : o \in Job /\ o <= allocated
         /\ \A p \in pending : p \in Record /\ p.id \in JobID /\ p.req \in Request
<1>1. /\ TableInv /\ RequestTypeOK /\ LifeInv /\ RowsInv /\ PendingInv
      /\ JobsInv /\ SettledInv /\ FinishedInv /\ KeptInv /\ TypeOK /\ IdsKnown
  BY DEF RecoveryInv, TableInv
<1>2. MaxRequests \in Nat
  BY JobManagerAssumption, JobRecoveryAssumption
<1>3. \A o \in Job : o <= allocated =>
        req[o] \in Request /\ req[o] # 0 /\ req[o] <= accepted /\ owner[o] # 0
  BY <1>1, <1>2 DEF JobsInv, RequestTypeOK, Request
<1>4. \A n \in JobID : row[n] # "none" => rowReq[n] \in Request
  BY <1>1, <1>2 DEF RowsInv, RequestTypeOK, Request
<1>5. /\ \A o \in active \cup ToSet(queue) : o \in Job /\ o <= allocated
      /\ \A o \in Job : o <= allocated => id[o] \in JobID /\ id[o] <= jobCounter
  BY <1>1, TableParts
<1>6. \A p \in pending : p \in Record /\ p.id \in JobID /\ p.req \in Request
  BY <1>1 DEF RequestTypeOK, Record
<1> QED BY <1>1, <1>3, <1>4, <1>5, <1>6

\* What saving does to the rows when no job enters: those of fresh keys keep
\* their requests, the others belong to collided ones.
LEMMA SavedRows ==
  ASSUME RecoveryInv, TableInv', NEW rows, SaveState(rows), SaveSource,
         active' \subseteq active, ToSet(queue') \subseteq ToSet(queue),
         UNCHANGED <<jobCounter, allocated, id, accepted, req, owner, collided>>,
         \A m \in JobID : rows[m] # "none" => row[m] # "none", NEW n \in JobID
  PROVE  /\ Fresh(n) => /\ rowReq'[n] = rowReq[n]
                        /\ row[n] # "none" => rowOwner'[n] = rowOwner[n]
         /\ ~ Fresh(n) => rowReq'[n] \in collided
         /\ Fresh(n) => \/ /\ \A o \in active' : id[o] # n
                           /\ row'[n] = rows[n]
                        \/ /\ \E o \in active' : id[o] = n
                           /\ row'[n] \in {"queued", "running"}
         /\ row'[n] # "none" => n <= accepted /\ rowReq'[n] # 0 /\ rowOwner'[n] # 0
         /\ rowReq'[n] <= accepted
<1>1. /\ TableInv /\ RequestTypeOK /\ LifeInv /\ RowsInv /\ JobsInv /\ TypeOK
      /\ \A o \in Job : o <= allocated =>
           req[o] # 0 /\ req[o] <= accepted /\ owner[o] # 0 /\ id[o] <= jobCounter
      /\ \A o \in active \cup ToSet(queue) : o \in Job /\ o <= allocated
  BY RecoveryParts
<1>2. CASE /\ \A o \in active' \cup ToSet(queue') : id[o] # n
           /\ row'[n] = rows[n] /\ rowReq'[n] = rowReq[n] /\ rowOwner'[n] = rowOwner[n]
  <2>1. row'[n] # "none" => n <= accepted /\ rowReq[n] # 0 /\ rowOwner[n] # 0
    BY <1>1, <1>2 DEF RowsInv
  <2>2. rowReq[n] <= accepted
    BY <1>1 DEF RowsInv
  <2> QED BY <1>2, <2>1, <2>2 DEF Fresh
<1>3. CASE \E o \in active' \cup ToSet(queue') :
             /\ id[o] = n /\ row'[n] = Lower[state'[o]]
             /\ rowReq'[n] = req[o] /\ rowOwner'[n] # 0
             /\ rowOwner[n] # 0 => rowOwner'[n] = rowOwner[n]
  <2>1. PICK o \in active' \cup ToSet(queue') :
             /\ id[o] = n /\ row'[n] = Lower[state'[o]]
             /\ rowReq'[n] = req[o] /\ rowOwner'[n] # 0
             /\ rowOwner[n] # 0 => rowOwner'[n] = rowOwner[n]
    BY <1>3
  <2>2. o \in Job /\ o <= allocated
    BY <1>1
  <2>3. /\ ~ Fresh(n) => req[o] \in collided
        /\ Fresh(n) => rowReq[n] = req[o] /\ o \in CleanJobs
    BY <1>1, <2>1, <2>2, FreshKeys DEF JobsInv
  <2>4. row[n] # "none" => rowOwner[n] # 0
    BY <1>1 DEF RowsInv
  <2>5. n <= accepted
    <3>1. n <= jobCounter /\ jobCounter <= accepted
      BY <1>1, <2>1, <2>2 DEF LifeInv
    <3> QED BY <1>1, <3>1 DEF TypeOK, RequestTypeOK, JobID
  <2>6. ASSUME Fresh(n) PROVE o \in active' /\ row'[n] \in {"queued", "running"}
    <3>1. o \in CleanJobs'
      BY <2>3, <2>6 DEF CleanJobs
    <3>2. AgreeOn(CleanJobs', active', queue', state')
      BY DEF TableInv, AgreeOn
    <3>3. o \in active' /\ state'[o] \in {"QUEUED", "RUNNING"}
      BY <3>1, <3>2 DEF AgreeOn
    <3> QED BY <2>1, <3>3 DEF Lower
  <2> QED BY <1>1, <2>1, <2>2, <2>3, <2>4, <2>5, <2>6
<1>4. \A o \in Job : o <= allocated' => owner'[o] # 0
  BY <1>1
<1>5. \/ /\ \A o \in active' \cup ToSet(queue') : id'[o] # n
         /\ row'[n] = rows[n] /\ rowReq'[n] = rowReq[n] /\ rowOwner'[n] = rowOwner[n]
      \/ \E o \in active' \cup ToSet(queue') :
           /\ id'[o] = n /\ row'[n] = Lower[state'[o]]
           /\ rowReq'[n] = req'[o] /\ rowOwner'[n] # 0
           /\ rowOwner[n] # 0 => rowOwner'[n] = rowOwner[n]
  BY <1>4, SaveWrites
<1> QED BY <1>2, <1>3, <1>5

\* A method that takes nobody into the table: the rows in ended belong to
\* requests that may be forgotten, and no job or record has them any more.
LEMMA ShrinkKeeps ==
  ASSUME RecoveryInv, TableInv', RequestTypeOK',
         NEW rows \in [JobID -> RowStatus], SaveState(rows), SaveSource,
         active' \subseteq active, ToSet(queue') \subseteq ToSet(queue),
         pending' \subseteq pending,
         UNCHANGED <<jobCounter, allocated, id, accepted, req, owner, collided, mode,
                     recovery, lives>>,
         NEW ended \in SUBSET JobID,
         \A n \in JobID : n \notin ended => rows[n] = row[n],
         \A n \in ended :
           /\ rows[n] \notin {"queued", "running"} /\ (rows[n] # "none" => row[n] # "none")
           /\ RowLive(n) => rowReq[n] \in Settled'
           /\ Fresh(n) => /\ \A p \in pending' : p.id # n
                          /\ \A o \in active' : id[o] # n,
         \A r \in Settled : r \in Settled',
         \A o \in Job : worker'[o] = "returning" \/ o \in ctxDone' \/ state'[o] = "CANCELLED"
                          => req[o] \in Settled',
         ctxDone \subseteq ctxDone', \A o \in ctxDone' : o <= allocated,
         \A r \in finished' : r <= accepted,
         \A r \in finished' : \/ r \in finished \cup collided
                              \/ \E n \in ended : rowReq[n] = r /\ r # 0
  PROVE  RecoveryInv'
<1>1. /\ TableInv /\ RequestTypeOK /\ LifeInv /\ RowsInv /\ PendingInv
      /\ JobsInv /\ SettledInv /\ FinishedInv /\ KeptInv
      /\ \A o \in Job : o <= allocated => id[o] \in JobID
      /\ \A o \in active : o \in Job /\ o <= allocated
      /\ \A p \in pending : p.id \in JobID
  BY RecoveryParts
<1>2. \A m \in JobID : rows[m] # "none" => row[m] # "none"
  OBVIOUS
<1>3. \A n \in JobID :
        /\ Fresh(n) => /\ rowReq'[n] = rowReq[n]
                       /\ row[n] # "none" => rowOwner'[n] = rowOwner[n]
        /\ ~ Fresh(n) => rowReq'[n] \in collided
        /\ Fresh(n) => \/ /\ \A o \in active' : id[o] # n
                          /\ row'[n] = rows[n]
                       \/ /\ \E o \in active' : id[o] = n
                          /\ row'[n] \in {"queued", "running"}
        /\ row'[n] # "none" => n <= accepted /\ rowReq'[n] # 0 /\ rowOwner'[n] # 0
        /\ rowReq'[n] <= accepted
  BY <1>2, SavedRows
<1>4. \A n \in JobID : /\ Fresh(n)' <=> Fresh(n)
                       /\ Fresh(n) => rowReq'[n] = rowReq[n] /\ rowReq[n] \notin collided
                       /\ ~ Fresh(n) => rowReq'[n] \in collided
  BY <1>3 DEF Fresh
<1>5. \A n \in JobID : Fresh(n) /\ RowLive(n)' =>
        \/ \E o \in active' : id[o] = n
        \/ RowLive(n) /\ n \notin ended
  BY <1>3 DEF RowLive
<1>6. \A n \in JobID : Fresh(n) /\ RowLive(n) /\ n \notin ended => RowLive(n)'
  BY <1>3 DEF RowLive
<1>7. LifeInv'
  BY <1>1 DEF LifeInv
<1>8. RowsInv'
  <2>1. ASSUME NEW n \in JobID, NEW m \in JobID, n # m, rowReq'[n] # 0, Fresh(n)'
        PROVE  rowReq'[n] # rowReq'[m]
    <3>1. Fresh(n) /\ rowReq'[n] = rowReq[n] /\ rowReq[n] # 0 /\ rowReq[n] \notin collided
      BY <1>4, <2>1
    <3>2. rowReq[n] # rowReq[m]
      BY <1>1, <2>1, <3>1 DEF RowsInv
    <3> QED BY <1>4, <3>1, <3>2
  <2> QED BY <1>3, <2>1 DEF RowsInv
<1>9. PendingInv'
  <2>1. ASSUME NEW p \in pending'
        PROVE  /\ p.id <= accepted /\ p.req <= accepted
               /\ ~ Fresh(p.id)' => p.req \in collided
               /\ Fresh(p.id)' =>
                    /\ RowLive(p.id)' /\ rowReq'[p.id] = p.req /\ rowOwner'[p.id] = p.owner
                    /\ \A o \in Job : o <= allocated => id[o] # p.id
    <3>1. p \in pending /\ p.id \in JobID /\ (Fresh(p.id)' <=> Fresh(p.id))
      BY <1>1, <1>4, <2>1
    <3>2. /\ p.id <= accepted /\ p.req <= accepted
          /\ ~ Fresh(p.id) => p.req \in collided
      BY <1>1, <3>1 DEF PendingInv
    <3>3. ASSUME Fresh(p.id)
          PROVE  /\ RowLive(p.id)' /\ rowReq'[p.id] = p.req /\ rowOwner'[p.id] = p.owner
                 /\ \A o \in Job : o <= allocated => id[o] # p.id
      <4>1. /\ RowLive(p.id) /\ rowReq[p.id] = p.req /\ rowOwner[p.id] = p.owner
            /\ \A o \in Job : o <= allocated => id[o] # p.id
        BY <1>1, <3>1, <3>3 DEF PendingInv
      <4>2. p.id \notin ended
        BY <2>1, <3>3
      <4>3. row[p.id] # "none"
        BY <4>1 DEF RowLive
      <4> QED BY <1>3, <1>6, <3>1, <3>3, <4>1, <4>2, <4>3
    <3> QED BY <3>1, <3>2, <3>3
  <2>2. \A p \in pending' :
          /\ p.id <= accepted' /\ p.req <= accepted'
          /\ ~ Fresh(p.id)' => p.req \in collided'
          /\ Fresh(p.id)' =>
               /\ RowLive(p.id)' /\ rowReq'[p.id] = p.req /\ rowOwner'[p.id] = p.owner
               /\ \A o \in Job : o <= allocated' => id'[o] # p.id
    BY <2>1
  <2> QED BY <2>2 DEF PendingInv
<1>10. JobsInv'
  <2>1. \A o \in Job : o <= allocated => (rowReq'[id[o]] \in collided <=> ~ Fresh(id[o]))
    BY <1>1, <1>4 DEF Fresh
  <2>2. ASSUME NEW o \in Job, o <= allocated
        PROVE  /\ req[o] # 0 /\ req[o] <= accepted /\ owner[o] # 0
               /\ rowReq'[id[o]] \in collided => req[o] \in collided
               /\ rowReq'[id[o]] \notin collided =>
                    /\ rowReq'[id[o]] = req[o]
                    /\ \A p \in Job : p <= allocated /\ id[p] = id[o] => p = o
    BY <1>1, <1>4, <2>1, <2>2 DEF JobsInv
  <2>3. ASSUME NEW o \in active', rowReq'[id[o]] \notin collided
        PROVE  row'[id[o]] \in {"queued", "running"}
    <3>1. id[o] \in JobID /\ Fresh(id[o])
      BY <1>1, <2>1, <2>3
    <3> QED BY <1>3, <2>3, <3>1
  <2> QED BY <2>2, <2>3 DEF JobsInv, Fresh, RowLive
<1>11. SettledInv'
  <2>1. ASSUME mode = "stopping" PROVE active' \subseteq ctxDone'
    BY <1>1, <2>1 DEF SettledInv
  <2>2. ASSUME mode = "stopping", NEW n \in JobID, RowLive(n)'
        PROVE  rowReq'[n] \in Settled'
    <3>1. CASE ~ Fresh(n)
      BY <1>4, <2>2, <3>1 DEF Settled
    <3>2. CASE Fresh(n) /\ \E o \in active' : id[o] = n
      <4>1. PICK o \in active' : id[o] = n
        BY <3>2
      <4>2. o \in ctxDone' /\ rowReq[n] = req[o] /\ o \in Job
        BY <1>1, <2>1, <2>2, <3>2, <4>1, FreshKeys
      <4> QED BY <1>4, <2>2, <3>2, <4>2
    <3>3. CASE Fresh(n) /\ RowLive(n) /\ n \notin ended
      BY <1>1, <1>4, <2>2, <3>3 DEF SettledInv
    <3> QED BY <1>5, <2>2, <3>1, <3>2, <3>3
  <2> QED BY <2>1, <2>2 DEF SettledInv
<1>12. FinishedInv'
  <2>1. ASSUME NEW o \in active' PROVE req[o] \notin finished' \ collided
    <3>1. SUFFICES ASSUME req[o] \in finished', req[o] \notin collided PROVE FALSE
      OBVIOUS
    <3>2. /\ o \in CleanJobs /\ o \in Job /\ o <= allocated /\ req[o] \notin finished
          /\ id[o] \in JobID
      BY <1>1, <2>1, <3>1 DEF FinishedInv, CleanJobs
    <3>3. Fresh(id[o]) /\ rowReq[id[o]] = req[o]
      BY <1>1, <3>2, FreshKeys
    <3>4. PICK m \in ended : rowReq[m] = req[o] /\ req[o] # 0
      BY <3>1, <3>2
    <3>5. m = id[o]
      BY <1>1, <3>2, <3>3, <3>4 DEF RowsInv
    <3> QED BY <2>1, <3>3, <3>4, <3>5
  <2>2. ASSUME NEW n \in JobID, RowLive(n)' PROVE rowReq'[n] \notin finished' \ collided
    <3>1. CASE ~ Fresh(n)
      BY <1>4, <3>1
    <3>2. CASE Fresh(n) /\ \E o \in active' : id[o] = n
      <4>1. PICK o \in active' : id[o] = n
        BY <3>2
      <4>2. rowReq'[n] = req[o]
        BY <1>1, <1>4, <3>2, <4>1, FreshKeys
      <4> QED BY <2>1, <4>1, <4>2
    <3>3. CASE Fresh(n) /\ RowLive(n) /\ n \notin ended
      <4>1. rowReq'[n] = rowReq[n] /\ rowReq[n] \notin collided
        BY <1>4, <3>3
      <4>2. rowReq[n] \notin finished /\ rowReq[n] # 0
        BY <1>1, <3>3, <4>1 DEF FinishedInv, RowsInv, RowLive
      <4>3. \A m \in ended : rowReq[m] # rowReq[n]
        BY <1>1, <3>3, <4>2 DEF RowsInv
      <4> QED BY <4>1, <4>2, <4>3
    <3> QED BY <1>5, <2>2, <3>1, <3>2, <3>3
  <2> QED BY <2>1, <2>2 DEF FinishedInv
<1>13. KeptInv'
  <2>1. ASSUME NEW r \in 1..accepted, r \notin Settled'
        PROVE  \E n \in JobID : RowLive(n)' /\ rowReq'[n] = r
    <3>1. r \notin Settled /\ r \notin collided
      BY <2>1 DEF Settled
    <3>2. PICK n \in JobID : RowLive(n) /\ rowReq[n] = r
      BY <1>1, <3>1 DEF KeptInv
    <3>3. Fresh(n) /\ n \notin ended
      BY <2>1, <3>1, <3>2 DEF Fresh
    <3> QED BY <1>4, <1>6, <3>2, <3>3
  <2> QED BY <2>1 DEF KeptInv
<1> QED BY <1>7, <1>8, <1>9, <1>10, <1>11, <1>12, <1>13 DEF RecoveryInv

\* SaveState of goroutines and of /restart.
LEMMA SavesKeepsRecovery == RecoveryInv /\ Saves => RecoveryInv'
<1>1. SUFFICES ASSUME RecoveryInv, Saves PROVE RecoveryInv'
  OBVIOUS
<1>2. /\ TableInv /\ RequestTypeOK /\ LifeInv /\ SettledInv /\ FinishedInv /\ TypeOK
  BY <1>1, RecoveryParts
<1>3. /\ UNCHANGED <<maxConcurrency, jobCounter, allocated, id, active, queue, state,
                     worker, ctxDone>>
      /\ UNCHANGED <<requestVars, lifeVars>>
      /\ SaveState(row) /\ SaveSource
  BY <1>1 DEF Saves, SaveStateNow
<1>4. row \in [JobID -> RowStatus] /\ row' \in [JobID -> RowStatus]
  BY <1>2, <1>3, SavedRowsAreTyped DEF TypeOK
<1>5. TableInv'
  <2>1. CleanJobs' = CleanJobs
    BY <1>3 DEF CleanJobs, requestVars
  <2> QED BY <1>2, <1>3, <1>4, <2>1, RowStepKeepsTable DEF TypeOK
<1>6. RequestTypeOK'
  <2>1. rowReq' \in [JobID -> 0..MaxRequests] /\ rowOwner' \in [JobID -> 0..MaxRequests]
    BY <1>2, <1>3, <1>5, SavedSourceIsTyped DEF RequestTypeOK, requestVars
  <2> QED BY <1>2, <1>3, <2>1 DEF RequestTypeOK, requestVars, lifeVars
<1>7. Settled' = Settled
  BY <1>3 DEF Settled, requestVars
<1>8. \A o \in Job : worker'[o] = "returning" \/ o \in ctxDone' \/ state'[o] = "CANCELLED"
                       => req[o] \in Settled'
  BY <1>2, <1>3, <1>7 DEF SettledInv
<1>9. /\ UNCHANGED <<jobCounter, allocated, id, accepted, req, owner, collided, mode,
                     recovery, lives, active, pending, ctxDone, finished>>
      /\ ToSet(queue') = ToSet(queue)
  BY <1>3 DEF requestVars, lifeVars
<1>10. /\ {} \in SUBSET JobID /\ \A o \in ctxDone' : o <= allocated
       /\ \A r \in finished' : r <= accepted
  BY <1>2, <1>9 DEF LifeInv, FinishedInv
<1> QED BY <1>1, <1>3, <1>4, <1>5, <1>6, <1>7, <1>8, <1>9, <1>10, ShrinkKeeps

\* /cancel of a running and of a queued job.
LEMMA CancelKeepsRecovery ==
  ASSUME NEW n \in JobID PROVE RecoveryInv /\ Cancel(n) => RecoveryInv'
<1>1. SUFFICES ASSUME RecoveryInv, Cancel(n) PROVE RecoveryInv'
  OBVIOUS
<1> DEFINE st == [j \in Job |-> IF j \in Entry(n) THEN "CANCELLED" ELSE state[j]]
<1>2. /\ TableInv /\ RequestTypeOK /\ LifeInv /\ SettledInv /\ FinishedInv /\ TypeOK
      /\ JobsInv /\ MannedOn(CleanJobs, state, worker, ctxDone)
      /\ \A o \in Job : o <= allocated => req[o] \in Request
      /\ \A o \in active : o \in Job /\ o <= allocated
  BY <1>1, RecoveryParts DEF TableInv
<1>3. /\ Promote(active \ Entry(n), Unqueue(n), st, worker)
      /\ ctxDone' = ctxDone \cup Entry(n)
      /\ UNCHANGED <<maxConcurrency, jobCounter, allocated, id>>
      /\ SaveState(row) /\ SaveSource
      /\ cancelled' = cancelled \cup {req[o] : o \in Entry(n)}
      /\ UNCHANGED <<accepted, req, owner, told, finished, signalled, collided, mode,
                     recovery, lives, pending>>
  BY <1>1 DEF Cancel, CancelJob, lifeVars
<1>4. Entry(n) \subseteq active /\ \A o \in Entry(n) : o \in Job /\ o <= allocated
  BY <1>2 DEF Entry
<1>5. st \in [Job -> JobState] /\ worker \in [Job -> Worker] /\ row \in [JobID -> RowStatus]
  BY <1>2 DEF TypeOK, JobState
<1>6. /\ \A o \in Job : o \notin Entry(n) => st[o] = state[o]
      /\ \A o \in Entry(n) : st[o] = "CANCELLED"
  BY <1>4
<1>7. MannedOn(CleanJobs, st, worker, ctxDone')
  <2>1. ASSUME NEW o \in CleanJobs, o \in Entry(n)
        PROVE  st[o] = "CANCELLED" /\ o \in ctxDone'
    BY <1>3, <1>6, <2>1
  <2>2. ASSUME NEW o \in CleanJobs, o \notin Entry(n) PROVE st[o] = state[o]
    BY <1>6, <2>2 DEF CleanJobs
  <2>3. ctxDone \subseteq ctxDone'
    BY <1>3
  <2> HIDE DEF st
  <2> QED BY <1>2, <2>1, <2>2, <2>3 DEF MannedOn
<1>8. ctxDone' \subseteq Job /\ \A o \in ctxDone' : o <= allocated
  BY <1>2, <1>3, <1>4 DEF TypeOK, LifeInv
<1> HIDE DEF st
<1>9. /\ TableInv' /\ active' = active \ Entry(n) /\ ToSet(queue') \subseteq ToSet(queue)
      /\ \A o \in Job : state'[o] = st[o] \/ state'[o] = "RUNNING"
      /\ \A o \in Job : worker'[o] = worker[o] \/ worker'[o] = "transfer"
  BY <1>2, <1>3, <1>5, <1>6, <1>7, <1>8, WithdrawKeepsTable
<1>10. cancelled' \subseteq Request
  BY <1>2, <1>3, <1>4 DEF RequestTypeOK
<1>11. RequestTypeOK'
  <2>1. rowReq' \in [JobID -> 0..MaxRequests] /\ rowOwner' \in [JobID -> 0..MaxRequests]
    BY <1>2, <1>3, <1>9, SavedSourceIsTyped DEF RequestTypeOK
  <2> QED BY <1>2, <1>3, <1>10, <2>1 DEF RequestTypeOK
<1>12. (\A r \in Settled : r \in Settled') /\ \A o \in Entry(n) : req[o] \in Settled'
  BY <1>3 DEF Settled
<1>13. \A o \in Job : worker'[o] = "returning" \/ o \in ctxDone' \/ state'[o] = "CANCELLED"
                        => req[o] \in Settled'
  <2>1. ASSUME NEW o \in Job, o \notin Entry(n),
               worker'[o] = "returning" \/ o \in ctxDone' \/ state'[o] = "CANCELLED"
        PROVE  worker[o] = "returning" \/ o \in ctxDone \/ state[o] = "CANCELLED"
    BY <1>3, <1>6, <1>9, <2>1
  <2> QED BY <1>2, <1>12, <2>1 DEF SettledInv
<1>14. /\ {} \in SUBSET JobID /\ active' \subseteq active /\ ctxDone \subseteq ctxDone'
       /\ \A r \in finished' : r <= accepted
  BY <1>2, <1>3, <1>9 DEF FinishedInv
<1> QED BY <1>1, <1>3, <1>5, <1>8, <1>9, <1>11, <1>12, <1>13, <1>14, ShrinkKeeps

\* /cancelall.
LEMMA CancelAllKeepsRecovery == RecoveryInv /\ CancelAll => RecoveryInv'
<1>1. SUFFICES ASSUME RecoveryInv, CancelAll PROVE RecoveryInv'
  OBVIOUS
<1>2. /\ TableInv /\ RequestTypeOK /\ LifeInv /\ SettledInv /\ FinishedInv /\ TypeOK
      /\ \A o \in Job : o <= allocated => req[o] \in Request
      /\ \A o \in active : o \in Job /\ o <= allocated
  BY <1>1, RecoveryParts
<1>3. /\ CancelAllJobs
      /\ ctxDone' = ctxDone \cup active
      /\ UNCHANGED <<jobCounter, allocated, id, worker>>
      /\ cancelled' = cancelled \cup {req[o] : o \in active}
      /\ UNCHANGED <<accepted, req, owner, told, finished, signalled, collided, rowReq,
                     rowOwner, mode, recovery, lives, pending>>
  BY <1>1 DEF CancelAll, CancelAllJobs, lifeVars, rowVars
<1>4. /\ TableInv' /\ active' = {} /\ ToSet(queue') = {} /\ SaveState(row)
      /\ \A o \in Job : state'[o] = state[o] \/ (o \in active /\ state'[o] = "CANCELLED")
  BY <1>2, <1>3, CancelAllKeepsTable
<1>5. SaveSource
  <2>1. \A n \in JobID : SavedAs(n) = {}
    BY <1>4 DEF SavedAs
  <2>2. rowReq = [n \in JobID |-> rowReq[n]] /\ rowOwner = [n \in JobID |-> rowOwner[n]]
    BY <1>2 DEF RequestTypeOK
  <2>3. /\ [n \in JobID |-> rowReq[n]]
             = [n \in JobID |-> IF SavedAs(n) = {} THEN rowReq[n]
                                ELSE req'[CHOOSE o \in SavedAs(n) : TRUE]]
        /\ [n \in JobID |-> rowOwner[n]]
             = [n \in JobID |-> IF SavedAs(n) = {} \/ rowOwner[n] # 0
                                  THEN rowOwner[n]
                                  ELSE owner'[CHOOSE o \in SavedAs(n) : TRUE]]
    BY <2>1
  <2> QED BY <1>3, <2>2, <2>3 DEF SaveSource
<1>6. RequestTypeOK'
  <2>1. cancelled' \subseteq Request
    BY <1>2, <1>3 DEF RequestTypeOK
  <2> QED BY <1>2, <1>3, <2>1 DEF RequestTypeOK
<1>7. (\A r \in Settled : r \in Settled') /\ \A o \in active : req[o] \in Settled'
  BY <1>3 DEF Settled
<1>8. \A o \in Job : worker'[o] = "returning" \/ o \in ctxDone' \/ state'[o] = "CANCELLED"
                       => req[o] \in Settled'
  BY <1>2, <1>3, <1>4, <1>7 DEF SettledInv
<1>9. /\ {} \in SUBSET JobID /\ active' \subseteq active /\ ctxDone \subseteq ctxDone'
      /\ ToSet(queue') \subseteq ToSet(queue)
      /\ row \in [JobID -> RowStatus] /\ \A o \in ctxDone' : o <= allocated
      /\ \A r \in finished' : r <= accepted
  BY <1>2, <1>3, <1>4 DEF LifeInv, TypeOK, FinishedInv
<1> QED BY <1>1, <1>3, <1>4, <1>5, <1>6, <1>7, <1>8, <1>9, ShrinkKeeps

\* FinishJob: the job's row becomes "completed" if the table still had it.
LEMMA FinishesKeepsRecovery ==
  ASSUME NEW o \in Job PROVE RecoveryInv /\ Finishes(o) => RecoveryInv'
<1>1. SUFFICES ASSUME RecoveryInv, Finishes(o) PROVE RecoveryInv'
  OBVIOUS
<1> DEFINE n == id[o]
           entry == Entry(n)
           st == [j \in Job |-> IF j \in entry THEN "COMPLETED" ELSE state[j]]
           w == [worker EXCEPT ![o] = "done"]
           rows == IF entry = {} THEN row ELSE CompleteRow(row, n, "completed")
           ended == IF entry = {} THEN {} ELSE {n}
<1>2. /\ TableInv /\ RequestTypeOK /\ LifeInv /\ RowsInv /\ PendingInv /\ JobsInv
      /\ SettledInv /\ FinishedInv /\ TypeOK
      /\ AgreeOn(CleanJobs, active, queue, state)
      /\ MannedOn(CleanJobs, state, worker, ctxDone)
      /\ \A j \in Job : j <= allocated => req[j] \in Request /\ req[j] <= accepted
      /\ \A j \in active : j \in Job /\ j <= allocated
  BY <1>1, RecoveryParts DEF TableInv
<1>3. /\ worker[o] = "returning"
      /\ Promote(active \ entry, Unqueue(n), st, w)
      /\ ctxDone' = ctxDone \cup entry
      /\ UNCHANGED <<maxConcurrency, jobCounter, allocated, id>>
      /\ SaveState(rows) /\ SaveSource
      /\ finished' = finished \cup {req[j] : j \in entry}
      /\ UNCHANGED <<accepted, req, owner, cancelled, told, signalled, collided, mode,
                     recovery, lives, pending>>
  BY <1>1 DEF Finishes, FinishJob, lifeVars
<1>4. o <= allocated /\ n \in JobID /\ req[o] \in Request
  BY <1>1, <1>2, <1>3, TableParts, RecoveryParts
<1>5. /\ entry \subseteq active /\ \A j \in entry : j \in Job /\ j <= allocated /\ id[j] = n
      /\ \A j \in active : id[j] = n => j \in entry
  BY <1>2 DEF Entry
<1>6. /\ \A j \in entry : Fresh(n) \/ j \in CleanJobs => j = o
      /\ \A j \in entry : ~ Fresh(n) => req[j] \in collided
      /\ Fresh(n) => rowReq[n] = req[o]
  BY <1>2, <1>4, <1>5, FreshKeys DEF JobsInv
<1>7. row \in [JobID -> RowStatus] /\ rows \in [JobID -> RowStatus]
  BY <1>2, <1>4, CompletedRowsAreTyped DEF TypeOK, RowStatus
<1>8. /\ st \in [Job -> JobState] /\ w \in [Job -> Worker]
      /\ \A j \in Job : j \notin entry => st[j] = state[j]
      /\ \A j \in entry : st[j] = "COMPLETED"
      /\ \A j \in Job : j # o => w[j] = worker[j]
      /\ w[o] = "done"
  BY <1>2, <1>5 DEF TypeOK, JobState, Worker
<1>9. \A j \in Job : j > allocated => w[j] = worker[j]
  BY <1>2, <1>4, <1>8, JobIsNat DEF TypeOK
<1>10. /\ \A k \in JobID : k \notin ended => rows[k] = row[k]
       /\ \A k \in ended : k = n /\ rows[k] \notin {"queued", "running"}
                           /\ (rows[k] # "none" => row[k] # "none")
  <2>1. CASE entry = {}
    BY <2>1
  <2>2. CASE entry # {}
    <3>1. rows = CompleteRow(row, n, "completed") /\ ended = {n}
      BY <2>2
    <3>2. \A k \in JobID : k # n => rows[k] = row[k]
      BY <1>7, <3>1 DEF CompleteRow
    <3>3. rows[n] \notin {"queued", "running"} /\ (rows[n] # "none" => row[n] # "none")
      BY <1>4, <1>7, <3>1 DEF CompleteRow
    <3> QED BY <3>1, <3>2, <3>3
  <2> QED BY <2>1, <2>2
<1>11. /\ ended \in SUBSET JobID /\ (entry = {} => ended = {})
       /\ (entry # {} => ended = {n})
  BY <1>4
<1>12. MannedOn(CleanJobs, st, w, ctxDone')
  <2>1. ASSUME NEW j \in CleanJobs, j # o
        PROVE  st[j] = state[j] /\ w[j] = worker[j]
    BY <1>6, <1>8, <2>1 DEF CleanJobs
  <2>2. ASSUME o \in CleanJobs PROVE st[o] \notin {"QUEUED", "RUNNING"} /\ w[o] = "done"
    <3>1. CASE o \in entry
      BY <1>8, <3>1
    <3>2. CASE o \notin entry
      <4>1. o \notin active
        BY <1>5, <3>2
      <4> QED BY <1>2, <1>8, <2>2, <3>2, <4>1 DEF AgreeOn
    <3> QED BY <3>1, <3>2
  <2>3. ctxDone \subseteq ctxDone'
    BY <1>3
  <2> HIDE DEF st, w
  <2>4. ASSUME NEW j \in CleanJobs
        PROVE  /\ st[j] = "RUNNING" => w[j] \in Working
               /\ st[j] = "QUEUED" => w[j] = "none"
               /\ w[j] \in Working =>
                    st[j] = "RUNNING" \/ (st[j] = "CANCELLED" /\ j \in ctxDone')
    <3>1. CASE j = o
      BY <2>2, <2>4, <3>1 DEF Working
    <3>2. CASE j # o
      BY <1>2, <2>1, <2>3, <2>4, <3>2 DEF MannedOn
    <3> QED BY <3>1, <3>2
  <2> QED BY <2>4 DEF MannedOn
<1>13. ctxDone' \subseteq Job /\ \A j \in ctxDone' : j <= allocated
  BY <1>2, <1>3, <1>5 DEF TypeOK, LifeInv
<1>14. \A j \in Entry(n) : st[j] \notin {"QUEUED", "RUNNING"}
  BY <1>8
<1> HIDE DEF st, w, rows, ended
<1>15. /\ TableInv' /\ active' = active \ entry /\ ToSet(queue') \subseteq ToSet(queue)
       /\ \A j \in Job : state'[j] = st[j] \/ state'[j] = "RUNNING"
       /\ \A j \in Job : worker'[j] = w[j] \/ worker'[j] = "transfer"
  <2>1. UNCHANGED <<maxConcurrency, jobCounter, allocated, id, req, collided>>
    BY <1>3
  <2>2. ctxDone' \subseteq Job /\ Promote(active \ Entry(n), Unqueue(n), st, w)
    BY <1>3, <1>13
  <2>3. \A j \in Job : j \notin Entry(n) => st[j] = state[j]
    BY <1>8
  <2> HIDE DEF n, entry
  <2> QED
    BY <1>2, <1>3, <1>4, <1>7, <1>8, <1>9, <1>12, <1>14, <2>1, <2>2, <2>3,
       WithdrawKeepsTable DEF entry
<1>16. RequestTypeOK'
  <2>1. finished' \subseteq Request
    BY <1>2, <1>3, <1>5 DEF RequestTypeOK
  <2>2. rowReq' \in [JobID -> 0..MaxRequests] /\ rowOwner' \in [JobID -> 0..MaxRequests]
    BY <1>2, <1>3, <1>15, SavedSourceIsTyped DEF RequestTypeOK
  <2> QED BY <1>2, <1>3, <2>1, <2>2 DEF RequestTypeOK
<1>17. Settled' = Settled /\ req[o] \in Settled /\ collided \subseteq Settled
  BY <1>2, <1>3 DEF Settled, SettledInv
<1>18. \A j \in entry : req[j] \in Settled
  BY <1>6, <1>17
<1>19. \A j \in Job : worker'[j] = "returning" \/ j \in ctxDone' \/ state'[j] = "CANCELLED"
                        => req[j] \in Settled'
  <2>1. ASSUME NEW j \in Job, j # o, j \notin entry,
               worker'[j] = "returning" \/ j \in ctxDone' \/ state'[j] = "CANCELLED"
        PROVE  worker[j] = "returning" \/ j \in ctxDone \/ state[j] = "CANCELLED"
    BY <1>3, <1>8, <1>15, <2>1
  <2> QED BY <1>2, <1>17, <1>18, <2>1 DEF SettledInv
<1>20. ASSUME NEW k \in ended
       PROVE  /\ rows[k] \notin {"queued", "running"} /\ (rows[k] # "none" => row[k] # "none")
              /\ RowLive(k) => rowReq[k] \in Settled'
              /\ Fresh(k) => /\ \A p \in pending' : p.id # k
                             /\ \A j \in active' : id[j] # k
  <2>1. k = n
    BY <1>10
  <2>2. rowReq[n] \in Settled
    BY <1>6, <1>17 DEF Fresh
  <2>3. \A j \in active' : id[j] # n
    BY <1>5, <1>15
  <2>4. ASSUME Fresh(n), NEW p \in pending, p.id = n PROVE FALSE
    BY <1>2, <1>4, <2>4 DEF PendingInv
  <2> QED BY <1>3, <1>10, <1>17, <2>1, <2>2, <2>3, <2>4
<1>21. ASSUME NEW r \in finished', r \notin finished \cup collided
       PROVE  \E k \in ended : rowReq[k] = r /\ r # 0
  <2>1. PICK j \in entry : r = req[j]
    BY <1>3, <1>21
  <2>2. j = o /\ rowReq[n] = r /\ n \in ended
    BY <1>6, <1>11, <1>21, <2>1
  <2>3. r # 0
    BY <1>4, <2>1, <2>2 DEF Request
  <2> QED BY <2>2, <2>3
<1>22. \A r \in finished' : r <= accepted
  BY <1>2, <1>3, <1>5 DEF FinishedInv
<1>23. /\ active' \subseteq active /\ ctxDone \subseteq ctxDone' /\ pending' \subseteq pending
       /\ \A r \in Settled : r \in Settled'
       /\ UNCHANGED <<jobCounter, allocated, id, accepted, req, owner, collided, mode,
                      recovery, lives>>
  BY <1>3, <1>15, <1>17
<1> QED
  BY <1>1, <1>3, <1>7, <1>10, <1>11, <1>13, <1>15, <1>16, <1>19, <1>20, <1>21, <1>22,
     <1>23, ShrinkKeeps

\* A record whose source is gone: its row is closed, and what the table holds
\* under its key, which no untouched job has, leaves it.
LEMMA RejectKeepsRecovery ==
  ASSUME NEW p \in pending PROVE RecoveryInv /\ Reject(p) => RecoveryInv'
<1>1. SUFFICES ASSUME RecoveryInv, Reject(p) PROVE RecoveryInv'
  OBVIOUS
<1> DEFINE n == p.id
           rows == CompleteRow(row, n, "cancelled")
<1>2. /\ TableInv /\ RequestTypeOK /\ LifeInv /\ RowsInv /\ PendingInv /\ JobsInv
      /\ SettledInv /\ FinishedInv /\ TypeOK /\ IdsKnown
      /\ AgreeOn(CleanJobs, active, queue, state)
      /\ MannedOn(CleanJobs, state, worker, ctxDone)
      /\ p \in Record /\ n \in JobID /\ p.req \in Request
      /\ \A o \in active \cup ToSet(queue) : o \in Job /\ o <= allocated
  BY <1>1, RecoveryParts DEF TableInv
<1>3. /\ pending' = pending \ {p}
      /\ told' = IF mode = "stopping" THEN told ELSE told \cup {p.req}
      /\ active' = active \ Entry(n) /\ queue' = Unqueue(n)
      /\ UNCHANGED <<maxConcurrency, jobCounter, allocated, id, state, worker, ctxDone,
                     accepted, req, owner, cancelled, finished, signalled, collided, mode,
                     recovery, lives>>
      /\ SaveState(rows) /\ SaveSource
  BY <1>1 DEF Reject
<1>4. /\ Fresh(n) => RowLive(n) /\ rowReq[n] = p.req
      /\ ~ Fresh(n) => rowReq[n] \in collided
  BY <1>2 DEF PendingInv, Fresh
<1>5. \A o \in CleanJobs : o \in Job /\ (o <= allocated => id[o] # n)
  <2>1. ASSUME NEW o \in CleanJobs, o <= allocated, id[o] = n PROVE FALSE
    <3>1. o \in Job /\ Fresh(n)
      BY <1>2, <2>1, FreshKeys DEF CleanJobs
    <3> QED BY <1>2, <2>1, <3>1 DEF PendingInv
  <2> QED BY <2>1 DEF CleanJobs
<1>6. row \in [JobID -> RowStatus] /\ rows \in [JobID -> RowStatus]
  BY <1>2, CompletedRowsAreTyped DEF TypeOK, RowStatus
<1>7. /\ \A k \in JobID : k \notin {n} => rows[k] = row[k]
      /\ rows[n] \notin {"queued", "running"} /\ (rows[n] # "none" => row[n] # "none")
  BY <1>2, <1>6 DEF CompleteRow
<1> HIDE DEF rows
<1>8. /\ queue' \in Seq(Job) /\ Increasing(queue') /\ ToSet(queue') \subseteq ToSet(queue)
      /\ \A o \in ToSet(queue) : id[o] # n => o \in ToSet(queue')
  BY <1>2, <1>3, UnqueueKeeps
<1>9. CleanJobs' = CleanJobs
  BY <1>3 DEF CleanJobs
<1>10. AgreeOn(CleanJobs', active', queue', state')
  <2>1. ASSUME NEW o \in CleanJobs
        PROVE  /\ o \in active' <=> o \in active
               /\ o \in ToSet(queue') <=> o \in ToSet(queue)
    BY <1>2, <1>3, <1>5, <1>8, <2>1 DEF Entry
  <2> QED BY <1>2, <1>3, <1>9, <2>1 DEF AgreeOn
<1>11. MannedOn(CleanJobs', state', worker', ctxDone')
  BY <1>2, <1>3, <1>9
<1>12. row' \in [JobID -> RowStatus] /\ active' \subseteq Job
  <2>1. active' \subseteq Job
    BY <1>2, <1>3 DEF TypeOK
  <2> QED BY <1>2, <1>3, <1>6, <1>8, <2>1, SavedRowsAreTyped DEF TypeOK
<1>13. IdsKnown'
  <2>1. \A o \in active' \cup ToSet(queue') : o <= allocated
    BY <1>2, <1>3, <1>8
  <2> QED BY <1>2, <1>3, <1>8, <2>1 DEF IdsKnown
<1>14. TableInv'
  BY <1>2, <1>3, <1>8, <1>10, <1>11, <1>12, <1>13, TableAfter DEF TypeOK
<1>15. RequestTypeOK'
  <2>1. told' \subseteq Request /\ pending' \subseteq Record
    BY <1>2, <1>3 DEF RequestTypeOK
  <2>2. rowReq' \in [JobID -> 0..MaxRequests] /\ rowOwner' \in [JobID -> 0..MaxRequests]
    BY <1>2, <1>3, <1>14, SavedSourceIsTyped DEF RequestTypeOK
  <2> QED BY <1>2, <1>3, <2>1, <2>2 DEF RequestTypeOK
<1>16. (\A r \in Settled : r \in Settled') /\ (RowLive(n) => rowReq[n] \in Settled')
  <2>1. \A r \in Settled : r \in Settled'
    BY <1>3 DEF Settled
  <2>2. CASE ~ Fresh(n)
    BY <1>4, <2>1, <2>2 DEF Settled
  <2>3. CASE Fresh(n) /\ mode = "stopping"
    BY <1>2, <2>1, <2>3 DEF SettledInv
  <2>4. CASE Fresh(n) /\ mode # "stopping"
    BY <1>3, <1>4, <2>4 DEF Settled
  <2> QED BY <2>1, <2>2, <2>3, <2>4
<1>17. \A o \in Job : worker'[o] = "returning" \/ o \in ctxDone' \/ state'[o] = "CANCELLED"
                        => req[o] \in Settled'
  BY <1>2, <1>3, <1>16 DEF SettledInv
<1>18. ASSUME Fresh(n), NEW q \in pending' PROVE q.id # n
  <2>1. SUFFICES ASSUME q.id = n PROVE q = p
    BY <1>3, <1>18
  <2>2. q \in Record /\ q.req = rowReq[n] /\ q.owner = rowOwner[n]
    BY <1>2, <1>3, <1>18, <2>1 DEF PendingInv, RequestTypeOK
  <2>3. p.req = rowReq[n] /\ p.owner = rowOwner[n]
    BY <1>2, <1>18 DEF PendingInv
  <2> QED BY <1>2, <2>1, <2>2, <2>3 DEF Record
<1>19. \A o \in active' : id[o] # n
  BY <1>3 DEF Entry
<1>20. \A k \in {n} :
         /\ rows[k] \notin {"queued", "running"} /\ (rows[k] # "none" => row[k] # "none")
         /\ RowLive(k) => rowReq[k] \in Settled'
         /\ Fresh(k) => /\ \A q \in pending' : q.id # k
                        /\ \A o \in active' : id[o] # k
  BY <1>7, <1>16, <1>18, <1>19
<1>21. /\ {n} \in SUBSET JobID /\ active' \subseteq active /\ pending' \subseteq pending
       /\ \A o \in ctxDone' : o <= allocated
       /\ ctxDone \subseteq ctxDone' /\ \A r \in finished' : r <= accepted
       /\ finished' = finished
       /\ UNCHANGED <<jobCounter, allocated, id, accepted, req, owner, collided, mode,
                      recovery, lives>>
  BY <1>2, <1>3 DEF LifeInv, FinishedInv
<1> QED
  BY <1>1, <1>3, <1>6, <1>7, <1>8, <1>14, <1>15, <1>16, <1>17, <1>20, <1>21, ShrinkKeeps

\* The steps of a goroutine before FinishJob touch nothing but its place and,
\* with the failure report, its row: they forget no request they should keep.
LEMMA GoroutineKeeps ==
  ASSUME RecoveryInv, TableInv',
         NEW o \in Job, worker[o] \in Working, worker[o] # "returning",
         NEW to \in Working, worker' = [worker EXCEPT ![o] = to],
         to = "returning" => req[o] \in Settled',
         row' \in {row, CompleteRow(row, id[o], "failed")},
         row' # row => to = "returning",
         UNCHANGED <<jobCounter, allocated, id, active, state, ctxDone, rowVars,
                     lifeVars>>,
         UNCHANGED <<accepted, req, owner, cancelled, finished, signalled, collided>>,
         told' \in {told, told \cup {req[o]}}
  PROVE  RecoveryInv'
<1> DEFINE n == id[o]
<1>1. /\ TableInv /\ RequestTypeOK /\ LifeInv /\ RowsInv /\ PendingInv /\ JobsInv
      /\ SettledInv /\ FinishedInv /\ KeptInv /\ TypeOK /\ IdsKnown
      /\ \A p \in pending : p.id \in JobID
  BY RecoveryParts
<1>2. /\ o <= allocated /\ n \in JobID /\ req[o] \in Request
      /\ Fresh(n) => /\ rowReq[n] = req[o]
                     /\ \A j \in Job : j <= allocated /\ id[j] = n => j = o
  BY <1>1, TableParts, RecoveryParts DEF Working, JobsInv
<1>3. /\ UNCHANGED <<jobCounter, allocated, id, active, state, ctxDone, rowReq, rowOwner,
                     mode, recovery, lives, pending>>
      /\ UNCHANGED <<accepted, req, owner, cancelled, finished, signalled, collided>>
  BY DEF rowVars, lifeVars
<1>4. /\ \A m \in JobID : m # n => row'[m] = row[m]
      /\ row' # row => row[n] # "none" /\ row'[n] = "failed" /\ to = "returning"
  BY <1>1, <1>2 DEF CompleteRow, TypeOK
<1>5. \A m \in JobID : RowLive(m)' => RowLive(m)
  BY <1>4 DEF RowLive
<1>6. \A m \in JobID : RowLive(m) => RowLive(m)' \/ (m = n /\ to = "returning")
  BY <1>4 DEF RowLive
<1>7. \A m \in JobID : row'[m] # "none" => row[m] # "none"
  BY <1>4
<1>8. (\A r \in Settled : r \in Settled') /\ told' \subseteq Request
  BY <1>1, <1>2, <1>3 DEF Settled, RequestTypeOK
<1>9. RequestTypeOK'
  BY <1>1, <1>3, <1>8 DEF RequestTypeOK
<1>10. LifeInv'
  BY <1>1, <1>3 DEF LifeInv
<1>11. RowsInv'
  <2>1. \A m \in JobID : row'[m] # "none" => m <= accepted /\ rowReq[m] # 0 /\ rowOwner[m] # 0
    BY <1>1, <1>7 DEF RowsInv
  <2>2. /\ \A m \in JobID : rowReq[m] <= accepted
        /\ \A m, k \in JobID : m # k /\ rowReq[m] # 0 /\ Fresh(m) => rowReq[m] # rowReq[k]
    BY <1>1 DEF RowsInv
  <2> QED BY <1>3, <2>1, <2>2 DEF RowsInv, Fresh
<1>12. PendingInv'
  <2>1. ASSUME NEW p \in pending, Fresh(p.id) PROVE RowLive(p.id)'
    <3>1. p.id # n /\ p.id \in JobID /\ RowLive(p.id)
      BY <1>1, <1>2, <2>1 DEF PendingInv
    <3> QED BY <1>6, <3>1
  <2> QED BY <1>1, <1>3, <2>1 DEF PendingInv, Fresh
<1>13. JobsInv'
  <2>1. \A j \in Job : j <= allocated =>
          /\ req[j] # 0 /\ req[j] <= accepted /\ owner[j] # 0
          /\ ~ Fresh(id[j]) => req[j] \in collided
          /\ Fresh(id[j]) =>
               /\ rowReq[id[j]] = req[j]
               /\ \A p \in Job : p <= allocated /\ id[p] = id[j] => p = j
    BY <1>1 DEF JobsInv
  <2>2. ASSUME NEW j \in active, Fresh(id[j])
        PROVE  row'[id[j]] \in {"queued", "running"}
               \/ (row'[id[j]] = "failed" /\ worker'[j] = "returning")
    <3>1. /\ j \in Job /\ j <= allocated /\ id[j] \in JobID
      BY <1>1, TableParts
    <3>2. row[id[j]] \in {"queued", "running"}
          \/ (row[id[j]] = "failed" /\ worker[j] = "returning")
      BY <1>1, <2>2 DEF JobsInv, RowLive
    <3>3. CASE j = o
      <4>1. row[n] \in {"queued", "running"} /\ worker'[o] = to
        BY <1>1, <3>2, <3>3 DEF TypeOK
      <4> QED BY <1>4, <3>3, <4>1
    <3>4. CASE j # o
      <4>1. id[j] # n
        BY <1>2, <2>2, <3>1, <3>4
      <4>2. worker'[j] = worker[j]
        BY <1>1, <3>1, <3>4 DEF TypeOK
      <4> QED BY <1>4, <3>1, <3>2, <4>1, <4>2
    <3> QED BY <3>3, <3>4
  <2> QED BY <1>3, <2>1, <2>2 DEF JobsInv, RowLive, Fresh
<1>14. SettledInv'
  <2>1. \A j \in Job : worker'[j] = "returning" \/ j \in ctxDone \/ state[j] = "CANCELLED" =>
          req[j] \in Settled'
    <3>1. ASSUME NEW j \in Job, j # o PROVE worker'[j] = worker[j]
      BY <1>1, <3>1 DEF TypeOK
    <3>2. worker'[o] = to
      BY <1>1 DEF TypeOK
    <3> QED BY <1>1, <1>8, <3>1, <3>2 DEF SettledInv
  <2>2. mode = "stopping" =>
          active \subseteq ctxDone /\ \A m \in JobID : RowLive(m)' => rowReq[m] \in Settled'
    BY <1>1, <1>5, <1>8 DEF SettledInv
  <2> QED BY <1>3, <2>1, <2>2 DEF SettledInv
<1>15. FinishedInv'
  BY <1>1, <1>3, <1>5 DEF FinishedInv
<1>16. KeptInv'
  <2>1. ASSUME NEW r \in 1..accepted
        PROVE  r \in Settled' \/ \E m \in JobID : RowLive(m)' /\ rowReq[m] = r
    <3>1. CASE r \in Settled
      BY <1>8, <3>1
    <3>2. CASE r \notin Settled /\ \E m \in JobID : RowLive(m) /\ rowReq[m] = r
      <4>1. PICK m \in JobID : RowLive(m) /\ rowReq[m] = r
        BY <3>2
      <4>2. m = n => rowReq[n] = req[o]
        BY <1>2, <3>2, <4>1 DEF Fresh, Settled
      <4> QED BY <1>6, <4>1, <4>2
    <3> QED BY <1>1, <3>1, <3>2 DEF KeptInv
  <2> QED BY <1>3, <2>1 DEF KeptInv
<1> QED
  BY <1>9, <1>10, <1>11, <1>12, <1>13, <1>14, <1>15, <1>16 DEF RecoveryInv

\* A goroutine's steps before FinishJob, one by one.
LEMMA GoroutineKeepsRecovery ==
  ASSUME NEW o \in Job
  PROVE  RecoveryInv /\ (EndsTransfer(o) \/ ReportsFailure(o)) => RecoveryInv'
<1>1. SUFFICES ASSUME RecoveryInv, EndsTransfer(o) \/ ReportsFailure(o) PROVE RecoveryInv'
  OBVIOUS
<1>2. TableInv /\ TypeOK /\ SettledInv /\ row \in [JobID -> RowStatus]
  BY <1>1, RecoveryParts DEF TypeOK
<1>3. UNCHANGED <<accepted, req, owner, cancelled, finished, signalled, collided, rowVars,
               lifeVars>>
  BY <1>1 DEF EndsTransfer, ReportsFailure, requestVars
<1>4. CASE TransferSucceeds(o) /\ told' = told \cup {req[o]}
  <2>1. TableInv'
    BY <1>2, <1>3, <1>4, WorkerMovesKeepTable DEF TransferSucceeds, Working
  <2>2. req[o] \in Settled'
    BY <1>4 DEF Settled
  <2> QED BY <1>1, <1>3, <1>4, <2>1, <2>2, GoroutineKeeps DEF TransferSucceeds, Working
<1>5. CASE TransferFails(o) /\ UNCHANGED told
  <2>1. TableInv'
    BY <1>2, <1>3, <1>5, WorkerMovesKeepTable DEF TransferFails, Working
  <2> QED BY <1>1, <1>3, <1>5, <2>1, GoroutineKeeps DEF TransferFails, Working
<1>6. CASE TransferCancelled(o) /\ UNCHANGED told
  <2>1. TableInv'
    BY <1>2, <1>3, <1>6, WorkerMovesKeepTable DEF TransferCancelled, Working
  <2>2. req[o] \in Settled'
    BY <1>2, <1>3, <1>6 DEF Settled, SettledInv, TransferCancelled
  <2> QED BY <1>1, <1>3, <1>6, <2>1, <2>2, GoroutineKeeps DEF TransferCancelled, Working
<1>7. CASE SendJobFailure(o) /\ UNCHANGED told
  <2> DEFINE to == IF state[o] = "CANCELLED" THEN "returning" ELSE "reporting"
  <2>1. /\ to \in Working /\ worker[o] \in Working /\ worker[o] # "returning"
        /\ worker' = [worker EXCEPT ![o] = to]
        /\ UNCHANGED <<maxConcurrency, jobCounter, allocated, id, active, queue, state,
                       ctxDone, row>>
    BY <1>7 DEF SendJobFailure, Working
  <2>2. to = "returning" => req[o] \in Settled'
    BY <1>2, <1>3, <1>7 DEF Settled, SettledInv
  <2> HIDE DEF to
  <2>3. TableInv'
    BY <1>2, <1>3, <2>1, WorkerMovesKeepTable
  <2> QED BY <1>1, <1>3, <1>7, <2>1, <2>2, <2>3, GoroutineKeeps
<1>8. CASE ReportFailure(o) /\ told' = told \cup {req[o]}
  <2>1. id[o] \in JobID
    BY <1>2, <1>8, TableParts DEF ReportFailure
  <2>2. row' \in [JobID -> RowStatus]
    BY <1>2, <1>8, <2>1, CompletedRowsAreTyped DEF ReportFailure, RowStatus
  <2>3. TableInv'
    BY <1>2, <1>3, <1>8, <2>2, WorkerMovesKeepTable DEF ReportFailure, Working
  <2>4. req[o] \in Settled'
    BY <1>8 DEF Settled
  <2> QED BY <1>1, <1>3, <1>8, <2>3, <2>4, GoroutineKeeps DEF ReportFailure, Working
<1> QED
  BY <1>1, <1>4, <1>5, <1>6, <1>7, <1>8 DEF EndsTransfer, ReportsFailure, requestVars
-----------------------------------------------------------------------------
(* A job enters the table, for a new request or for a record. *)

\* Job o of request r may enter under key n: no other job or record has the
\* key and its row is r's already or free for it ...
KeyIsFree(n, r) ==
  /\ \A j \in Job : j <= allocated => id[j] # n
  /\ \A p \in pending' : p.id # n
  /\ \/ Fresh(n) /\ RowLive(n) /\ rowReq[n] = r
     \/ ~ RowLive(n) /\ \A m \in JobID : rowReq[m] # r

\* ... or whatever has the key belongs to requests that met another one.
KeyIsShared(n, r) ==
  /\ r \in collided'
  /\ \A j \in Job : j <= allocated /\ id[j] = n => req[j] \in collided'
  /\ \A p \in pending' : p.id = n => p.req \in collided'
  /\ RowLive(n) => rowReq[n] \in collided'

\* What saving does to the rows when job o enters under key n.
LEMMA AdmittedRows ==
  ASSUME RecoveryInv, TableInv',
         NEW o \in Job, NEW n \in JobID, NEW r \in Request, NEW u \in Request,
         o = allocated + 1,
         active' = (active \ Entry(n)) \cup {o}, ToSet(queue') \subseteq ToSet(queue) \cup {o},
         allocated' = o, id' = [id EXCEPT ![o] = n],
         SaveState(row), SaveSource,
         \A j \in Job : j # o => state'[j] = state[j] /\ worker'[j] = worker[j],
         state'[o] \in {"QUEUED", "RUNNING"},
         req' = [req EXCEPT ![o] = r], owner' = [owner EXCEPT ![o] = u],
         r <= accepted', n <= accepted', accepted <= accepted', accepted' \in Nat,
         KeyIsFree(n, r) \/ KeyIsShared(n, r)
  PROVE  /\ \A m \in JobID : m # n /\ Fresh(m) =>
              /\ rowReq'[m] = rowReq[m]
              /\ row[m] # "none" => rowOwner'[m] = rowOwner[m]
              /\ \/ (\A j \in active : id[j] # m) /\ row'[m] = row[m]
                 \/ (\E j \in active : id[j] = m) /\ row'[m] \in {"queued", "running"}
         /\ \A m \in JobID : m # n /\ ~ Fresh(m) => rowReq'[m] \in collided
         /\ KeyIsFree(n, r) => rowReq'[n] = r /\ row'[n] \in {"queued", "running"}
         /\ KeyIsShared(n, r) => rowReq'[n] \in collided'
         /\ \A m \in JobID : row'[m] # "none" =>
              m <= accepted' /\ rowReq'[m] # 0 /\ rowOwner'[m] # 0
         /\ \A m \in JobID : rowReq'[m] <= accepted'
<1>1. /\ TableInv /\ RequestTypeOK /\ LifeInv /\ RowsInv /\ JobsInv /\ TypeOK
      /\ \A j \in Job : j <= allocated =>
           req[j] # 0 /\ req[j] <= accepted /\ owner[j] # 0 /\ id[j] <= jobCounter
           /\ id[j] \in JobID
      /\ \A j \in active \cup ToSet(queue) : j \in Job /\ j <= allocated
      /\ AgreeOn(CleanJobs, active, queue, state)
  BY RecoveryParts DEF TableInv
<1>2. /\ \A j \in Job : j <= allocated' <=> j <= allocated \/ j = o
      /\ ~ (o <= allocated)
  BY <1>1, JobIsNat DEF TypeOK
<1>3. /\ \A j \in Job : id'[j] = IF j = o THEN n ELSE id[j]
      /\ \A j \in Job : req'[j] = IF j = o THEN r ELSE req[j]
      /\ \A j \in Job : owner'[j] = IF j = o THEN u ELSE owner[j]
  BY <1>1 DEF TypeOK, RequestTypeOK
<1>4. /\ r # 0 /\ u # 0 /\ accepted \in Nat /\ jobCounter \in Nat
      /\ \A j \in Job : req[j] \in Nat
      /\ \A m \in JobID : rowReq[m] \in Nat /\ m \in Nat
  <2>1. accepted \in 0..MaxRequests /\ jobCounter \in 0..MaxJobs
    BY <1>1 DEF RequestTypeOK, TypeOK
  <2>2. req \in [Job -> 0..MaxRequests] /\ rowReq \in [JobID -> 0..MaxRequests]
    BY <1>1 DEF RequestTypeOK
  <2> QED BY <2>1, <2>2 DEF Request, JobID
<1>5. \A j \in Job : j <= allocated' => owner'[j] # 0
  BY <1>1, <1>2, <1>3, <1>4
<1>6. \A j \in active' \cup ToSet(queue') : j = o \/ j \in active \cup ToSet(queue)
  OBVIOUS
<1>7. ASSUME NEW m \in JobID
      PROVE  \/ /\ \A j \in active' \cup ToSet(queue') : id'[j] # m
                /\ row'[m] = row[m] /\ rowReq'[m] = rowReq[m] /\ rowOwner'[m] = rowOwner[m]
             \/ \E j \in active' \cup ToSet(queue') :
                  /\ id'[j] = m /\ row'[m] = Lower[state'[j]]
                  /\ rowReq'[m] = req'[j] /\ rowOwner'[m] # 0
                  /\ rowOwner[m] # 0 => rowOwner'[m] = rowOwner[m]
  BY <1>5, <1>7, SaveWrites
<1>8. ASSUME NEW m \in JobID, m # n
      PROVE  /\ Fresh(m) =>
                  /\ rowReq'[m] = rowReq[m]
                  /\ row[m] # "none" => rowOwner'[m] = rowOwner[m]
                  /\ \/ (\A j \in active : id[j] # m) /\ row'[m] = row[m]
                     \/ (\E j \in active : id[j] = m) /\ row'[m] \in {"queued", "running"}
             /\ ~ Fresh(m) => rowReq'[m] \in collided
             /\ row'[m] # "none" => m <= accepted /\ rowReq'[m] # 0 /\ rowOwner'[m] # 0
             /\ rowReq'[m] <= accepted
  <2>1. CASE /\ \A j \in active' \cup ToSet(queue') : id'[j] # m
             /\ row'[m] = row[m] /\ rowReq'[m] = rowReq[m] /\ rowOwner'[m] = rowOwner[m]
    <3>1. \A j \in active : id[j] # m
      <4>1. ASSUME NEW j \in active, id[j] = m PROVE FALSE
        <5>1. j \in active' /\ j # o /\ j \in Job
          BY <1>1, <1>2, <1>8, <4>1 DEF Entry
        <5> QED BY <1>3, <2>1, <4>1, <5>1
      <4> QED BY <4>1
    <3>2. row'[m] # "none" => m <= accepted /\ rowReq[m] # 0 /\ rowOwner[m] # 0
      BY <1>1, <2>1 DEF RowsInv
    <3>3. rowReq[m] <= accepted
      BY <1>1 DEF RowsInv
    <3> QED BY <2>1, <3>1, <3>2, <3>3 DEF Fresh
  <2>2. CASE \E j \in active' \cup ToSet(queue') :
               /\ id'[j] = m /\ row'[m] = Lower[state'[j]]
               /\ rowReq'[m] = req'[j] /\ rowOwner'[m] # 0
               /\ rowOwner[m] # 0 => rowOwner'[m] = rowOwner[m]
    <3>1. PICK j \in active' \cup ToSet(queue') :
               /\ id'[j] = m /\ row'[m] = Lower[state'[j]]
               /\ rowReq'[m] = req'[j] /\ rowOwner'[m] # 0
               /\ rowOwner[m] # 0 => rowOwner'[m] = rowOwner[m]
      BY <2>2
    <3>2. j # o
      BY <1>3, <1>8, <3>1
    <3>3. j \in active \cup ToSet(queue) /\ j \in Job /\ j <= allocated
      BY <1>1, <1>6, <3>2
    <3>4. id[j] = m /\ rowReq'[m] = req[j] /\ state'[j] = state[j]
      BY <1>3, <3>1, <3>2, <3>3
    <3>5. /\ ~ Fresh(m) => req[j] \in collided
          /\ Fresh(m) => rowReq[m] = req[j] /\ j \in CleanJobs
      BY <1>1, <3>3, <3>4, FreshKeys DEF JobsInv
    <3>6. row[m] # "none" => rowOwner[m] # 0
      BY <1>1 DEF RowsInv
    <3>7. m <= accepted
      <4>1. m <= jobCounter /\ jobCounter <= accepted
        BY <1>1, <3>3, <3>4 DEF LifeInv
      <4> QED BY <1>4, <4>1
    <3>8. ASSUME Fresh(m) PROVE j \in active /\ row'[m] \in {"queued", "running"}
      <4>1. state[j] \in {"QUEUED", "RUNNING"} /\ j \in active
        BY <1>1, <3>3, <3>5, <3>8 DEF AgreeOn
      <4> QED BY <3>1, <3>4, <4>1 DEF Lower
    <3> QED BY <1>1, <3>1, <3>3, <3>4, <3>5, <3>6, <3>7, <3>8
  <2> QED BY <1>7, <2>1, <2>2
<1>9. /\ KeyIsFree(n, r) => rowReq'[n] = r /\ row'[n] \in {"queued", "running"}
      /\ KeyIsShared(n, r) => rowReq'[n] \in collided'
      /\ rowReq'[n] # 0 /\ rowOwner'[n] # 0 /\ rowReq'[n] <= accepted'
  <2>1. o \in active' /\ id'[o] = n
    BY <1>3
  <2>2. PICK j \in active' \cup ToSet(queue') :
             /\ id'[j] = n /\ row'[n] = Lower[state'[j]]
             /\ rowReq'[n] = req'[j] /\ rowOwner'[n] # 0
    BY <1>7, <2>1
  <2>3. CASE j = o
    BY <1>3, <1>4, <2>2, <2>3 DEF Lower, KeyIsShared
  <2>4. CASE j # o
    <3>1. j \in Job /\ j <= allocated /\ id[j] = n /\ rowReq'[n] = req[j]
      BY <1>1, <1>3, <1>6, <2>2, <2>4
    <3>2. ~ KeyIsFree(n, r)
      BY <3>1 DEF KeyIsFree
    <3>3. req[j] # 0 /\ req[j] <= accepted'
      BY <1>1, <1>4, <3>1
    <3> QED BY <2>2, <3>1, <3>2, <3>3 DEF KeyIsShared
  <2> QED BY <2>3, <2>4
<1>10. \A m \in JobID : row'[m] # "none" =>
         m <= accepted' /\ rowReq'[m] # 0 /\ rowOwner'[m] # 0
  BY <1>4, <1>8, <1>9
<1>11. \A m \in JobID : rowReq'[m] <= accepted'
  <2>1. ASSUME NEW m \in JobID, m # n PROVE rowReq'[m] <= accepted'
    <3>1. /\ rowReq'[m] <= accepted
          /\ rowReq'[m] = rowReq[m] \/ \E j \in Job : rowReq'[m] = req[j]
      <4>1. \A j \in active' \cup ToSet(queue') : id'[j] = m => j \in Job /\ req'[j] = req[j]
        BY <1>1, <1>3, <1>6, <2>1
      <4> QED BY <1>7, <1>8, <2>1, <4>1
    <3> QED BY <1>4, <3>1
  <2> QED BY <1>9, <2>1
<1> QED BY <1>8, <1>9, <1>10, <1>11

\* The other parts of the invariant when a job enters.
LEMMA AdmissionKeeps ==
  ASSUME RecoveryInv, TableInv', RequestTypeOK',
         NEW o \in Job, NEW n \in JobID, NEW r \in Request, NEW u \in Request,
         o = allocated + 1,
         active' = (active \ Entry(n)) \cup {o}, ToSet(queue') \subseteq ToSet(queue) \cup {o},
         allocated' = o, id' = [id EXCEPT ![o] = n],
         SaveState(row), SaveSource,
         \A j \in Job : j # o => state'[j] = state[j] /\ worker'[j] = worker[j],
         state'[o] \in {"QUEUED", "RUNNING"}, worker'[o] # "returning",
         req' = [req EXCEPT ![o] = r], owner' = [owner EXCEPT ![o] = u],
         r <= accepted', n <= accepted', accepted <= accepted', accepted' \in Nat,
         jobCounter' <= accepted', \A q \in 1..accepted' : q <= accepted \/ q = r,
         KeyIsFree(n, r) \/ KeyIsShared(n, r),
         collided \subseteq collided', r \notin finished \ collided',
         pending' \subseteq pending, recovery # "loaded" => pending' = {}, mode # "down",
         ctxDone' \in {ctxDone, ctxDone \cup {o}},
         mode = "stopping" => o \in ctxDone', o \in ctxDone' => r \in Settled',
         UNCHANGED <<cancelled, told, finished, signalled, mode, recovery, lives>>
  PROVE  RecoveryInv'
<1>1. /\ TableInv /\ RequestTypeOK /\ LifeInv /\ RowsInv /\ PendingInv /\ JobsInv
      /\ SettledInv /\ FinishedInv /\ KeptInv /\ TypeOK
      /\ \A j \in active : j \in Job /\ j <= allocated
      /\ \A j \in Job : j <= allocated => id[j] \in JobID
      /\ \A p \in pending : p \in Record /\ p.id \in JobID
  BY RecoveryParts
<1>2. /\ \A j \in Job : j <= allocated' <=> j <= allocated \/ j = o
      /\ ~ (o <= allocated) /\ o <= allocated'
  BY <1>1, JobIsNat DEF TypeOK
<1>3. /\ \A j \in Job : id'[j] = IF j = o THEN n ELSE id[j]
      /\ \A j \in Job : req'[j] = IF j = o THEN r ELSE req[j]
      /\ \A j \in Job : owner'[j] = IF j = o THEN u ELSE owner[j]
  BY <1>1 DEF TypeOK, RequestTypeOK
<1>4. /\ r # 0 /\ u # 0 /\ accepted \in Nat
      /\ \A j \in Job : req[j] \in Nat
      /\ \A p \in pending : p.id \in Nat /\ p.req \in Nat
      /\ \A q \in finished : q \in Nat
  <2>1. accepted \in 0..MaxRequests /\ req \in [Job -> 0..MaxRequests]
        /\ finished \subseteq Request
    BY <1>1 DEF RequestTypeOK
  <2> QED BY <1>1, <2>1 DEF Request, JobID, Record
<1>5. /\ \A m \in JobID : m # n /\ Fresh(m) =>
           /\ rowReq'[m] = rowReq[m]
           /\ row[m] # "none" => rowOwner'[m] = rowOwner[m]
           /\ \/ (\A j \in active : id[j] # m) /\ row'[m] = row[m]
              \/ (\E j \in active : id[j] = m) /\ row'[m] \in {"queued", "running"}
      /\ \A m \in JobID : m # n /\ ~ Fresh(m) => rowReq'[m] \in collided
      /\ KeyIsFree(n, r) => rowReq'[n] = r /\ row'[n] \in {"queued", "running"}
      /\ KeyIsShared(n, r) => rowReq'[n] \in collided'
      /\ \A m \in JobID : row'[m] # "none" =>
           m <= accepted' /\ rowReq'[m] # 0 /\ rowOwner'[m] # 0
      /\ \A m \in JobID : rowReq'[m] <= accepted'
  BY AdmittedRows
<1>6. ASSUME NEW m \in JobID, m # n, Fresh(m)'
      PROVE  Fresh(m) /\ rowReq'[m] = rowReq[m]
  BY <1>5, <1>6 DEF Fresh
<1>7. ASSUME NEW m \in JobID, m # n, ~ Fresh(m)', Fresh(m)
      PROVE  rowReq[m] \in collided'
  BY <1>5, <1>7 DEF Fresh
<1>8. Fresh(n)' => /\ ~ KeyIsShared(n, r) /\ KeyIsFree(n, r)
                   /\ rowReq'[n] = r /\ r \notin collided'
  BY <1>5 DEF Fresh
<1>9. \A q \in Settled : q \in Settled'
  BY DEF Settled
<1>10. LifeInv'
  <2>1. \A j \in ctxDone' : j <= allocated'
    BY <1>1, <1>2 DEF LifeInv, TypeOK
  <2> QED BY <2>1 DEF LifeInv
<1>11. RowsInv'
  <2>1. ASSUME NEW k \in JobID, NEW m \in JobID, k # m, rowReq'[k] # 0, Fresh(k)'
        PROVE  rowReq'[k] # rowReq'[m]
    <3>1. rowReq'[k] \notin collided'
      BY <2>1 DEF Fresh
    <3>2. CASE k = n
      <4>1. KeyIsFree(n, r) /\ rowReq'[n] = r
        BY <1>8, <2>1, <3>2
      <4>2. CASE Fresh(m)
        <5>1. rowReq'[m] = rowReq[m]
          BY <1>5, <2>1, <3>2, <4>2
        <5>2. rowReq[m] # r
          BY <1>1, <1>4, <2>1, <3>2, <4>1 DEF KeyIsFree, RowsInv
        <5> QED BY <3>2, <4>1, <5>1, <5>2
      <4>3. CASE ~ Fresh(m)
        BY <1>5, <2>1, <3>1, <3>2, <4>3
      <4> QED BY <4>2, <4>3
    <3>3. CASE k # n
      <4>1. Fresh(k) /\ rowReq'[k] = rowReq[k] /\ rowReq[k] # 0 /\ rowReq[k] \notin collided
        BY <1>6, <2>1, <3>3 DEF Fresh
      <4>2. rowReq[k] # rowReq[m]
        BY <1>1, <2>1, <4>1 DEF RowsInv
      <4>3. CASE m = n
        <5>1. CASE KeyIsFree(n, r)
          BY <1>5, <4>1, <4>2, <4>3, <5>1 DEF KeyIsFree
        <5>2. CASE KeyIsShared(n, r)
          BY <1>5, <3>1, <4>3, <5>2
        <5> QED BY <5>1, <5>2
      <4>4. CASE m # n
        BY <1>5, <4>1, <4>2, <4>4
      <4> QED BY <4>3, <4>4
    <3> QED BY <3>2, <3>3
  <2> QED BY <1>5, <2>1 DEF RowsInv
<1>12. PendingInv'
  <2>1. ASSUME NEW p \in pending'
        PROVE  /\ p.id <= accepted' /\ p.req <= accepted'
               /\ ~ Fresh(p.id)' => p.req \in collided'
               /\ Fresh(p.id)' =>
                    /\ RowLive(p.id)' /\ rowReq'[p.id] = p.req /\ rowOwner'[p.id] = p.owner
                    /\ \A j \in Job : j <= allocated' => id'[j] # p.id
    <3>1. p \in pending /\ p.id \in JobID
      BY <1>1, <2>1
    <3>2. p.id <= accepted' /\ p.req <= accepted'
      BY <1>1, <1>4, <3>1 DEF PendingInv
    <3>3. CASE p.id = n
      BY <1>8, <2>1, <3>2, <3>3 DEF KeyIsFree, KeyIsShared
    <3>4. CASE p.id # n /\ ~ Fresh(p.id)'
      BY <1>1, <1>7, <3>1, <3>2, <3>4 DEF PendingInv
    <3>5. CASE p.id # n /\ Fresh(p.id)'
      <4>1. /\ Fresh(p.id) /\ RowLive(p.id) /\ rowReq[p.id] = p.req /\ rowOwner[p.id] = p.owner
            /\ \A j \in Job : j <= allocated => id[j] # p.id
        BY <1>1, <1>6, <3>1, <3>5 DEF PendingInv
      <4>2. \A j \in active : id[j] # p.id
        BY <1>1, <4>1
      <4>3. row'[p.id] = row[p.id] /\ rowReq'[p.id] = p.req /\ rowOwner'[p.id] = p.owner
        BY <1>5, <3>1, <3>5, <4>1, <4>2 DEF RowLive
      <4>4. \A j \in Job : j <= allocated' => id'[j] # p.id
        BY <1>2, <1>3, <3>5, <4>1
      <4> QED BY <3>2, <3>5, <4>1, <4>3, <4>4 DEF RowLive
    <3> QED BY <3>3, <3>4, <3>5
  <2> QED BY <2>1 DEF PendingInv
<1>13. JobsInv'
  <2>1. ASSUME NEW j \in Job, j <= allocated'
        PROVE  /\ req'[j] # 0 /\ req'[j] <= accepted' /\ owner'[j] # 0
               /\ rowReq'[id'[j]] \in collided' => req'[j] \in collided'
               /\ rowReq'[id'[j]] \notin collided' =>
                    /\ rowReq'[id'[j]] = req'[j]
                    /\ \A p \in Job : p <= allocated' /\ id'[p] = id'[j] => p = j
    <3>1. CASE j = o
      <4>1. id'[j] = n /\ req'[j] = r /\ owner'[j] = u
        BY <1>3, <3>1
      <4>2. rowReq'[n] \in collided' => r \in collided'
        BY <1>5 DEF KeyIsShared
      <4>3. ASSUME rowReq'[n] \notin collided', NEW p \in Job, p <= allocated', id'[p] = n
            PROVE  p = o
        BY <1>2, <1>3, <1>5, <4>3 DEF KeyIsFree
      <4> QED BY <1>4, <1>5, <3>1, <4>1, <4>2, <4>3
    <3>2. CASE j # o
      <4>1. /\ j <= allocated /\ id'[j] = id[j] /\ req'[j] = req[j] /\ owner'[j] = owner[j]
            /\ id[j] \in JobID
        BY <1>1, <1>2, <1>3, <2>1, <3>2
      <4>2. req[j] # 0 /\ req[j] <= accepted' /\ owner[j] # 0
        BY <1>1, <1>4, <4>1 DEF JobsInv
      <4>3. CASE id[j] = n
        <5>1. KeyIsShared(n, r)
          BY <4>1, <4>3 DEF KeyIsFree
        <5> QED BY <1>5, <4>1, <4>2, <4>3, <5>1 DEF KeyIsShared
      <4>4. CASE id[j] # n /\ rowReq'[id[j]] \in collided'
        <5>1. CASE Fresh(id[j])
          BY <1>1, <1>5, <4>1, <4>2, <4>4, <5>1 DEF JobsInv
        <5>2. CASE ~ Fresh(id[j])
          BY <1>1, <4>1, <4>2, <4>4, <5>2 DEF JobsInv
        <5> QED BY <5>1, <5>2
      <4>5. CASE id[j] # n /\ rowReq'[id[j]] \notin collided'
        <5>1. Fresh(id[j]) /\ rowReq'[id[j]] = rowReq[id[j]]
          BY <1>6, <4>1, <4>5 DEF Fresh
        <5>2. /\ rowReq[id[j]] = req[j]
              /\ \A p \in Job : p <= allocated /\ id[p] = id[j] => p = j
          BY <1>1, <4>1, <5>1 DEF JobsInv
        <5>3. \A p \in Job : p <= allocated' /\ id'[p] = id'[j] => p = j
          BY <1>2, <1>3, <4>1, <4>5, <5>2
        <5> QED BY <4>1, <4>2, <4>5, <5>1, <5>2, <5>3
      <4> QED BY <4>3, <4>4, <4>5
    <3> QED BY <3>1, <3>2
  <2>2. ASSUME NEW j \in active', rowReq'[id'[j]] \notin collided'
        PROVE  row'[id'[j]] \in {"queued", "running"}
    <3>1. CASE j = o
      BY <1>3, <1>5, <2>2, <3>1
    <3>2. CASE j # o
      <4>1. j \in active /\ j \in Job /\ id'[j] = id[j] /\ id[j] \in JobID /\ id[j] # n
        BY <1>1, <1>3, <3>2 DEF Entry
      <4>2. Fresh(id[j])
        BY <1>6, <2>2, <4>1 DEF Fresh
      <4> QED BY <1>5, <4>1, <4>2
    <3> QED BY <3>1, <3>2
  <2> QED BY <2>1, <2>2 DEF JobsInv, Fresh, RowLive
<1>14. SettledInv'
  <2>1. ASSUME NEW j \in Job,
               worker'[j] = "returning" \/ j \in ctxDone' \/ state'[j] = "CANCELLED"
        PROVE  req'[j] \in Settled'
    <3>1. CASE j = o
      BY <1>3, <2>1, <3>1
    <3>2. CASE j # o
      BY <1>1, <1>3, <1>9, <2>1, <3>2 DEF SettledInv
    <3> QED BY <3>1, <3>2
  <2>2. ASSUME mode = "stopping" PROVE active' \subseteq ctxDone'
    BY <1>1, <2>2 DEF SettledInv
  <2>3. ASSUME mode = "stopping", NEW m \in JobID, RowLive(m)'
        PROVE  rowReq'[m] \in Settled'
    <3>1. CASE m = n
      BY <1>5, <2>3, <3>1 DEF Settled
    <3>2. CASE m # n /\ ~ Fresh(m)
      BY <1>5, <1>9, <3>2 DEF Settled
    <3>3. CASE m # n /\ Fresh(m) /\ (\A j \in active : id[j] # m) /\ row'[m] = row[m]
      BY <1>1, <1>5, <1>9, <2>3, <3>3 DEF SettledInv, RowLive
    <3>4. CASE m # n /\ Fresh(m) /\ \E j \in active : id[j] = m
      <4>1. PICK j \in active : id[j] = m
        BY <3>4
      <4>2. j \in ctxDone /\ j \in Job /\ j <= allocated
        BY <1>1, <2>3 DEF SettledInv
      <4>3. rowReq[m] = req[j]
        BY <1>1, <3>4, <4>1, <4>2 DEF JobsInv
      <4> QED BY <1>1, <1>5, <1>9, <3>4, <4>2, <4>3 DEF SettledInv
    <3> QED BY <1>5, <3>1, <3>2, <3>3, <3>4
  <2> QED BY <2>1, <2>2, <2>3 DEF SettledInv
<1>15. FinishedInv'
  <2>1. \A q \in finished : q <= accepted'
    BY <1>1, <1>4 DEF FinishedInv
  <2>2. ASSUME NEW m \in JobID, RowLive(m)' PROVE rowReq'[m] \notin finished \ collided'
    <3>1. CASE m = n
      BY <1>5, <3>1
    <3>2. CASE m # n /\ ~ Fresh(m)
      BY <1>5, <3>2
    <3>3. CASE m # n /\ Fresh(m) /\ (\A j \in active : id[j] # m) /\ row'[m] = row[m]
      BY <1>1, <1>5, <2>2, <3>3 DEF FinishedInv, RowLive
    <3>4. CASE m # n /\ Fresh(m) /\ \E j \in active : id[j] = m
      <4>1. PICK j \in active : id[j] = m
        BY <3>4
      <4>2. rowReq[m] = req[j]
        BY <1>1, <3>4, <4>1 DEF JobsInv
      <4> QED BY <1>1, <1>5, <3>4, <4>2 DEF FinishedInv
    <3> QED BY <1>5, <3>1, <3>2, <3>3, <3>4
  <2>3. \A j \in active' : req'[j] \notin finished \ collided'
    BY <1>1, <1>3 DEF FinishedInv
  <2> QED BY <2>1, <2>2, <2>3 DEF FinishedInv
<1>16. KeptInv'
  <2>1. ASSUME NEW q \in 1..accepted', q \notin Settled'
        PROVE  \E m \in JobID : RowLive(m)' /\ rowReq'[m] = q
    <3>1. q \notin collided'
      BY <2>1 DEF Settled
    <3>2. CASE q = r
      BY <1>5, <3>1, <3>2 DEF KeyIsShared, RowLive
    <3>3. CASE q # r
      <4>1. q \in 1..accepted /\ q \notin Settled
        BY <1>4, <1>9, <2>1, <3>3
      <4>2. PICK m \in JobID : RowLive(m) /\ rowReq[m] = q
        BY <1>1, <4>1 DEF KeptInv
      <4>3. m # n
        BY <3>1, <3>3, <4>2 DEF KeyIsFree, KeyIsShared
      <4>4. Fresh(m)
        BY <3>1, <4>2 DEF Fresh
      <4> QED BY <1>5, <4>2, <4>3, <4>4 DEF RowLive
    <3> QED BY <3>2, <3>3
  <2> QED BY <2>1 DEF KeptInv
<1> QED
  BY <1>10, <1>11, <1>12, <1>13, <1>14, <1>15, <1>16 DEF RecoveryInv

\* A command starts a job for a new request.  While RecoverJobs is still at
\* work its key may be that of a row or a record not recovered yet.
LEMMA AcceptKeepsRecovery == RecoveryInv /\ Accept => RecoveryInv'
<1>1. SUFFICES ASSUME RecoveryInv, Accept PROVE RecoveryInv'
  OBVIOUS
<1> DEFINE o == allocated + 1
           n == jobCounter + 1
           r == accepted + 1
           met == Unrecovered(n)
<1>2. /\ TableInv /\ RequestTypeOK /\ LifeInv /\ RowsInv /\ PendingInv /\ JobsInv
      /\ SettledInv /\ FinishedInv /\ TypeOK /\ IdsKnown
      /\ \A m \in JobID : row[m] # "none" => rowReq[m] \in Request
      /\ \A p \in pending : p \in Record /\ p.req \in Request
  BY <1>1, RecoveryParts
<1>3. /\ mode = "up" /\ accepted < MaxRequests
      /\ allocated < MaxJobs /\ jobCounter' = n /\ ctxDone' = ctxDone
      /\ Admit(o, n) /\ accepted' = r
      /\ UNCHANGED <<cancelled, told, finished, signalled, mode, recovery, lives, pending>>
      /\ SaveSource
  BY <1>1 DEF Accept, TakesCommands, CreateJob, lifeVars
<1>4. /\ allocated \in Nat /\ jobCounter \in Nat /\ accepted \in Nat /\ MaxJobs \in Nat
      /\ MaxRequests \in 0..MaxJobs /\ jobCounter <= accepted
  BY <1>2, JobManagerAssumption, JobRecoveryAssumption DEF TypeOK, RequestTypeOK, LifeInv
<1>5. /\ o \in Job /\ n \in JobID /\ r \in Request /\ n <= r /\ jobCounter' \in 0..MaxJobs
      /\ jobCounter <= jobCounter' /\ n <= jobCounter'
      /\ accepted <= r /\ r \in 0..MaxRequests /\ r \in Nat /\ r <= r
      /\ \A q \in 1..r : q <= accepted \/ q = r
  BY <1>3, <1>4 DEF Job, JobID, Request
<1>6. \A j \in Job : j <= allocated => id[j] # n
  BY <1>2, <1>4 DEF IdsKnown
<1>7. r \notin finished /\ \A m \in JobID : rowReq[m] # r
  <2>1. (\A q \in finished : q <= accepted) /\ \A m \in JobID : rowReq[m] <= accepted
    BY <1>2 DEF FinishedInv, RowsInv
  <2>2. ~ (r <= accepted)
    BY <1>4
  <2> QED BY <2>1, <2>2
<1>8. o \notin ctxDone
  <2>1. ~ (o <= allocated)
    BY <1>4
  <2> QED BY <1>2, <2>1 DEF LifeInv
<1>9. /\ met \subseteq Request
      /\ RowLive(n) => rowReq[n] \in met
      /\ \A p \in pending : p.id = n => p.req \in met
  BY <1>2, <1>5 DEF Unrecovered, LiveRows, RowLive
<1>10. collided' = IF met = {} THEN collided ELSE collided \cup met \cup {r}
  BY <1>1, <1>3 DEF Accept
<1>11. allocated' = o
  BY <1>3 DEF Admit
<1>12. req' = [req EXCEPT ![o] = r] /\ owner' = [owner EXCEPT ![o] = r]
  BY <1>1, <1>3, <1>11 DEF Accept
<1>13. o = allocated + 1
  OBVIOUS
<1> HIDE DEF o, n, r, met
<1>14. CleanJobs' \subseteq CleanJobs \cup {o} /\ collided \subseteq collided'
  <2>1. \A j \in Job : j # o => req'[j] = req[j]
    BY <1>2, <1>12 DEF RequestTypeOK
  <2> QED BY <1>10, <2>1 DEF CleanJobs
<1>15. \A j \in CleanJobs' : j # o /\ j <= allocated => id[j] # n
  BY <1>6 DEF CleanJobs
<1>16. /\ TableInv' /\ active' = (active \ Entry(n)) \cup {o}
       /\ ToSet(queue') \subseteq ToSet(queue) \cup {o}
       /\ id' = [id EXCEPT ![o] = n] /\ SaveState(row)
       /\ \A j \in Job : j # o => state'[j] = state[j] /\ worker'[j] = worker[j]
       /\ state'[o] \in {"QUEUED", "RUNNING"} /\ worker'[o] # "returning"
  BY <1>2, <1>3, <1>5, <1>13, <1>14, <1>15, AdmitKeepsTable
<1>17. RequestTypeOK'
  <2>1. req' \in [Job -> 0..MaxRequests] /\ owner' \in [Job -> 0..MaxRequests]
    BY <1>2, <1>5, <1>12 DEF RequestTypeOK
  <2>2. rowReq' \in [JobID -> 0..MaxRequests] /\ rowOwner' \in [JobID -> 0..MaxRequests]
    BY <1>2, <1>3, <1>16, <2>1, SavedSourceIsTyped DEF RequestTypeOK
  <2>3. collided' \subseteq Request
    BY <1>2, <1>5, <1>9, <1>10 DEF RequestTypeOK
  <2> QED BY <1>2, <1>3, <1>5, <2>1, <2>2, <2>3 DEF RequestTypeOK
<1>18. KeyIsFree(n, r) \/ KeyIsShared(n, r)
  <2>1. CASE met = {}
    <3>1. ~ RowLive(n) /\ \A p \in pending' : p.id # n
      BY <1>3, <1>9, <2>1
    <3> QED BY <1>6, <1>7, <3>1 DEF KeyIsFree
  <2>2. CASE met # {}
    <3>1. r \in collided' /\ met \subseteq collided'
      BY <1>10, <2>2
    <3> QED BY <1>3, <1>6, <1>9, <3>1 DEF KeyIsShared
  <2> QED BY <2>1, <2>2
<1>19. /\ r <= accepted' /\ n <= accepted' /\ accepted <= accepted' /\ accepted' \in Nat
       /\ jobCounter' <= accepted' /\ \A q \in 1..accepted' : q <= accepted \/ q = r
  BY <1>3, <1>5
<1>20. /\ pending' \subseteq pending /\ (recovery # "loaded" => pending' = {})
       /\ mode # "down" /\ mode # "stopping" /\ r \notin finished \ collided'
       /\ ctxDone' \in {ctxDone, ctxDone \cup {o}} /\ o \notin ctxDone'
  BY <1>2, <1>3, <1>7, <1>8 DEF LifeInv
<1> QED
  BY <1>1, <1>3, <1>5, <1>11, <1>12, <1>13, <1>14, <1>16, <1>17, <1>18, <1>19, <1>20,
     AdmissionKeeps

\* CreateRecoveredJob: a record's job enters under its old key, and takes the
\* place of a job that a command has made under the same key.
LEMMA RecoverKeepsRecovery ==
  ASSUME NEW p \in pending PROVE RecoveryInv /\ Recover(p) => RecoveryInv'
<1>1. SUFFICES ASSUME RecoveryInv, Recover(p) PROVE RecoveryInv'
  OBVIOUS
<1> DEFINE o == allocated + 1
           n == p.id
           r == p.req
           u == p.owner
<1>2. /\ TableInv /\ RequestTypeOK /\ LifeInv /\ RowsInv /\ PendingInv /\ JobsInv
      /\ SettledInv /\ FinishedInv /\ TypeOK
      /\ p \in Record /\ n \in JobID /\ r \in Request
  BY <1>1, RecoveryParts
<1>3. /\ mode # "down" /\ allocated < MaxJobs /\ pending' = pending \ {p}
      /\ jobCounter' = IF n > jobCounter THEN n ELSE jobCounter
      /\ ctxDone' = IF mode = "stopping" THEN ctxDone \cup {o} ELSE ctxDone
      /\ Admit(o, n)
      /\ UNCHANGED <<accepted, cancelled, told, finished, signalled, collided, mode,
                     recovery, lives>>
      /\ SaveSource
  BY <1>1 DEF Recover
<1>4. /\ allocated \in Nat /\ jobCounter \in Nat /\ accepted \in Nat /\ MaxJobs \in Nat
      /\ jobCounter <= accepted /\ jobCounter <= MaxJobs
  BY <1>2, JobManagerAssumption DEF TypeOK, RequestTypeOK, LifeInv
<1>5. /\ n <= accepted /\ r <= accepted
      /\ ~ Fresh(n) => r \in collided
      /\ Fresh(n) => /\ RowLive(n) /\ rowReq[n] = r /\ rowOwner[n] = u
                     /\ \A j \in Job : j <= allocated => id[j] # n
  BY <1>2 DEF PendingInv
<1>6. /\ o \in Job /\ jobCounter' \in 0..MaxJobs /\ jobCounter' <= accepted
      /\ jobCounter <= jobCounter' /\ n <= jobCounter'
      /\ accepted <= accepted /\ \A q \in 1..accepted : q <= accepted \/ q = r
  BY <1>2, <1>3, <1>4, <1>5 DEF Job, JobID
<1>7. u \in Request /\ recovery = "loaded"
  BY <1>2 DEF Record, LifeInv
<1>8. r \notin finished \ collided /\ (mode = "stopping" => r \in Settled)
  BY <1>2, <1>5 DEF FinishedInv, SettledInv, Settled
<1>9. o \notin ctxDone
  <2>1. ~ (o <= allocated)
    BY <1>4
  <2> QED BY <1>2, <2>1 DEF LifeInv
<1>10. ASSUME Fresh(n), NEW q \in pending' PROVE q.id # n
  <2>1. SUFFICES ASSUME q.id = n PROVE q = p
    BY <1>3, <1>10
  <2>2. q \in Record /\ q.req = rowReq[n] /\ q.owner = rowOwner[n]
    BY <1>2, <1>3, <1>10, <2>1 DEF PendingInv, RequestTypeOK
  <2> QED BY <1>2, <1>5, <1>10, <2>1, <2>2 DEF Record
<1>11. ASSUME ~ Fresh(n)
       PROVE  /\ \A q \in pending : q.id = n => q.req \in collided
              /\ \A j \in Job : j <= allocated /\ id[j] = n => req[j] \in collided
              /\ rowReq[n] \in collided
  BY <1>2, <1>11 DEF PendingInv, JobsInv, Fresh
<1>12. allocated' = o
  BY <1>3 DEF Admit
<1>13. req' = [req EXCEPT ![o] = r] /\ owner' = [owner EXCEPT ![o] = u]
  BY <1>1, <1>12 DEF Recover
<1>14. o = allocated + 1
  OBVIOUS
<1> HIDE DEF o, n, r, u
<1>15. KeyIsFree(n, r) \/ KeyIsShared(n, r)
  <2>1. CASE Fresh(n)
    BY <1>5, <1>10, <2>1 DEF KeyIsFree
  <2>2. CASE ~ Fresh(n)
    BY <1>3, <1>5, <1>11, <2>2 DEF KeyIsShared
  <2> QED BY <2>1, <2>2
<1>16. CleanJobs' \subseteq CleanJobs \cup {o}
       /\ \A j \in CleanJobs' : j # o /\ j <= allocated => id[j] # n
  <2>1. \A j \in Job : j # o => req'[j] = req[j]
    BY <1>2, <1>13 DEF RequestTypeOK
  <2>2. CleanJobs' \subseteq CleanJobs \cup {o}
    BY <1>3, <2>1 DEF CleanJobs
  <2>3. ASSUME NEW j \in CleanJobs, j <= allocated PROVE id[j] # n
    BY <1>5, <1>11, <2>3 DEF CleanJobs
  <2> QED BY <2>2, <2>3
<1>17. ctxDone' \in {ctxDone, ctxDone \cup {o}} /\ (mode = "stopping" => o \in ctxDone')
       /\ (o \in ctxDone' => r \in Settled')
  <2>1. Settled' = Settled
    BY <1>3 DEF Settled
  <2> QED BY <1>3, <1>8, <1>9, <2>1
<1>18. /\ TableInv' /\ active' = (active \ Entry(n)) \cup {o}
       /\ ToSet(queue') \subseteq ToSet(queue) \cup {o}
       /\ id' = [id EXCEPT ![o] = n] /\ SaveState(row)
       /\ \A j \in Job : j # o => state'[j] = state[j] /\ worker'[j] = worker[j]
       /\ state'[o] \in {"QUEUED", "RUNNING"} /\ worker'[o] # "returning"
  BY <1>2, <1>3, <1>6, <1>14, <1>16, <1>17, AdmitKeepsTable
<1>19. RequestTypeOK'
  <2>1. r \in 0..MaxRequests /\ u \in 0..MaxRequests
    BY <1>2, <1>7 DEF Request
  <2>2. req' \in [Job -> 0..MaxRequests] /\ owner' \in [Job -> 0..MaxRequests]
    BY <1>2, <1>13, <2>1 DEF RequestTypeOK
  <2>3. rowReq' \in [JobID -> 0..MaxRequests] /\ rowOwner' \in [JobID -> 0..MaxRequests]
    BY <1>2, <1>3, <1>18, <2>2, SavedSourceIsTyped DEF RequestTypeOK
  <2> QED BY <1>2, <1>3, <2>2, <2>3 DEF RequestTypeOK
<1>20. /\ r <= accepted' /\ n <= accepted' /\ accepted <= accepted' /\ accepted' \in Nat
       /\ jobCounter' <= accepted' /\ \A q \in 1..accepted' : q <= accepted \/ q = r
  BY <1>3, <1>4, <1>5, <1>6
<1>21. /\ pending' \subseteq pending /\ (recovery # "loaded" => pending' = {})
       /\ collided \subseteq collided' /\ r \notin finished \ collided'
  BY <1>3, <1>7, <1>8
<1> QED
  BY <1>1, <1>2, <1>3, <1>6, <1>7, <1>12, <1>13, <1>14, <1>15, <1>17, <1>18, <1>19, <1>20,
     <1>21, AdmissionKeeps
-----------------------------------------------------------------------------
(* Lives begin and end. *)

\* A crash forgets what is in memory and keeps the rows.
LEMMA CrashKeepsRecovery == RecoveryInv /\ Crash => RecoveryInv'
<1>1. SUFFICES ASSUME RecoveryInv, Crash PROVE RecoveryInv'
  OBVIOUS
<1>2. /\ RequestTypeOK /\ RowsInv /\ FinishedInv /\ KeptInv /\ TypeOK
  BY <1>1, RecoveryParts
<1>3. /\ mode' = "down" /\ jobCounter' = 0 /\ allocated' = 0
      /\ id' = [o \in Job |-> 0] /\ active' = {} /\ queue' = <<>>
      /\ state' = [o \in Job |-> "none"] /\ worker' = [o \in Job |-> "none"]
      /\ ctxDone' = {} /\ pending' = {}
      /\ req' = [o \in Job |-> 0] /\ owner' = [o \in Job |-> 0]
      /\ recovery' = "notLoaded"
      /\ UNCHANGED <<maxConcurrency, row, rowReq, rowOwner, lives, accepted, cancelled,
                     told, finished, signalled, collided>>
  BY <1>1 DEF Crash, rowVars
<1>4. MaxJobs \in Nat /\ MaxRequests \in Nat /\ \A o \in Job : o \in Nat /\ ~ (o <= 0)
  BY JobManagerAssumption, JobRecoveryAssumption, JobIsNat
<1>5. queue' \in Seq(Job) /\ DOMAIN queue' = {} /\ ToSet(queue') = {}
  BY <1>3, EmptySeq DEF ToSet
<1>6. TableInv'
  <2>1. IdsKnown'
    BY <1>3, <1>4, <1>5 DEF IdsKnown, Increasing
  <2>2. AgreeOn(CleanJobs', active', queue', state')
    <3>1. \A o \in CleanJobs' : o \in Job
      BY DEF CleanJobs
    <3> QED BY <1>3, <1>5, <3>1 DEF AgreeOn
  <2>3. MannedOn(CleanJobs', state', worker', ctxDone')
    <3>1. \A o \in CleanJobs' : o \in Job
      BY DEF CleanJobs
    <3> QED BY <1>3, <3>1 DEF MannedOn, Working
  <2>4. /\ jobCounter' \in 0..MaxJobs /\ allocated' \in 0..MaxJobs
        /\ id' \in [Job -> 0..MaxJobs] /\ active' \subseteq Job /\ ctxDone' \subseteq Job
        /\ state' \in [Job -> JobState] /\ worker' \in [Job -> Worker]
    BY <1>3, <1>4 DEF JobState, Worker
  <2> QED BY <1>2, <1>3, <1>5, <2>1, <2>2, <2>3, <2>4, TableAfter DEF TypeOK
<1>7. RequestTypeOK'
  BY <1>2, <1>3, <1>4 DEF RequestTypeOK
<1>8. LifeInv'
  BY <1>2, <1>3 DEF LifeInv, RequestTypeOK
<1>9. RowsInv'
  BY <1>2, <1>3 DEF RowsInv, Fresh
<1>10. PendingInv' /\ JobsInv'
  BY <1>3, <1>4 DEF PendingInv, JobsInv
<1>11. SettledInv'
  BY <1>3 DEF SettledInv
<1>12. FinishedInv' /\ KeptInv'
  <2>1. FinishedInv'
    BY <1>2, <1>3 DEF FinishedInv, RowLive
  <2>2. KeptInv'
    BY <1>2, <1>3 DEF KeptInv, RowLive, Settled
  <2> QED BY <2>1, <2>2
<1> QED
  BY <1>6, <1>7, <1>8, <1>9, <1>10, <1>11, <1>12 DEF RecoveryInv

\* SIGTERM: every request it meets may be forgotten from now on.
LEMMA StopKeepsRecovery == RecoveryInv /\ Stop => RecoveryInv'
<1>1. SUFFICES ASSUME RecoveryInv, Stop PROVE RecoveryInv'
  OBVIOUS
<1>2. /\ TableInv /\ RequestTypeOK /\ LifeInv /\ RowsInv /\ PendingInv /\ JobsInv
      /\ SettledInv /\ FinishedInv /\ KeptInv /\ TypeOK
      /\ \A o \in active : o \in Job /\ o <= allocated /\ id[o] \in JobID
      /\ \A n \in JobID : row[n] # "none" => rowReq[n] \in Request
  <2>1. \A o \in active : o \in Job /\ o <= allocated /\ id[o] \in JobID
    BY <1>1, RecoveryParts, TableParts
  <2> QED BY <1>1, <2>1, RecoveryParts
<1>3. /\ mode = "up" /\ mode' = "stopping" /\ ctxDone' = ctxDone \cup active
      /\ signalled' = signalled \cup {rowReq[n] : n \in LiveRows}
      /\ UNCHANGED <<maxConcurrency, jobCounter, allocated, id, active, queue, state,
                     worker, row, accepted, req, owner, cancelled, told, finished, collided,
                     rowReq, rowOwner, recovery, lives, pending>>
  BY <1>1 DEF Stop, rowVars
<1>4. TableInv'
  <2>1. CleanJobs' \subseteq CleanJobs
    BY <1>3 DEF CleanJobs
  <2> QED BY <1>2, <1>3, <2>1, RowStepKeepsTable DEF TypeOK
<1>5. RequestTypeOK'
  <2>1. signalled' \subseteq Request
    BY <1>2, <1>3 DEF RequestTypeOK, LiveRows
  <2> QED BY <1>2, <1>3, <2>1 DEF RequestTypeOK
<1>6. /\ \A r \in Settled : r \in Settled'
      /\ \A n \in JobID : RowLive(n) => rowReq[n] \in Settled'
  BY <1>3 DEF Settled, RowLive, LiveRows
<1>7. LifeInv'
  BY <1>2, <1>3 DEF LifeInv
<1>8. RowsInv' /\ PendingInv' /\ JobsInv' /\ FinishedInv'
  <2>1. RowsInv'
    BY <1>2, <1>3 DEF RowsInv, Fresh
  <2>2. PendingInv'
    BY <1>2, <1>3 DEF PendingInv, Fresh, RowLive
  <2>3. JobsInv'
    BY <1>2, <1>3 DEF JobsInv, Fresh, RowLive
  <2>4. FinishedInv'
    BY <1>2, <1>3 DEF FinishedInv, RowLive
  <2> QED BY <2>1, <2>2, <2>3, <2>4
<1>9. SettledInv'
  <2>1. ASSUME NEW o \in active PROVE req[o] \in Settled'
    <3>1. CASE ~ Fresh(id[o])
      BY <1>2, <1>6, <3>1 DEF JobsInv, Settled
    <3>2. CASE Fresh(id[o]) /\ RowLive(id[o])
      BY <1>2, <1>6, <3>2 DEF JobsInv
    <3>3. CASE worker[o] = "returning"
      BY <1>2, <1>6, <3>3 DEF SettledInv
    <3> QED BY <1>2, <3>1, <3>2, <3>3 DEF JobsInv
  <2>2. \A o \in Job : worker[o] = "returning" \/ o \in ctxDone' \/ state[o] = "CANCELLED" =>
          req[o] \in Settled'
    BY <1>2, <1>3, <1>6, <2>1 DEF SettledInv
  <2>3. active \subseteq ctxDone' /\ \A n \in JobID : RowLive(n)' => rowReq[n] \in Settled'
    BY <1>3, <1>6 DEF RowLive
  <2> QED BY <1>3, <2>2, <2>3 DEF SettledInv
<1>10. KeptInv'
  <2>1. \A n \in JobID : RowLive(n) => RowLive(n)'
    BY <1>3 DEF RowLive
  <2> QED BY <1>2, <1>3, <1>6, <2>1 DEF KeptInv
<1> QED
  BY <1>4, <1>5, <1>7, <1>8, <1>9, <1>10 DEF RecoveryInv

\* A life begins, and RecoverJobs returns when no record is left.
LEMMA LifeKeepsRecovery == RecoveryInv /\ (Boot \/ RecoveryReturns) => RecoveryInv'
<1>1. SUFFICES ASSUME RecoveryInv, Boot \/ RecoveryReturns PROVE RecoveryInv'
  OBVIOUS
<1>2. /\ TableInv /\ RequestTypeOK /\ LifeInv /\ RowsInv /\ PendingInv /\ JobsInv
      /\ SettledInv /\ FinishedInv /\ KeptInv /\ TypeOK
  BY <1>1, RecoveryParts
<1>3. /\ UNCHANGED <<jobCounter, allocated, id, active, queue, state, worker, ctxDone, row>>
      /\ UNCHANGED <<accepted, req, owner, cancelled, told, finished, signalled, collided>>
      /\ UNCHANGED <<rowReq, rowOwner, pending>>
  BY <1>1 DEF Boot, RecoveryReturns, vars, requestVars, rowVars
<1>4. /\ mode' = mode \/ (mode = "down" /\ mode' = "up")
      /\ recovery' = recovery \/ (recovery = "loaded" /\ recovery' = "returned" /\ pending = {}
                                  /\ mode # "down")
      /\ lives' = lives \/ (lives < MaxLives /\ lives' = lives + 1)
  BY <1>1 DEF Boot, RecoveryReturns
<1>5. TableInv'
  <2>1. maxConcurrency' \in Nat \ {0}
    BY <1>1, <1>2, JobManagerAssumption DEF Boot, RecoveryReturns, vars, TypeOK
  <2>2. CleanJobs' \subseteq CleanJobs
    BY <1>3 DEF CleanJobs
  <2> QED BY <1>2, <1>3, <2>1, <2>2, RowStepKeepsTable DEF TypeOK
<1>6. RequestTypeOK'
  <2>1. lives' \in 1..MaxLives
    BY <1>2, <1>4, JobRecoveryAssumption DEF RequestTypeOK
  <2> QED BY <1>2, <1>3, <1>4, <2>1 DEF RequestTypeOK
<1>7. LifeInv'
  BY <1>2, <1>3, <1>4 DEF LifeInv
<1>8. RowsInv'
  BY <1>2, <1>3 DEF RowsInv, Fresh
<1>9. PendingInv'
  BY <1>2, <1>3 DEF PendingInv, Fresh, RowLive
<1>10. JobsInv'
  BY <1>2, <1>3 DEF JobsInv, Fresh, RowLive
<1>11. SettledInv'
  BY <1>2, <1>3, <1>4 DEF SettledInv, RowLive, Settled
<1>12. FinishedInv'
  BY <1>2, <1>3 DEF FinishedInv, RowLive
<1>13. KeptInv'
  BY <1>2, <1>3 DEF KeptInv, RowLive, Settled
<1> QED
  BY <1>5, <1>6, <1>7, <1>8, <1>9, <1>10, <1>11, <1>12, <1>13 DEF RecoveryInv

\* RecoverJobs loads the live rows.  A row under a key this life has given
\* already may be that of a job of this life.
LEMMA LoadKeepsRecovery == RecoveryInv /\ Load => RecoveryInv'
<1>1. SUFFICES ASSUME RecoveryInv, Load PROVE RecoveryInv'
  OBVIOUS
<1>2. /\ TableInv /\ RequestTypeOK /\ LifeInv /\ RowsInv /\ PendingInv /\ JobsInv
      /\ SettledInv /\ FinishedInv /\ KeptInv /\ TypeOK
      /\ \A n \in JobID : row[n] # "none" => rowReq[n] \in Request
      /\ \A o \in Job : o <= allocated => id[o] <= jobCounter
  BY <1>1, RecoveryParts
<1>3. /\ mode # "down" /\ recovery' = "loaded"
      /\ pending' = {[id |-> n, req |-> rowReq[n], owner |-> rowOwner[n]] : n \in LiveRows}
      /\ collided' = collided \cup {rowReq[n] : n \in {m \in LiveRows : m <= jobCounter}}
      /\ UNCHANGED <<maxConcurrency, jobCounter, allocated, id, active, queue, state,
                     worker, ctxDone, row>>
      /\ UNCHANGED <<accepted, req, owner, cancelled, told, finished, signalled>>
      /\ UNCHANGED <<rowReq, rowOwner, mode, lives>>
  BY <1>1 DEF Load, vars, rowVars
<1>4. /\ collided \subseteq collided' /\ \A r \in Settled : r \in Settled'
      /\ \A n \in JobID : RowLive(n) /\ n <= jobCounter => rowReq[n] \in collided'
  BY <1>3 DEF Settled, RowLive, LiveRows
<1>5. TableInv'
  <2>1. CleanJobs' \subseteq CleanJobs
    BY <1>3, <1>4 DEF CleanJobs
  <2> QED BY <1>2, <1>3, <2>1, RowStepKeepsTable DEF TypeOK
<1>6. RequestTypeOK'
  <2>1. ASSUME NEW n \in LiveRows
        PROVE  n \in JobID /\ rowReq[n] \in Request /\ rowOwner[n] \in Request
    <3>1. n \in JobID /\ row[n] # "none"
      BY DEF LiveRows
    <3>2. rowOwner[n] \in 0..MaxRequests /\ rowOwner[n] # 0 /\ rowReq[n] \in Request
      BY <1>2, <3>1 DEF RequestTypeOK, RowsInv
    <3> QED BY <3>1, <3>2, JobRecoveryAssumption DEF Request
  <2>2. pending' \subseteq Record /\ collided' \subseteq Request
    <3>1. pending' \subseteq Record
      BY <1>3, <2>1 DEF Record
    <3>2. collided' \subseteq Request
      BY <1>2, <1>3, <2>1 DEF RequestTypeOK
    <3> QED BY <3>1, <3>2
  <2> QED BY <1>2, <1>3, <2>2 DEF RequestTypeOK
<1>7. LifeInv'
  BY <1>2, <1>3 DEF LifeInv
<1>8. RowsInv'
  BY <1>2, <1>3, <1>4 DEF RowsInv, Fresh
<1>9. PendingInv'
  <2>1. ASSUME NEW n \in LiveRows
        PROVE  /\ n <= accepted /\ rowReq[n] <= accepted /\ row[n] \in {"queued", "running"}
               /\ rowReq[n] \notin collided' => \A o \in Job : o <= allocated => id[o] # n
    <3>1. n \in JobID /\ row[n] \in {"queued", "running"} /\ RowLive(n)
      BY DEF LiveRows, RowLive
    <3>2. n <= accepted /\ rowReq[n] <= accepted
      BY <1>2, <3>1 DEF RowsInv
    <3>3. rowReq[n] \notin collided' => ~ (n <= jobCounter)
      BY <1>4, <3>1
    <3> QED BY <1>2, <3>1, <3>2, <3>3
  <2>2. \A p \in pending' : \E n \in LiveRows :
          p.id = n /\ p.req = rowReq[n] /\ p.owner = rowOwner[n]
    BY <1>3
  <2> QED BY <1>3, <2>1, <2>2 DEF PendingInv, Fresh, RowLive
<1>10. JobsInv'
  <2>1. \A o \in Job : o <= allocated =>
          /\ req[o] # 0 /\ req[o] <= accepted /\ owner[o] # 0
          /\ rowReq[id[o]] \in collided => req[o] \in collided
          /\ rowReq[id[o]] \notin collided =>
               /\ rowReq[id[o]] = req[o]
               /\ \A p \in Job : p <= allocated /\ id[p] = id[o] => p = o
    BY <1>2 DEF JobsInv, Fresh
  <2>2. \A o \in active : rowReq[id[o]] \notin collided =>
          row[id[o]] \in {"queued", "running"} \/ (row[id[o]] = "failed" /\ worker[o] = "returning")
    BY <1>2 DEF JobsInv, Fresh, RowLive
  <2> QED BY <1>3, <1>4, <2>1, <2>2 DEF JobsInv, Fresh, RowLive
<1>11. SettledInv'
  BY <1>2, <1>3, <1>4 DEF SettledInv, RowLive
<1>12. FinishedInv'
  BY <1>2, <1>3, <1>4 DEF FinishedInv, RowLive
<1>13. KeptInv'
  BY <1>2, <1>3, <1>4 DEF KeptInv, RowLive
<1> QED
  BY <1>5, <1>6, <1>7, <1>8, <1>9, <1>10, <1>11, <1>12, <1>13 DEF RecoveryInv

\* Every step of every life keeps the invariant.
LEMMA RecoveryStepKeeps == RecoveryInv /\ [RecoveryNext]_allVars => RecoveryInv'
<1>1. SUFFICES ASSUME RecoveryInv, [RecoveryNext]_allVars PROVE RecoveryInv'
  OBVIOUS
<1>2. CASE Accept
  BY <1>1, <1>2, AcceptKeepsRecovery
<1>3. CASE \E n \in JobID : Cancel(n)
  BY <1>1, <1>3, CancelKeepsRecovery
<1>4. CASE CancelAll
  BY <1>1, <1>4, CancelAllKeepsRecovery
<1>5. CASE Saves
  BY <1>1, <1>5, SavesKeepsRecovery
<1>6. CASE \E o \in Job : Works(o)
  BY <1>1, <1>6, GoroutineKeepsRecovery, FinishesKeepsRecovery DEF Works
<1>7. CASE Crash
  BY <1>1, <1>7, CrashKeepsRecovery
<1>8. CASE Stop
  BY <1>1, <1>8, StopKeepsRecovery
<1>9. CASE RecoveryStep
  BY <1>1, <1>9, LifeKeepsRecovery, LoadKeepsRecovery, RecoverKeepsRecovery,
     RejectKeepsRecovery DEF RecoveryStep
<1>10. CASE UNCHANGED allVars
  <2>1. /\ UNCHANGED vars /\ UNCHANGED requestVars /\ UNCHANGED rowVars /\ UNCHANGED lifeVars
    BY <1>10 DEF allVars
  <2> QED
    BY <1>1, <2>1
       DEF vars, requestVars, rowVars, lifeVars, RecoveryInv, TableInv, TypeOK, IdsKnown,
           AgreeOn, MannedOn, CleanJobs, RequestTypeOK, LifeInv, RowsInv, RowLive, Fresh,
           PendingInv, JobsInv, SettledInv, Settled, FinishedInv, KeptInv
<1> QED
  BY <1>1, <1>2, <1>3, <1>4, <1>5, <1>6, <1>7, <1>8, <1>9, <1>10 DEF RecoveryNext

\* The first life begins with an empty database.
LEMMA RecoveryInitInv == RecoveryInit => RecoveryInv
<1>1. SUFFICES ASSUME RecoveryInit PROVE RecoveryInv
  OBVIOUS
<1>2. Init /\ JobInv
  BY <1>1, JobInvInit DEF RecoveryInit
<1>3. MaxRequests \in Nat /\ MaxLives \in Nat \ {0} /\ 1 \in 1..MaxLives
  BY JobManagerAssumption, JobRecoveryAssumption
<1>4. \A o \in Job : ~ (o <= 0)
  BY JobIsNat
<1>5. TableInv
  <2>1. TypeOK /\ ToSet(queue) = {} /\ DOMAIN queue = {}
    BY <1>2, EmptySeq DEF JobInv, Init, ToSet
  <2>2. IdsKnown
    BY <1>2, <1>4, <2>1 DEF Init, IdsKnown, Increasing
  <2>3. AgreeOn(CleanJobs, active, queue, state)
    BY <1>2, <2>1 DEF Init, AgreeOn, CleanJobs
  <2>4. MannedOn(CleanJobs, state, worker, ctxDone)
    BY <1>2 DEF Init, MannedOn, CleanJobs, Working
  <2> QED BY <2>1, <2>2, <2>3, <2>4 DEF TableInv
<1>6. RequestTypeOK
  BY <1>1, <1>3 DEF RecoveryInit, RequestTypeOK
<1>7. LifeInv /\ PendingInv /\ SettledInv /\ FinishedInv /\ KeptInv
  <2>1. LifeInv /\ PendingInv
    BY <1>1, <1>2 DEF RecoveryInit, Init, LifeInv, PendingInv
  <2>2. SettledInv /\ FinishedInv
    BY <1>1, <1>2 DEF RecoveryInit, Init, SettledInv, FinishedInv
  <2>3. KeptInv
    BY <1>1 DEF RecoveryInit, KeptInv
  <2> QED BY <2>1, <2>2, <2>3
<1>8. RowsInv /\ JobsInv
  BY <1>1, <1>2, <1>4 DEF RecoveryInit, Init, RowsInv, JobsInv
<1> QED
  BY <1>5, <1>6, <1>7, <1>8 DEF RecoveryInv

\* The inductive invariant of all lives: every theorem below rests on it.
THEOREM RecoveryInvariance == RecoverySpec => []RecoveryInv
<1> QED BY RecoveryStepKeeps, RecoveryInitInv, PTL DEF RecoverySpec

\* A crash at any moment loses no request: until its user has cancelled it or
\* was told its end, a SIGTERM met it or another request met it under its
\* identifier, a request has a row that RecoverJobs will load (SaveJob in every
\* method of JobManager, LoadPersistedState).
THEOREM CrashLosesNothingHolds == RecoverySpec => []CrashLosesNothing
<1>1. RecoveryInv => CrashLosesNothing
  BY DEF RecoveryInv, KeptInv, CrashLosesNothing, Resumable, Settled, RowLive, LiveRows
<1> QED BY <1>1, RecoveryInvariance, PTL

\* Unless identifiers met, no request is executed twice at the same time,
\* however often the process was restarted and whatever commands come beside
\* RecoverJobs, and a goroutine works only for a job /status and /cancel see or
\* for a cancelled one.
THEOREM OneRunPerRequestHolds == RecoverySpec => []OneRunPerRequest
<1>1. RecoveryInv => OneRunPerRequest
  <2>1. SUFFICES ASSUME RecoveryInv PROVE OneRunPerRequest
    OBVIOUS
  <2>2. /\ TableInv /\ RequestTypeOK /\ RowsInv /\ JobsInv /\ TypeOK
        /\ AgreeOn(CleanJobs, active, queue, state)
        /\ MannedOn(CleanJobs, state, worker, ctxDone)
        /\ \A o \in Job : o <= allocated => req[o] # 0 /\ id[o] \in JobID
    BY <2>1, RecoveryParts DEF TableInv
  <2>3. RecoveryTypeOK
    BY <2>2 DEF RequestTypeOK, RecoveryTypeOK
  <2>4. ASSUME NEW o \in Job, Live(o), req[o] \notin collided
        PROVE  /\ o \in active \/ state[o] = "CANCELLED"
               /\ o <= allocated /\ id[o] \in JobID /\ req[o] # 0
               /\ Fresh(id[o]) /\ rowReq[id[o]] = req[o]
    <3>1. o \in CleanJobs
      BY <2>4 DEF CleanJobs
    <3>2. o \in active \/ state[o] = "CANCELLED"
      BY <2>2, <2>4, <3>1 DEF Live, Working, AgreeOn, MannedOn
    <3>3. o <= allocated
      BY <2>2, <2>4, TableParts DEF Live
    <3> QED BY <2>2, <3>1, <3>2, <3>3, FreshKeys
  <2>5. ASSUME NEW o \in Job, NEW p \in Job \ {o}, Live(o), Live(p), req[o] \notin collided,
               req[p] = req[o]
        PROVE  FALSE
    <3>1. /\ o <= allocated /\ id[o] \in JobID /\ req[o] # 0 /\ Fresh(id[o])
          /\ rowReq[id[o]] = req[o]
      BY <2>4, <2>5
    <3>2. p <= allocated /\ id[p] \in JobID /\ rowReq[id[p]] = req[p]
      BY <2>4, <2>5
    <3>3. id[p] = id[o]
      BY <2>2, <2>5, <3>1, <3>2 DEF RowsInv
    <3> QED BY <2>2, <2>5, <3>1, <3>2, <3>3, FreshKeys
  <2> QED BY <2>3, <2>4, <2>5 DEF OneRunPerRequest
<1> QED BY <1>1, RecoveryInvariance, PTL

\* A goroutine is started for a job that runs from then on, and what FinishJob
\* marked completed stays marked.
LEMMA StartedJobsRun ==
  RecoveryInv /\ [RecoveryNext]_allVars =>
    /\ finished \subseteq finished'
    /\ \A o \in Job : worker[o] = "none" /\ worker'[o] = "transfer" => state'[o] = "RUNNING"
<1> DEFINE Goal == /\ finished \subseteq finished'
                   /\ \A o \in Job : worker[o] = "none" /\ worker'[o] = "transfer"
                                       => state'[o] = "RUNNING"
<1>1. SUFFICES ASSUME RecoveryInv, [RecoveryNext]_allVars PROVE Goal
  OBVIOUS
<1>2. TypeOK /\ TableInv
  BY <1>1, RecoveryParts
<1>3. ASSUME NEW p \in Job, NEW n, Admit(p, n), finished' = finished PROVE Goal
  BY <1>2, <1>3 DEF Admit, TypeOK
<1>4. ASSUME NEW n, NEW st \in [Job -> JobState], NEW w \in [Job -> Worker],
             Promote(active \ Entry(n), Unqueue(n), st, w),
             \A o \in Job : w[o] = worker[o] \/ w[o] = "done",
             finished \subseteq finished'
      PROVE  Goal
  <2>1. CASE HasSlot(active \ Entry(n), st) /\ Unqueue(n) # <<>>
    <3>1. /\ state' = [st EXCEPT ![Head(Unqueue(n))] = "RUNNING"]
          /\ worker' = [w EXCEPT ![Head(Unqueue(n))] = "transfer"]
      BY <1>4, <2>1 DEF Promote
    <3> QED BY <1>4, <3>1
  <2>2. CASE ~ (HasSlot(active \ Entry(n), st) /\ Unqueue(n) # <<>>)
    BY <1>4, <2>2 DEF Promote
  <2> QED BY <2>1, <2>2
<1>5. ASSUME NEW p \in Job, NEW to \in Worker, to # "transfer",
             worker' = [worker EXCEPT ![p] = to], finished' = finished
      PROVE  Goal
  BY <1>2, <1>5 DEF TypeOK
<1>6. ASSUME worker' = worker, finished' = finished PROVE Goal
  BY <1>6
<1> HIDE DEF Goal
<1>7. CASE Accept
  <2>1. /\ allocated + 1 \in Job /\ Admit(allocated + 1, jobCounter')
        /\ finished' = finished
    BY <1>2, <1>7, JobManagerAssumption DEF Accept, CreateJob, Job, TypeOK
  <2> QED BY <1>3, <2>1
<1>8. CASE \E p \in pending : Recover(p)
  <2>1. PICK p \in pending : Recover(p)
    BY <1>8
  <2>2. /\ allocated + 1 \in Job /\ Admit(allocated + 1, p.id) /\ finished' = finished
    BY <1>2, <2>1, JobManagerAssumption DEF Recover, Job, TypeOK
  <2> QED BY <1>3, <2>2
<1>9. CASE \E n \in JobID : Cancel(n)
  <2>1. PICK n \in JobID : Cancel(n)
    BY <1>9
  <2> DEFINE st == [j \in Job |-> IF j \in Entry(n) THEN "CANCELLED" ELSE state[j]]
  <2>2. /\ Promote(active \ Entry(n), Unqueue(n), st, worker) /\ finished' = finished
        /\ st \in [Job -> JobState] /\ worker \in [Job -> Worker]
    BY <1>2, <2>1 DEF Cancel, CancelJob, TypeOK, JobState
  <2> HIDE DEF st
  <2> QED BY <1>4, <2>2
<1>10. CASE \E o \in Job : Finishes(o)
  <2>1. PICK o \in Job : Finishes(o)
    BY <1>10
  <2> DEFINE n == id[o]
             st == [j \in Job |-> IF j \in Entry(n) THEN "COMPLETED" ELSE state[j]]
             w == [worker EXCEPT ![o] = "done"]
  <2>2. /\ Promote(active \ Entry(n), Unqueue(n), st, w) /\ finished \subseteq finished'
    BY <2>1 DEF Finishes, FinishJob
  <2>3. /\ st \in [Job -> JobState] /\ w \in [Job -> Worker]
        /\ \A j \in Job : w[j] = worker[j] \/ w[j] = "done"
    BY <1>2 DEF TypeOK, JobState, Worker
  <2> HIDE DEF st, w, n
  <2> QED BY <1>4, <2>2, <2>3
<1>11. CASE \E o \in Job : EndsTransfer(o) \/ ReportsFailure(o)
  <2>1. PICK o \in Job : EndsTransfer(o) \/ ReportsFailure(o)
    BY <1>11
  <2>2. finished' = finished
    BY <2>1 DEF EndsTransfer, ReportsFailure, requestVars
  <2>3. CASE EndsTransfer(o)
    <3>1. \E to \in {"returning", "failed"} : worker' = [worker EXCEPT ![o] = to]
      BY <2>3 DEF EndsTransfer, TransferSucceeds, TransferFails, TransferCancelled
    <3> QED BY <1>5, <2>2, <3>1 DEF Worker
  <2>4. CASE ReportsFailure(o)
    <3>1. \E to \in {"returning", "reporting"} : worker' = [worker EXCEPT ![o] = to]
      BY <2>4 DEF ReportsFailure, SendJobFailure, ReportFailure
    <3> QED BY <1>5, <2>2, <3>1 DEF Worker
  <2> QED BY <2>1, <2>3, <2>4
<1>12. CASE CancelAll \/ Saves \/ Stop \/ Boot \/ Load \/ RecoveryReturns \/ UNCHANGED allVars
  <2>1. worker' = worker /\ finished' = finished
    BY <1>12
       DEF CancelAll, CancelAllJobs, Saves, SaveStateNow, Stop, Boot, Load,
           RecoveryReturns, allVars, vars, requestVars
  <2> QED BY <1>6, <2>1
<1>13. CASE Crash
  <2>1. finished' = finished /\ worker' = [o \in Job |-> "none"]
    BY <1>13 DEF Crash
  <2> QED BY <2>1 DEF Goal
<1>14. CASE \E p \in pending : Reject(p)
  <2>1. worker' = worker /\ finished' = finished
    BY <1>14 DEF Reject
  <2> QED BY <1>6, <2>1
<1> QED
  BY <1>1, <1>7, <1>8, <1>9, <1>10, <1>11, <1>12, <1>13, <1>14
     DEF RecoveryNext, RecoveryStep, Works

\* Two requests meet under an identifier when a command takes it, or when
\* RecoverJobs loads the rows; only the command starts a goroutine, its own.
LEMMA CollisionsStartNobodyElse ==
  ASSUME RecoveryInv, [RecoveryNext]_allVars, collided' # collided,
         NEW o \in Job, worker[o] = "none", worker'[o] = "transfer"
  PROVE  req'[o] \notin finished
<1>1. TypeOK /\ RequestTypeOK /\ FinishedInv
  BY RecoveryParts
<1>2. CASE Accept
  <2>1. /\ Admit(allocated + 1, jobCounter') /\ allocated' = allocated + 1
        /\ req' = [req EXCEPT ![allocated'] = accepted'] /\ accepted' = accepted + 1
    BY <1>2 DEF Accept, CreateJob, Admit
  <2>2. o = allocated + 1
    BY <1>1, <2>1 DEF Admit, TypeOK
  <2>3. req'[o] = accepted + 1
    BY <1>1, <2>1, <2>2 DEF RequestTypeOK
  <2>4. accepted \in Nat /\ ~ (accepted + 1 <= accepted)
    BY <1>1 DEF RequestTypeOK
  <2> QED BY <1>1, <2>3, <2>4 DEF FinishedInv
<1>3. CASE Load
  BY <1>3 DEF Load, vars
<1>4. CASE ~ Accept /\ ~ Load
  <2>1. ~ UNCHANGED allVars
    BY DEF allVars, requestVars
  <2>2. ~ (\E n \in JobID : Cancel(n)) /\ ~ CancelAll /\ ~ Saves
    BY DEF Cancel, CancelAll, Saves, requestVars
  <2>3. ~ \E j \in Job : Works(j)
    BY DEF Works, EndsTransfer, ReportsFailure, Finishes, requestVars
  <2>4. ~ Crash /\ ~ Stop /\ ~ Boot /\ ~ RecoveryReturns
    BY DEF Crash, Stop, Boot, RecoveryReturns, requestVars
  <2>5. ~ \E p \in pending : Recover(p) \/ Reject(p)
    BY DEF Recover, Reject
  <2> QED BY <1>4, <2>1, <2>2, <2>3, <2>4, <2>5 DEF RecoveryNext, RecoveryStep
<1> QED BY <1>2, <1>3, <1>4

\* What FinishJob marked completed is not executed again by a later life: its
\* row is not live, so RecoverJobs does not load it (CompleteJob before the
\* table is saved, LoadPersistedState), unless identifiers met.
THEOREM FinishedNeverRepeatsHolds == RecoverySpec => FinishedNeverRepeats
<1> DEFINE NoRepeat == \A o \in Job : worker[o] = "none" /\ worker'[o] = "transfer" =>
                                        req'[o] \notin finished \ collided
<1>1. RecoveryInv /\ RecoveryInv' /\ [RecoveryNext]_allVars => NoRepeat
  <2>1. SUFFICES ASSUME RecoveryInv, RecoveryInv', [RecoveryNext]_allVars,
                        NEW o \in Job, worker[o] = "none", worker'[o] = "transfer"
                 PROVE  req'[o] \notin finished \ collided
    OBVIOUS
  <2>2. finished \subseteq finished' /\ state'[o] = "RUNNING"
    BY <2>1, StartedJobsRun
  <2>3. CASE collided' # collided
    BY <2>1, <2>3, CollisionsStartNobodyElse
  <2>4. CASE collided' = collided /\ req'[o] \notin collided'
    <3>1. o \in CleanJobs'
      BY <2>1, <2>4 DEF CleanJobs
    <3>2. AgreeOn(CleanJobs', active', queue', state') /\ FinishedInv'
      BY <2>1 DEF RecoveryInv, TableInv, AgreeOn
    <3>3. o \in active'
      BY <2>2, <3>1, <3>2 DEF AgreeOn
    <3> QED BY <2>2, <2>4, <3>2, <3>3 DEF FinishedInv
  <2> QED BY <2>3, <2>4
<1>2. RecoveryInv /\ RecoveryInv' /\ [RecoveryNext]_allVars => [NoRepeat]_allVars
  BY <1>1
<1> QED BY <1>2, RecoveryInvariance, PTL DEF RecoverySpec, FinishedNeverRepeats

=============================================================================
