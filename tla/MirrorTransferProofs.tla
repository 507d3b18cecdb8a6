------------------------ MODULE MirrorTransferProofs ------------------------
(***************************************************************************)
(* What slots, waiters and pipes have to do with the goroutines of         *)
(* MirrorTransfer, for any number of jobs, slots and chunks.               *)
(***************************************************************************)
EXTENDS MirrorTransfer, TLAPS, FiniteSetTheorems, SequenceTheorems

Asking(j) == job[j] = "asking" \/ down[j] = "asking"

\* Parallel jobs have no goroutine that downloads, stream jobs let it download;
\* a new job has done nothing.
ModeInv ==
  \A j \in Job :
    /\ mode = "parallel" => down[j] = "none"
    /\ mode = "stream" => job[j] \notin {"asking", "fetching"}
    /\ job[j] = "new" => down[j] = "none"

Distinct(s) == \A i, k \in DOMAIN s : s[i] = s[k] => i = k

\* Only jobs that ask for a slot wait for one, and none waits twice.
LineInv ==
  /\ \A i \in DOMAIN line : Asking(line[i])
  /\ Distinct(line)

\* The pipe ends with the last chunk, and only then is the transfer well.
PipeInv ==
  \A j \in Job :
    /\ pipe[j] = "eof" => down[j] = "ended" /\ got[j] = Chunks
    /\ down[j] = "writing" => got[j] < Chunks
    /\ mode = "stream" /\ result[j] = "ok" => pipe[j] = "eof"

TransferInv ==
  SlotsAreDownloads /\ ModeInv /\ LineInv /\ PipeInv
-----------------------------------------------------------------------------
(* The line of waiters. *)

\* The elements of s but x.
OthersOf(t, s, x) ==
  \A i \in DOMAIN t : \E k \in DOMAIN s : t[i] = s[k] /\ s[k] # x

\* A job that does not wait yet may line up.
LEMMA LineUp ==
  ASSUME NEW s \in Seq(Job), Distinct(s), NEW j \in Job,
         \A i \in DOMAIN s : s[i] # j
  PROVE  /\ Append(s, j) \in Seq(Job) /\ Distinct(Append(s, j))
         /\ \A i \in DOMAIN Append(s, j) :
              Append(s, j)[i] = j \/ \E k \in DOMAIN s : Append(s, j)[i] = s[k]
<1> DEFINE t == Append(s, j)
<1>1. /\ t \in Seq(Job) /\ Len(t) = Len(s) + 1 /\ t[Len(s) + 1] = j
      /\ \A i \in 1..Len(s) : t[i] = s[i]
  BY AppendProperties
<1>2. Len(s) \in Nat /\ DOMAIN s = 1..Len(s) /\ DOMAIN t = 1..(Len(s) + 1)
  BY <1>1, LenProperties
<1> HIDE DEF t
<1>3. \A i \in DOMAIN t : (i \in DOMAIN s /\ t[i] = s[i]) \/ (i = Len(s) + 1 /\ t[i] = j)
  BY <1>1, <1>2
<1> QED BY <1>1, <1>2, <1>3 DEF Distinct, t

\* Whose turn it is leaves the line; nobody else does.
LEMMA HeadLeaves ==
  ASSUME NEW s \in Seq(Job), s # <<>>, Distinct(s)
  PROVE  /\ Head(s) \in Job /\ \E i \in DOMAIN s : s[i] = Head(s)
         /\ Tail(s) \in Seq(Job) /\ Distinct(Tail(s))
         /\ OthersOf(Tail(s), s, Head(s))
<1>1. /\ Head(s) = s[1] /\ Head(s) \in Job
      /\ Tail(s) \in Seq(Job) /\ Len(Tail(s)) = Len(s) - 1
      /\ \A i \in 1..Len(Tail(s)) : Tail(s)[i] = s[i + 1]
  BY HeadTailProperties
<1>2. Len(s) \in Nat \ {0} /\ DOMAIN s = 1..Len(s)
  BY EmptySeq, LenProperties
<1>3. DOMAIN Tail(s) = 1..(Len(s) - 1)
  BY <1>1, LenProperties
<1>4. \A i \in DOMAIN Tail(s) : i + 1 \in DOMAIN s /\ Tail(s)[i] = s[i + 1] /\ i + 1 # 1
  BY <1>1, <1>2, <1>3
<1>5. Distinct(Tail(s))
  BY <1>2, <1>3, <1>4 DEF Distinct
<1>6. OthersOf(Tail(s), s, Head(s))
  BY <1>1, <1>2, <1>4 DEF Distinct, OthersOf
<1> QED BY <1>1, <1>2, <1>5, <1>6

\* So does who gives up, from any place.
LEMMA GivesUp ==
  ASSUME NEW s \in Seq(Job), Distinct(s), NEW p \in DOMAIN s
  PROVE  /\ RemoveAt(s, p) \in Seq(Job) /\ Distinct(RemoveAt(s, p))
         /\ OthersOf(RemoveAt(s, p), s, s[p])
<1> DEFINE a == SubSeq(s, 1, p - 1)
           b == SubSeq(s, p + 1, Len(s))
           t == RemoveAt(s, p)
           from(i) == IF i < p THEN i ELSE i + 1
<1>1. Len(s) \in Nat /\ DOMAIN s = 1..Len(s) /\ p \in 1..Len(s)
  BY LenProperties
<1>2. a \in Seq(Job) /\ Len(a) = p - 1 /\ \A i \in 1..(p - 1) : a[i] = s[i]
  BY <1>1, SubSeqProperties, ElementOfSeq
<1>3. b \in Seq(Job) /\ Len(b) = Len(s) - p
      /\ \A i \in 1..(Len(s) - p) : b[i] = s[p + i]
  BY <1>1, SubSeqProperties, ElementOfSeq
<1>4. t = a \o b
  BY DEF RemoveAt
<1> HIDE DEF a, b, t
<1>5. /\ t \in Seq(Job) /\ Len(t) = Len(a) + Len(b)
      /\ \A i \in 1..(Len(a) + Len(b)) :
           t[i] = IF i <= Len(a) THEN a[i] ELSE b[i - Len(a)]
  BY <1>2, <1>3, <1>4, ConcatProperties
<1>6. DOMAIN t = 1..(Len(s) - 1)
  BY <1>1, <1>2, <1>3, <1>5, LenProperties
<1>7. ASSUME NEW i \in DOMAIN t
      PROVE  from(i) \in DOMAIN s /\ t[i] = s[from(i)] /\ from(i) # p
  <2>1. CASE i < p
    BY <1>1, <1>2, <1>3, <1>5, <1>6, <2>1
  <2>2. CASE ~(i < p)
    <3>1. t[i] = b[i - (p - 1)]
      BY <1>1, <1>2, <1>3, <1>5, <1>6, <2>2
    <3>2. i - (p - 1) \in 1..(Len(s) - p) /\ p + (i - (p - 1)) = i + 1
      BY <1>1, <1>6, <2>2
    <3>3. b[i - (p - 1)] = s[p + (i - (p - 1))]
      BY <1>3, <3>2
    <3>4. t[i] = s[i + 1]
      BY <3>1, <3>2, <3>3
    <3>5. i + 1 \in DOMAIN s /\ i + 1 # p
      BY <1>1, <1>6, <2>2
    <3>6. from(i) = i + 1
      BY <2>2
    <3> HIDE DEF from
    <3> QED BY <3>4, <3>5, <3>6
  <2> QED BY <2>1, <2>2
<1>8. \A i, k \in DOMAIN t : from(i) = from(k) => i = k
  BY <1>1, <1>6
<1> HIDE DEF from
<1>9. Distinct(t) /\ OthersOf(t, s, s[p])
  BY <1>7, <1>8 DEF Distinct, OthersOf
<1> QED BY <1>5, <1>9 DEF t
-----------------------------------------------------------------------------
(* The steps. *)

\* Slots are finitely many, one more or one less with each job that comes or goes.
LEMMA SlotsChange ==
  ASSUME slots \subseteq Job, NEW j \in Job
  PROVE  /\ Cardinality(slots) \in Nat
         /\ Cardinality(slots \cup {j}) <= Cardinality(slots) + 1
         /\ Cardinality(slots \ {j}) <= Cardinality(slots)
         /\ Cardinality(slots \cup {j}) \in Nat /\ Cardinality(slots \ {j}) \in Nat
<1>1. IsFiniteSet(slots)
  BY MirrorTransferAssumption, FS_Subset
<1>2. /\ IsFiniteSet(slots \cup {j}) /\ IsFiniteSet(slots \ {j})
      /\ Cardinality(slots \cup {j}) =
           IF j \in slots THEN Cardinality(slots) ELSE Cardinality(slots) + 1
      /\ Cardinality(slots \ {j}) =
           IF j \in slots THEN Cardinality(slots) - 1 ELSE Cardinality(slots)
  BY <1>1, FS_AddElement, FS_RemoveElement
<1> QED BY <1>1, <1>2, FS_CardinalityType

USE MirrorTransferAssumption
    DEF TransferInv, SlotsAreDownloads, TypeOK, ModeInv, LineInv, PipeInv,
        Downloading, Asking

\* Nothing runs at first.
LEMMA InitInv == Init => TransferInv
<1> SUFFICES ASSUME Init PROVE TransferInv
  OBVIOUS
<1>1. line \in Seq(Job) /\ DOMAIN line = {}
  BY EmptySeq DEF Init
<1> QED BY <1>1, FS_EmptySet DEF Init, Distinct

\* A chunk is offered only while some are missing.
LEMMA OfferKeeps ==
  ASSUME TransferInv, NEW j \in Job, Offer(j) PROVE TransferInv'
BY DEF Offer, Return

\* A read counts the chunk.
LEMMA ReadKeeps ==
  ASSUME TransferInv, NEW j \in Job, Read(j) PROVE TransferInv'
BY DEF Read, Return

\* The end of the pipe decides what the transfer returns.
LEMMA ReadEndKeeps ==
  ASSUME TransferInv, NEW j \in Job, ReadEnd(j) PROVE TransferInv'
BY DEF ReadEnd, Return

\* A job may return before it asked for a slot.
LEMMA CreateTempFailsKeeps ==
  ASSUME TransferInv, NEW j \in Job, CreateTempFails(j) PROVE TransferInv'
BY DEF CreateTempFails, Return

\* In parallel mode the upload begins after the download.
LEMMA FileUploadedKeeps ==
  ASSUME TransferInv, NEW j \in Job, FileUploaded(j) PROVE TransferInv'
BY DEF FileUploaded, Return

\* A failed upload leaves the download and its slot alone.
LEMMA UploadFailsKeeps ==
  ASSUME TransferInv, NEW j \in Job, UploadFails(j) PROVE TransferInv'
BY DEF UploadFails, Return

\* A cancellation is only a sign.
LEMMA CancelKeeps ==
  ASSUME TransferInv, NEW j \in Job, Cancel(j) PROVE TransferInv'
BY DEF Cancel, Return

\* A new job does not wait yet, and lines up last.
LEMMA StartKeeps ==
  ASSUME TransferInv, NEW j \in Job, Start(j) PROVE TransferInv'
<1>1. \A i \in DOMAIN line : line[i] # j
  BY DEF Start
<1>2. line' = Append(line, j) /\ Distinct(line) /\ line \in Seq(Job)
  BY DEF Start
<1>3. /\ line' \in Seq(Job) /\ Distinct(line')
      /\ \A i \in DOMAIN line' : line'[i] = j \/ \E k \in DOMAIN line : line'[i] = line[k]
  BY <1>1, <1>2, LineUp
<1>4. TypeOK' /\ slots' = slots /\ \A k \in Job : Downloading(k)' <=> Downloading(k)
  <2>1. /\ job[j] = "new" /\ UNCHANGED <<mode, result, slots, pipe, got, ctxDone>>
        /\ \/ /\ mode = "stream" /\ job' = [job EXCEPT ![j] = "uploading"]
              /\ down' = [down EXCEPT ![j] = "asking"]
           \/ /\ mode = "parallel" /\ job' = [job EXCEPT ![j] = "asking"]
              /\ UNCHANGED down
    BY DEF Start
  <2>2. line' \in Seq(Job) /\ SlotsAreDownloads /\ down[j] = "none"
    BY <1>3, <2>1
  <2> HIDE DEF TransferInv
  <2> QED BY <2>1, <2>2
<1>5. Asking(j)' /\ \A k \in Job : Asking(k) => Asking(k)'
  BY DEF Start
<1>6. \A i \in DOMAIN line : line[i] \in Job
  BY <1>2, ElementOfSeq, LenProperties
<1>7. LineInv'
  <2> HIDE DEF Asking, TransferInv
  <2> QED BY <1>3, <1>5, <1>6, TransferInv DEF TransferInv
<1>8. ModeInv' /\ PipeInv'
  BY DEF Start
<1> QED BY <1>4, <1>7, <1>8

\* Who leaves the line asks no more; whoever stays does.
LEMMA LeavingLine ==
  ASSUME TransferInv, NEW j \in Job, Distinct(line'),
         OthersOf(line', line, j),
         \A k \in Job \ {j} : job'[k] = job[k] /\ down'[k] = down[k]
  PROVE  LineInv'
<1>1. \A i \in DOMAIN line : line[i] \in Job /\ Asking(line[i])
  BY ElementOfSeq, LenProperties
<1>2. \A k \in Job \ {j} : Asking(k) => Asking(k)'
  OBVIOUS
<1> HIDE DEF TransferInv, Asking
<1> QED BY <1>1, <1>2 DEF OthersOf

\* The first of the line gets a slot that is free.
LEMMA AcquireKeeps ==
  ASSUME TransferInv, NEW j \in Job, Acquire(j) PROVE TransferInv'
<1>1. /\ line' = Tail(line) /\ line # <<>> /\ j = Head(line)
      /\ line \in Seq(Job) /\ Distinct(line)
  BY DEF Acquire
<1>2. /\ line' \in Seq(Job) /\ Distinct(line') /\ OthersOf(line', line, j)
      /\ Asking(j)
  <2>1. \E i \in DOMAIN line : line[i] = j
    BY <1>1, HeadLeaves
  <2> QED BY <1>1, <2>1, HeadLeaves
<1>3. LineInv'
  <2>1. \A k \in Job \ {j} : job'[k] = job[k] /\ down'[k] = down[k]
    BY DEF Acquire
  <2> HIDE DEF TransferInv, LineInv
  <2> QED BY <1>2, <2>1, LeavingLine
<1>4. TypeOK' /\ slots' = {k \in Job : Downloading(k)'}
  <2>1. /\ slots' = slots \cup {j} /\ UNCHANGED <<mode, result, pipe, got, ctxDone>>
        /\ \/ /\ mode = "stream" /\ down' = [down EXCEPT ![j] = "fetching"]
              /\ UNCHANGED job
           \/ /\ mode = "parallel" /\ job' = [job EXCEPT ![j] = "fetching"]
              /\ UNCHANGED down
    BY DEF Acquire
  <2>2. line' \in Seq(Job) /\ Asking(j) /\ SlotsAreDownloads /\ ModeInv
    BY <1>2
  <2> HIDE DEF TransferInv
  <2>3. TypeOK'
    BY <2>1, <2>2
  <2>4. Downloading(j)' /\ \A k \in Job \ {j} : Downloading(k)' <=> Downloading(k)
    BY <2>1, <2>2
  <2> QED BY <2>1, <2>2, <2>3, <2>4
<1>5. Cardinality(slots') <= Slots
  <2>1. slots \subseteq Job /\ Cardinality(slots) < Slots /\ slots' = slots \cup {j}
    BY DEF Acquire
  <2> HIDE DEF TransferInv
  <2>2. /\ Cardinality(slots') <= Cardinality(slots) + 1
        /\ Cardinality(slots) \in Nat /\ Cardinality(slots') \in Nat
    BY <2>1, SlotsChange
  <2> QED BY <2>1, <2>2
<1>6. ModeInv' /\ PipeInv'
  BY <1>2 DEF Acquire
<1> QED BY <1>3, <1>4, <1>5, <1>6

\* Who gives up leaves the line without a slot.
LEMMA AcquireFailsKeeps ==
  ASSUME TransferInv, NEW j \in Job, AcquireFails(j) PROVE TransferInv'
<1>1. PICK p \in DOMAIN line : line[p] = j /\ line' = RemoveAt(line, p)
  BY DEF AcquireFails
<1>2. /\ line' \in Seq(Job) /\ Distinct(line') /\ OthersOf(line', line, j)
      /\ Asking(j)
  <2>1. line \in Seq(Job) /\ Distinct(line) /\ Asking(j)
    BY <1>1
  <2> QED BY <1>1, <2>1, GivesUp
<1>3. LineInv'
  <2>1. \A k \in Job \ {j} : job'[k] = job[k] /\ down'[k] = down[k]
    BY DEF AcquireFails, Return
  <2> HIDE DEF TransferInv, LineInv
  <2> QED BY <1>2, <2>1, LeavingLine
<1>4. TypeOK' /\ slots' = slots /\ slots' = {k \in Job : Downloading(k)'}
  <2>1. /\ UNCHANGED <<mode, slots, got, ctxDone>>
        /\ \/ /\ mode = "stream" /\ down' = [down EXCEPT ![j] = "ended"]
              /\ pipe' = [pipe EXCEPT ![j] = "error"] /\ UNCHANGED <<job, result>>
           \/ /\ mode = "parallel" /\ job' = [job EXCEPT ![j] = "returned"]
              /\ result' = [result EXCEPT ![j] = "failed"] /\ UNCHANGED <<down, pipe>>
    BY DEF AcquireFails, Return
  <2>2. line' \in Seq(Job) /\ Asking(j) /\ SlotsAreDownloads /\ ModeInv
    BY <1>2
  <2> HIDE DEF TransferInv
  <2>3. TypeOK'
    BY <2>1, <2>2
  <2>4. \A k \in Job : Downloading(k)' <=> Downloading(k)
    BY <2>1, <2>2
  <2> QED BY <2>1, <2>2, <2>3, <2>4
<1>5. ModeInv' /\ PipeInv'
  BY <1>2 DEF AcquireFails, Return
<1> QED BY <1>3, <1>4, <1>5

\* Each end of a download releases its slot, and only the good one closes the
\* pipe without an error.
LEMMA DownloadEndsKeeps ==
  ASSUME TransferInv, NEW j \in Job,
         StreamEnds(j) \/ StreamFails(j) \/ FileDownloaded(j)
  PROVE  TransferInv'
<1>1. Cardinality(slots') <= Slots
  <2>1. /\ slots \subseteq Job /\ Cardinality(slots) <= Slots
        /\ slots' = slots \ {j}
    BY DEF StreamEnds, StreamFails, FileDownloaded
  <2> HIDE DEF TransferInv
  <2>2. /\ Cardinality(slots') <= Cardinality(slots)
        /\ Cardinality(slots) \in Nat /\ Cardinality(slots') \in Nat
    BY <2>1, SlotsChange
  <2> QED BY <2>1, <2>2
<1>2. CASE StreamEnds(j)
  BY <1>1, <1>2 DEF StreamEnds
<1>3. CASE StreamFails(j)
  BY <1>1, <1>3 DEF StreamFails
<1>4. CASE FileDownloaded(j)
  <2>1. /\ job[j] = "fetching" /\ slots' = slots \ {j}
        /\ UNCHANGED <<mode, line, down, pipe, got, ctxDone>>
        /\ \/ job' = [job EXCEPT ![j] = "uploading"] /\ UNCHANGED result
           \/ /\ job' = [job EXCEPT ![j] = "returned"]
              /\ result' = [result EXCEPT ![j] = "failed"]
    BY <1>4 DEF FileDownloaded, Return
  <2>2. mode = "parallel" /\ down[j] = "none"
    BY <2>1
  <2>3. LineInv'
    BY <2>1, <2>2
  <2>4. SlotsAreDownloads /\ ModeInv /\ PipeInv
    OBVIOUS
  <2> HIDE DEF TransferInv
  <2>5. TypeOK'
    BY <2>1, <2>4
  <2>6. ModeInv' /\ PipeInv'
    BY <2>1, <2>2, <2>4
  <2>7. slots' = {k \in Job : Downloading(k)'}
    BY <2>1, <2>2, <2>4
  <2> QED BY <1>1, <2>3, <2>5, <2>6, <2>7 DEF TransferInv
<1> QED BY <1>2, <1>3, <1>4
-----------------------------------------------------------------------------
HIDE DEF TransferInv, SlotsAreDownloads, TypeOK, ModeInv, LineInv, PipeInv,
         Downloading, Asking

\* No step of the system breaks the invariant.
LEMMA NextKeeps == TransferInv /\ [Next]_vars => TransferInv'
<1> SUFFICES ASSUME TransferInv, [Next]_vars PROVE TransferInv'
  OBVIOUS
<1>1. CASE UNCHANGED vars
  BY <1>1 DEF vars, TransferInv, SlotsAreDownloads, TypeOK, ModeInv, LineInv,
     PipeInv, Downloading, Asking
<1>2. CASE Next
  BY <1>2, StartKeeps, CreateTempFailsKeeps, AcquireKeeps, AcquireFailsKeeps,
     OfferKeeps, DownloadEndsKeeps, ReadKeeps, ReadEndKeeps, FileUploadedKeeps,
     UploadFailsKeeps, CancelKeeps DEF Next, DownloadStep, UploadStep
<1> QED BY <1>1, <1>2

\* The invariant holds in every reachable state.
THEOREM InvHolds == Spec => []TransferInv
BY InitInv, NextKeeps, PTL DEF Spec

\* A slot is taken for every download that runs, for nothing else, and for at
\* most max_concurrent_downloads of them (SlotsAreDownloads), however acquires,
\* failures, cancellations and the ends of both goroutines interleave.
THEOREM SlotsAreDownloadsHolds == Spec => []SlotsAreDownloads
<1>1. TransferInv => SlotsAreDownloads
  BY DEF TransferInv
<1> QED BY <1>1, InvHolds, PTL

\* A streamed upload that Drive accepted holds all chunks (WholeFileOrError).
THEOREM WholeFileOrErrorHolds == Spec => []WholeFileOrError
<1>1. TransferInv => WholeFileOrError
  BY DEF TransferInv, PipeInv, WholeFileOrError
<1> QED BY <1>1, InvHolds, PTL
=============================================================================
