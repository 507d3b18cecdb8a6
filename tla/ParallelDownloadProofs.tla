----------------------- MODULE ParallelDownloadProofs -----------------------
(***************************************************************************)
(* rawParallelDownload writes every page of the file, for every size, part *)
(* size and number of threads: the arithmetic of the ranges first, then    *)
(* that DownloadInv is inductive, then what follows from it.               *)
(***************************************************************************)
EXTENDS ParallelDownload, TLAPS

(* Arithmetic. *)

\* What \div means.
LEMMA DivBounds ==
  ASSUME NEW n \in Int, NEW d \in Nat \ {0}
  PROVE  /\ n \div d \in Int
         /\ (n \div d) * d \in Int
         /\ (n \div d) * d <= n
         /\ n < (n \div d) * d + d
BY SMT

\* Multiplication by a natural number keeps an order.
LEMMA MulMono ==
  ASSUME NEW a \in Int, NEW b \in Int, NEW d \in Nat, a <= b
  PROVE  a * d <= b * d
BY SMT

\* The offset of a chunk of whole pages is a whole number of pages.
LEMMA MulAssoc ==
  ASSUME NEW a \in Int, NEW b \in Int, NEW d \in Int
  PROVE  a * (b * d) = (a * b) * d /\ a * b \in Int
BY SMT

\* n \div d is the greatest q with q * d <= n.
LEMMA DivGreatest ==
  ASSUME NEW n \in Int, NEW d \in Nat \ {0}, NEW q \in Int, q * d <= n
  PROVE  q <= n \div d
<1>1. n < (n \div d) * d + d /\ n \div d \in Int
  BY DivBounds
<1>2. ASSUME q >= n \div d + 1 PROVE FALSE
  <2>1. (n \div d + 1) * d <= q * d
    BY <1>1, <1>2, MulMono
  <2>2. (n \div d + 1) * d = (n \div d) * d + d
    BY <1>1
  <2>3. (n \div d) * d \in Int /\ q * d \in Int
    BY <1>1
  <2>4. QED BY <1>1, <2>1, <2>2, <2>3
<1>3. QED BY <1>1, <1>2

\* A multiple of d that is at most n is at most n rounded down.
LEMMA RoundDownGreatest ==
  ASSUME NEW n \in Int, NEW q \in Int, q * Page <= n
  PROVE  q * Page <= RoundDown(n)
<1>1. Page \in Nat \ {0}
  BY ParallelDownloadAssumption
<1>2. q <= n \div Page /\ n \div Page \in Int
  BY <1>1, DivGreatest, DivBounds
<1>3. QED BY <1>1, <1>2, MulMono DEF RoundDown

\* Rounding down stays within a page below.
LEMMA RoundDownBounds ==
  ASSUME NEW n \in Int
  PROVE  RoundDown(n) \in Int /\ RoundDown(n) <= n
BY ParallelDownloadAssumption, DivBounds DEF RoundDown

\* A part size that is left alone, or rawChunkSize, consists of whole pages.
LEMMA WholePages ==
  ASSUME NEW n \in Nat, n % Page = 0
  PROVE  \E k \in Nat : n = k * Page
<1>1. Page \in Nat \ {0}
  BY ParallelDownloadAssumption
<1>2. QED BY <1>1, SMT
-----------------------------------------------------------------------------
(* The ranges. *)

\* A goroutine of the loop asks only for bytes of the file.
LEMMA RangeInFile ==
  ASSUME size \in Nat \ {0}, partSize \in Nat \ {0},
         NEW c \in Nat, c < TotalChunks
  PROVE  Range(c) \subseteq 0..(size - 1)
<1> DEFINE offset == c * partSize
           length == IF offset + partSize > size THEN size - offset ELSE partSize
           asked == IF RoundDown(length) > 0 THEN RoundDown(length) ELSE length
<1>1. TotalChunks \in Int /\ TotalChunks * partSize \in Int
      /\ TotalChunks * partSize <= size + partSize - 1
  BY DivBounds DEF TotalChunks
<1>2. (c + 1) * partSize <= TotalChunks * partSize
  BY <1>1, MulMono
<1>3. (c + 1) * partSize = offset + partSize /\ offset \in Nat
  OBVIOUS
<1>4. offset <= size - 1
  BY <1>1, <1>2, <1>3
<1>5. length \in Int /\ offset + length <= size
  BY <1>3
<1>6. asked \in Int /\ asked <= length
  BY <1>5, RoundDownBounds
<1>7. Range(c) = offset..(offset + asked - 1)
  BY DEF Range
<1> HIDE DEF offset, length, asked
<1>8. QED BY <1>3, <1>5, <1>6, <1>7

\* The ranges of all chunks hold every page of the file.
LEMMA RangesCoverPages ==
  ASSUME size \in Nat \ {0}, partSize \in Nat \ {0}, partSize % Page = 0,
         NEW o \in 0..(RoundDown(size) - 1)
  PROVE  \E c \in Nat : c < TotalChunks /\ o \in Range(c)
<1> DEFINE c == o \div partSize
           offset == c * partSize
           length == IF offset + partSize > size THEN size - offset ELSE partSize
           asked == IF RoundDown(length) > 0 THEN RoundDown(length) ELSE length
<1>1. Page \in Nat \ {0} /\ RoundDown(size) \in Int /\ RoundDown(size) <= size
  BY ParallelDownloadAssumption, RoundDownBounds
<1>2. o \in Nat /\ o < RoundDown(size) /\ o < size
  BY <1>1
<1>3. c \in Int /\ offset \in Int /\ offset <= o /\ o < offset + partSize
  BY <1>2, DivBounds
<1>4. c \in Nat
  BY <1>2, SMT
<1>5. c < TotalChunks
  <2>1. (c + 1) * partSize = offset + partSize
    BY <1>3
  <2>2. offset + partSize <= size + partSize - 1
    BY <1>2, <1>3
  <2>3. TotalChunks \in Int /\ c + 1 <= TotalChunks
    BY <1>3, <2>1, <2>2, DivGreatest, DivBounds DEF TotalChunks
  <2>4. QED BY <1>3, <2>3
<1>6. PICK k \in Nat : partSize = k * Page
  BY WholePages
<1>7. Range(c) = offset..(offset + asked - 1)
  BY DEF Range
<1>8. o < offset + asked
  <2>1. CASE offset + partSize <= size
    <3>1. length = partSize
      BY <1>3, <2>1
    <3>2. partSize <= RoundDown(partSize) /\ RoundDown(partSize) <= partSize
          /\ RoundDown(partSize) \in Int
      BY <1>6, RoundDownGreatest, RoundDownBounds
    <3>3. asked = partSize
      BY <3>1, <3>2
    <3>4. QED BY <1>3, <3>3
  <2>2. CASE offset + partSize > size
    <3>1. length = size - offset /\ length \in Int
      BY <1>3, <2>2
    <3>2. PICK m \in Int : offset = m * Page
      <4>1. c * (k * Page) = (c * k) * Page /\ c * k \in Int
        BY <1>1, <1>3, MulAssoc
      <4>2. QED BY <1>6, <4>1
    <3>3. PICK q \in Int : RoundDown(size) = q * Page
      <4>1. size \div Page \in Int
        BY <1>1, DivBounds
      <4>2. QED BY <4>1 DEF RoundDown
    <3>4. (q - m) * Page = RoundDown(size) - offset
      BY <1>1, <3>2, <3>3
    <3>5. (q - m) * Page <= length
      BY <1>1, <1>3, <3>1, <3>4
    <3>6. RoundDown(size) - offset <= RoundDown(length)
      BY <3>1, <3>4, <3>5, RoundDownGreatest
    <3>7. RoundDown(length) \in Int
      BY <3>1, RoundDownBounds
    <3>8. QED BY <1>1, <1>2, <1>3, <3>1, <3>6, <3>7
  <2>3. QED BY <1>3, <2>1, <2>2
<1>9. asked \in Int
  <2>1. length \in Int
    BY <1>3
  <2>2. QED BY <2>1, RoundDownBounds
<1> HIDE DEF offset, asked, c
<1>10. o \in Range(c)
  BY <1>2, <1>3, <1>7, <1>8, <1>9
<1>11. QED BY <1>4, <1>5, <1>10
-----------------------------------------------------------------------------
(* DownloadInv is inductive. *)

\* The call has not been entered yet.
LEMMA DownloadInit == Init => DownloadInv
<1>1. SUFFICES ASSUME Init PROVE DownloadInv
  OBVIOUS
<1>2. TypeOK
  <2>1. size \in Sizes /\ partSize \in PartSizes \cup {ChunkSize}
    BY <1>1 DEF Init
  <2>2. i \in Nat /\ running \subseteq sem /\ sem \subseteq 0..(i - 1)
    BY <1>1 DEF Init
  <2>3. firstErr \in -1..(i - 1)
    BY <1>1 DEF Init
  <2>4. file \subseteq 0..(size - 1) /\ ctxDone \in BOOLEAN
    BY <1>1 DEF Init
  <2>5. QED BY <1>1, <2>1, <2>2, <2>3, <2>4 DEF Init, TypeOK
<1>3. \A c \in 0..(i - 1) : FALSE
  BY <1>1 DEF Init
<1>4. QED BY <1>1, <1>2, <1>3 DEF Init, DownloadInv

\* Rounding the part size and refusing an empty file.
LEMMA BeginKeepsInv == DownloadInv /\ Begin => DownloadInv'
<1>1. SUFFICES ASSUME DownloadInv, Begin PROVE DownloadInv'
  OBVIOUS
<1>2. i = 0 /\ running = {} /\ sem = {} /\ size \in Int /\ partSize \in Int
      /\ outcome = "running"
  BY <1>1, ParallelDownloadAssumption DEF DownloadInv, TypeOK, Begin
<1>3. partSize' \in Nat \ {0} /\ partSize' % Page = 0
      /\ partSize' \in PartSizes \cup {ChunkSize}
  BY <1>1, <1>2, ParallelDownloadAssumption DEF Begin, DownloadInv, TypeOK
<1>4. TypeOK'
  BY <1>1, <1>3 DEF Begin, Return, DownloadInv, TypeOK
<1>5. (size <= 0 /\ main' = "returned" /\ outcome' = "refused")
      \/ (size > 0 /\ main' = "test" /\ outcome' = "running")
  BY <1>1, <1>2 DEF Begin, Return
<1>6. UNCHANGED <<size, i, sem, running, firstErr, file, ctxDone>>
  BY <1>1 DEF Begin
<1>7. \A c \in 0..(i' - 1) : FALSE
  BY <1>2, <1>6
<1>8. QED BY <1>2, <1>3, <1>4, <1>5, <1>6, <1>7 DEF DownloadInv

\* While the file, its size and the part size stay, ranges and counts do.
LEMMA SameRanges ==
  UNCHANGED <<size, partSize>> =>
    TotalChunks' = TotalChunks /\ \A c : Range(c)' = Range(c)
BY DEF TotalChunks, Range, RoundDown

\* The loop goes on to its select, or ends.
LEMMA TestLoopKeepsInv == DownloadInv /\ TestLoop => DownloadInv'
<1>1. SUFFICES ASSUME DownloadInv, TestLoop PROVE DownloadInv'
  OBVIOUS
<1>2. TotalChunks' = TotalChunks /\ \A c : Range(c)' = Range(c)
  BY <1>1, SameRanges DEF TestLoop
<1>3. TotalChunks \in Int /\ i \in Nat
  <2>1. size \in Int /\ partSize \in Nat \ {0}
    BY <1>1, ParallelDownloadAssumption DEF TestLoop, DownloadInv, TypeOK
  <2>2. QED BY <1>1, <2>1, DivBounds DEF TotalChunks, DownloadInv, TypeOK
<1>4. QED BY <1>1, <1>2, <1>3 DEF TestLoop, DownloadInv, TypeOK

\* A new goroutine: its chunk is one of the file.
LEMMA StartChunkKeepsInv == DownloadInv /\ StartChunk => DownloadInv'
<1>1. SUFFICES ASSUME DownloadInv, StartChunk PROVE DownloadInv'
  OBVIOUS
<1>2. TotalChunks' = TotalChunks /\ \A c : Range(c)' = Range(c)
  BY <1>1, SameRanges DEF StartChunk
<1>3. size \in Int /\ partSize \in Nat \ {0} /\ TotalChunks \in Int
  <2>1. size \in Int /\ partSize \in Nat \ {0}
    BY <1>1, ParallelDownloadAssumption DEF StartChunk, DownloadInv, TypeOK
  <2>2. QED BY <2>1, DivBounds DEF TotalChunks
<1>4. TypeOK'
  BY <1>1 DEF StartChunk, DownloadInv, TypeOK
<1>5. QED BY <1>1, <1>2, <1>3, <1>4 DEF StartChunk, DownloadInv, TypeOK

\* Returning, and going on to the remainder, start and write nothing.
LEMMA LeaveKeepsInv ==
  DownloadInv /\ (GiveUp \/ Wait) => DownloadInv'
<1>1. SUFFICES ASSUME DownloadInv, GiveUp \/ Wait PROVE DownloadInv'
  OBVIOUS
<1>2. TotalChunks' = TotalChunks /\ \A c : Range(c)' = Range(c)
  BY <1>1, SameRanges DEF GiveUp, Wait
<1>3. TypeOK'
  BY <1>1 DEF GiveUp, Wait, Return, DownloadInv, TypeOK
<1>4. CASE GiveUp
  BY <1>1, <1>2, <1>3, <1>4 DEF GiveUp, Return, DownloadInv
<1>5. CASE Wait
  BY <1>1, <1>2, <1>3, <1>5 DEF Wait, Return, DownloadInv
<1>6. QED BY <1>1, <1>4, <1>5

\* The remainder lies inside the file.
LEMMA FetchRemainderKeepsInv == DownloadInv /\ FetchRemainder => DownloadInv'
<1>1. SUFFICES ASSUME DownloadInv, FetchRemainder PROVE DownloadInv'
  OBVIOUS
<1>2. TotalChunks' = TotalChunks /\ \A c : Range(c)' = Range(c)
  BY <1>1, SameRanges DEF FetchRemainder
<1>3. size \in Nat \ {0} /\ partSize \in Nat \ {0}
  BY <1>1, ParallelDownloadAssumption DEF FetchRemainder, DownloadInv, TypeOK
<1>4. Remainder \in Nat /\ Remainder <= size
  <2>1. size % partSize \in Nat /\ size % partSize <= size
    BY <1>3, SMT
  <2>2. QED BY <2>1 DEF Remainder
<1>5. RemainderRange \subseteq 0..(size - 1)
  BY <1>3, <1>4, RoundDownBounds DEF RemainderRange
<1>6. TypeOK' /\ file \subseteq file'
  BY <1>1, <1>5 DEF FetchRemainder, Return, DownloadInv, TypeOK
<1>7. QED BY <1>1, <1>2, <1>6 DEF FetchRemainder, Return, DownloadInv

\* A goroutine ends, with its range written or its error noted.
LEMMA ChunkStepKeepsInv == DownloadInv /\ ChunkStep => DownloadInv'
<1>1. SUFFICES ASSUME DownloadInv, NEW c \in running, WriteChunk(c) \/ ChunkFails(c)
               PROVE  DownloadInv'
  BY DEF ChunkStep
<1>2. TotalChunks' = TotalChunks /\ \A k : Range(k)' = Range(k)
  BY <1>1, SameRanges DEF WriteChunk, ChunkFails
<1>3. c \in 0..(i - 1) /\ i \in Nat /\ i > 0
  BY <1>1 DEF DownloadInv, TypeOK
<1>4. main # "entered" /\ outcome # "refused"
  BY <1>1, <1>3 DEF DownloadInv
<1>5. /\ size \in Nat \ {0} /\ partSize \in Nat \ {0} /\ i <= TotalChunks
      /\ TotalChunks \in Int
  <2>1. size \in Nat \ {0} /\ partSize \in Nat \ {0} /\ i <= TotalChunks
    BY <1>1, <1>3, <1>4, ParallelDownloadAssumption DEF DownloadInv, TypeOK
  <2>2. QED BY <2>1, DivBounds DEF TotalChunks
<1>6. Range(c) \subseteq 0..(size - 1)
  BY <1>3, <1>5, RangeInFile
<1>7. CASE WriteChunk(c)
  <2>1. TypeOK'
    BY <1>1, <1>6, <1>7 DEF WriteChunk, DownloadInv, TypeOK
  <2>2. firstErr' = -1 =>
          \A k \in 0..(i' - 1) : k \in running' \/ Range(k)' \subseteq file'
    BY <1>1, <1>2, <1>7 DEF WriteChunk, DownloadInv
  <2>3. QED BY <1>1, <1>2, <1>7, <2>1, <2>2 DEF WriteChunk, DownloadInv
<1>8. CASE ChunkFails(c)
  <2>1. firstErr' # -1 /\ firstErr' \in -1..(i - 1)
    BY <1>1, <1>3, <1>8 DEF ChunkFails, DownloadInv, TypeOK
  <2>2. TypeOK'
    BY <1>1, <1>8, <2>1 DEF ChunkFails, DownloadInv, TypeOK
  <2>3. main # "remainder" /\ outcome # "ok"
    BY <1>1 DEF DownloadInv
  <2>4. QED BY <1>1, <1>2, <1>8, <2>1, <2>2, <2>3 DEF ChunkFails, DownloadInv
<1>9. QED BY <1>1, <1>7, <1>8

\* The end of the context, and steps that change nothing.
LEMMA CancelKeepsInv == DownloadInv /\ (Cancel \/ UNCHANGED vars) => DownloadInv'
<1>1. SUFFICES ASSUME DownloadInv, Cancel \/ UNCHANGED vars PROVE DownloadInv'
  OBVIOUS
<1>2. ctxDone' \in BOOLEAN
      /\ UNCHANGED <<size, partSize, main, outcome, i, sem, running, firstErr, file>>
  BY <1>1 DEF Cancel, vars, DownloadInv, TypeOK
<1>3. TotalChunks' = TotalChunks /\ \A c : Range(c)' = Range(c)
  BY <1>2, SameRanges
<1>4. QED BY <1>1, <1>2, <1>3 DEF DownloadInv, TypeOK

\* Every step keeps the invariant.
LEMMA DownloadStep == DownloadInv /\ [Next]_vars => DownloadInv'
BY BeginKeepsInv, TestLoopKeepsInv, StartChunkKeepsInv, LeaveKeepsInv,
   FetchRemainderKeepsInv, ChunkStepKeepsInv, CancelKeepsInv
DEF Next, CallStep
-----------------------------------------------------------------------------
(* The theorems. *)

\* DownloadInv is an invariant, for any sizes, part sizes and threads.
THEOREM DownloadInvariance == Spec => []DownloadInv
<1>1. QED BY DownloadInit, DownloadStep, PTL DEF Spec

\* Every write stays inside the file, and goroutines belong to chunks begun.
THEOREM DownloadTyped == Spec => []TypeOK
<1>1. DownloadInv => TypeOK
  BY DEF DownloadInv
<1>2. QED BY <1>1, DownloadInvariance, PTL

\* When the call says ok, every page of the file is written.
THEOREM AllPages == Spec => []PagesWritten
<1>1. DownloadInv => PagesWritten
  <2>1. SUFFICES ASSUME DownloadInv, outcome = "ok", NEW o \in 0..(RoundDown(size) - 1)
                 PROVE  o \in file
    BY DEF PagesWritten
  <2>2. main = "returned"
    BY <2>1 DEF DownloadInv
  <2>3. size \in Nat \ {0} /\ partSize \in Nat \ {0} /\ partSize % Page = 0
    BY <2>1, <2>2, ParallelDownloadAssumption DEF DownloadInv, TypeOK
  <2>4. PICK c \in Nat : c < TotalChunks /\ o \in Range(c)
    BY <2>1, <2>3, RangesCoverPages
  <2>5. i \in Nat /\ i >= TotalChunks /\ running = {} /\ firstErr = -1
        /\ TotalChunks \in Int
    <3>1. TotalChunks \in Int
      BY <2>3, DivBounds DEF TotalChunks
    <3>2. QED BY <2>1, <3>1 DEF DownloadInv, TypeOK
  <2>6. c \in 0..(i - 1)
    BY <2>4, <2>5
  <2>7. QED BY <2>1, <2>4, <2>5, <2>6 DEF DownloadInv
<1>2. QED BY <1>1, DownloadInvariance, PTL

\* After the call has said ok or failed the file no longer changes.
THEOREM FileStaysAsReturned == Spec => FileIsFinal
<1> DEFINE Step == (outcome \in {"ok", "failed"}) => UNCHANGED file
<1>1. ASSUME DownloadInv, [Next]_vars, outcome \in {"ok", "failed"}
      PROVE  UNCHANGED file
  <2>1. running = {} /\ main = "returned"
    BY <1>1 DEF DownloadInv
  <2>2. QED
    BY <1>1, <2>1
    DEF Next, CallStep, ChunkStep, Begin, TestLoop, StartChunk, GiveUp, Wait,
        FetchRemainder, Cancel, vars
<1>2. DownloadInv /\ [Next]_vars => Step
  BY <1>1
<1>3. QED BY <1>2, DownloadInvariance, PTL DEF Spec, FileIsFinal

=============================================================================
