-------------------------- MODULE ParallelDownload --------------------------
(***************************************************************************)
(* rawParallelDownload (raw_download.go): the caller's goroutine starts    *)
(* one goroutine per chunk, at most Threads at a time, which fetches its   *)
(* range and writes it to its place in the file; then it waits for them    *)
(* and fetches a remainder.  Telegram serves ranges of whole pages.        *)
(***************************************************************************)
EXTENDS Integers, FiniteSets

CONSTANTS Sizes,     \* the sizes of files
          PartSizes, \* the values of part_size
          ChunkSize, \* rawChunkSize
          Page,      \* 4096
          Threads    \* download_threads

ASSUME ParallelDownloadAssumption ==
  /\ Sizes \subseteq Int /\ PartSizes \subseteq Int
  /\ Page \in Nat \ {0} /\ Threads \in Nat \ {0}
  /\ ChunkSize \in Nat \ {0} /\ ChunkSize % Page = 0

VARIABLES
  size, partSize,
  main,     \* where the call is: entered, at the loop's test, at its select,
            \* in wg.Wait, at the remainder, returned
  outcome,  \* what it returned
  i,        \* the loop's chunk
  sem,      \* the chunks whose goroutines hold a place of sem
  running,  \* the chunks whose goroutines wg.Wait waits for
  firstErr, \* the chunk whose error is in firstErr, -1 if there is none
  file,     \* the offsets written to the file
  ctxDone

vars == <<size, partSize, main, outcome, i, sem, running, firstErr, file, ctxDone>>

Init ==
  /\ size \in Sizes /\ partSize \in PartSizes
  /\ main = "entered" /\ outcome = "running"
  /\ i = 0 /\ sem = {} /\ running = {} /\ firstErr = -1
  /\ file = {}
  /\ ctxDone = FALSE
-----------------------------------------------------------------------------
(* The ranges. *)

RoundDown(n) == (n \div Page) * Page

TotalChunksFloor == size \div partSize
TotalChunks == (size + partSize - 1) \div partSize

\* What the goroutine of chunk c asks for: its part of the file, in whole
\* pages if it has one.
Range(c) ==
  LET offset == c * partSize
      length == IF offset + partSize > size THEN size - offset ELSE partSize
      asked  == IF RoundDown(length) > 0 THEN RoundDown(length) ELSE length
  IN  offset..(offset + asked - 1)

Remainder == size % partSize

RemainderRange == LET offset == size - Remainder
                  IN  offset..(offset + RoundDown(Remainder) - 1)
-----------------------------------------------------------------------------
(* The caller's goroutine. *)

Return(r) == main' = "returned" /\ outcome' = r

Begin ==
  /\ main = "entered"
  /\ partSize' = IF partSize <= 0 \/ partSize % Page # 0 THEN ChunkSize ELSE partSize
  /\ IF size <= 0 THEN Return("refused") ELSE main' = "test" /\ UNCHANGED outcome
  /\ UNCHANGED <<size, i, sem, running, firstErr, file, ctxDone>>

\* The loop's condition, and the test of firstErr.
TestLoop ==
  /\ main = "test"
  /\ main' = IF i < TotalChunks /\ firstErr = -1 THEN "select" ELSE "wait"
  /\ UNCHANGED <<size, partSize, outcome, i, sem, running, firstErr, file, ctxDone>>

\* A place of sem is free: the goroutine of the next chunk starts.
StartChunk ==
  /\ main = "select" /\ Cardinality(sem) < Threads
  /\ sem' = sem \cup {i} /\ running' = running \cup {i}
  /\ i' = i + 1 /\ main' = "test"
  /\ UNCHANGED <<size, partSize, outcome, firstErr, file, ctxDone>>

\* The context is done: the call returns and leaves its goroutines behind.
GiveUp ==
  /\ main = "select" /\ ctxDone
  /\ Return("cancelled")
  /\ UNCHANGED <<size, partSize, i, sem, running, firstErr, file, ctxDone>>

\* wg.Wait returns, then the error if there is one, else the remainder if it
\* has a whole page.
WaitForNone ==
  /\ main = "wait"
  /\ IF firstErr # -1 THEN Return("failed")
     ELSE IF Remainder % Page # 0 /\ RoundDown(Remainder) > 0
       THEN main' = "remainder" /\ UNCHANGED outcome
       ELSE Return("ok")
  /\ UNCHANGED <<size, partSize, i, sem, running, firstErr, file, ctxDone>>
Wait ==
  /\ main = "wait" /\ running = {}
  /\ IF firstErr # -1 THEN Return("failed")
     ELSE IF Remainder % Page # 0 /\ RoundDown(Remainder) > 0
       THEN main' = "remainder" /\ UNCHANGED outcome
       ELSE Return("ok")
  /\ UNCHANGED <<size, partSize, i, sem, running, firstErr, file, ctxDone>>

FetchRemainder ==
  /\ main = "remainder"
  /\ \/ Return("ok") /\ file' = file \cup RemainderRange
     \/ Return("failed") /\ UNCHANGED file
  /\ UNCHANGED <<size, partSize, i, sem, running, firstErr, ctxDone>>
-----------------------------------------------------------------------------
(* The goroutine of chunk c: downloadChunkWithRetry, whose fetch ends after
   any number of FLOOD_WAITs, and which fails also when executeMirrorParallel
   has closed the file. *)

WriteChunk(c) ==
  /\ c \in running
  /\ file' = file \cup Range(c)
  /\ sem' = sem \ {c} /\ running' = running \ {c}
  /\ UNCHANGED <<size, partSize, main, outcome, i, firstErr, ctxDone>>

ChunkFailsUndone(c) ==
  /\ c \in running
  /\ firstErr' = IF firstErr = -1 THEN c ELSE firstErr
  /\ sem' = sem \ {c}
  /\ UNCHANGED <<size, partSize, main, outcome, i, running, file, ctxDone>>
ChunkFailsHolding(c) ==
  /\ c \in running
  /\ firstErr' = IF firstErr = -1 THEN c ELSE firstErr
  /\ running' = running \ {c}
  /\ UNCHANGED <<size, partSize, main, outcome, i, sem, file, ctxDone>>
ChunkFails(c) ==
  /\ c \in running
  /\ firstErr' = IF firstErr = -1 THEN c ELSE firstErr
  /\ sem' = sem \ {c} /\ running' = running \ {c}
  /\ UNCHANGED <<size, partSize, main, outcome, i, file, ctxDone>>

\* CancelJob, or the cancel of executeMirrorParallel after the call.
Cancel ==
  /\ ~ ctxDone /\ ctxDone' = TRUE
  /\ UNCHANGED <<size, partSize, main, outcome, i, sem, running, firstErr, file>>
-----------------------------------------------------------------------------
CallStep == Begin \/ TestLoop \/ StartChunk \/ GiveUp \/ Wait \/ FetchRemainder

ChunkStep == \E c \in running : WriteChunk(c) \/ ChunkFails(c)

Next == CallStep \/ ChunkStep \/ Cancel

Spec == Init /\ [][Next]_vars

\* The goroutines go on, and every request is answered or fails.
FairSpec == Spec /\ WF_vars(CallStep) /\ WF_vars(ChunkStep)
-----------------------------------------------------------------------------
TypeOK ==
  /\ size \in Sizes /\ partSize \in PartSizes \cup {ChunkSize}
  /\ main \in {"entered", "test", "select", "wait", "remainder", "returned"}
  /\ outcome \in {"running", "refused", "ok", "failed", "cancelled"}
  /\ i \in Nat
  /\ running \subseteq sem /\ sem \subseteq 0..(i - 1)
  /\ firstErr \in -1..(i - 1)
  /\ file \subseteq 0..(size - 1)
  /\ ctxDone \in BOOLEAN

\* What the proofs need beside TypeOK: the loop leaves no chunk out unless one
\* failed, nothing runs once wg.Wait has returned, and without an error every
\* chunk the loop has passed is running or in the file.
DownloadInv ==
  /\ TypeOK
  /\ main = "returned" <=> outcome # "running"
  /\ main # "entered" => partSize > 0 /\ partSize % Page = 0
  /\ main # "entered" /\ outcome # "refused" => size > 0
  /\ main = "entered" \/ outcome = "refused" => i = 0
  /\ i > 0 => i <= TotalChunks
  /\ main = "select" => i < TotalChunks
  /\ main \in {"wait", "remainder"} \/ outcome = "ok" =>
       i >= TotalChunks \/ firstErr # -1
  /\ main = "remainder" \/ outcome = "ok" => firstErr = -1
  /\ main = "remainder" \/ outcome \in {"ok", "failed"} => running = {}
  /\ firstErr = -1 => \A c \in 0..(i - 1) : c \in running \/ Range(c) \subseteq file

\* A call that returns ok has written every page of the file, in whatever order
\* its goroutines finished: what may be missing is less than a page at the end.
PagesWritten ==
  outcome = "ok" => 0..(RoundDown(size) - 1) \subseteq file

\* "Handle remainder bytes (when file size not a multiple of partSize)": a call
\* that returns ok has written the whole file.
WholeFile == outcome = "ok" => file = 0..(size - 1)

\* The upload reads a file that no longer changes: only a call that returned
\* because of its context leaves goroutines behind.
FileIsFinal ==
  [][(outcome \in {"ok", "failed"}) => UNCHANGED file]_vars

\* The call returns, whichever requests fail.
Returns == <>(main = "returned")

=============================================================================
