-------------------------- MODULE PipelinedStream --------------------------
(***************************************************************************)
(* rawPipelinedStream (raw_download.go): a dispatcher hands chunk numbers  *)
(* to the workers through a channel; the workers fetch the chunks and put  *)
(* them in any order into a second channel; the caller's goroutine, the    *)
(* consumer, writes them in order.  A window of permits bounds the chunks  *)
(* between the dispatcher and the writer.  ctx is done once the caller     *)
(* gives up or the consumer has returned (the deferred cancel).            *)
(***************************************************************************)
EXTENDS Integers, Sequences, FiniteSets, SequencesExt

CONSTANTS Chunks,  \* totalChunks
          Threads  \* threads

ASSUME PipelinedStreamAssumption ==
  Chunks \in Nat \ {0} /\ Threads \in Nat \ {0}

Chunk  == 0..(Chunks - 1)
Thread == 1..Threads
Window == IF 2 * Threads < 4 THEN 4 ELSE 2 * Threads

VARIABLES
  issued,     \* the dispatcher's i: the chunks sent to the workers so far
  dispatcher, \* which select it is at, acquire or send; closed: it returned
  permits,    \* the length of windowSem
  dispatch,   \* the channel dispatch
  at,         \* where each worker is
  chunk,      \* the chunk it works on
  results,    \* the channel results
  closed,     \* results is closed
  buffered,   \* the keys of buffered
  nextIdx,
  consumer,   \* at its receive, in the write loop, or returned
  outcome,    \* what the call returned
  written,    \* the chunks w has got, in order
  callerDone  \* the caller's context is done

dispatcherVars == <<issued, dispatcher>>
workerVars == <<at, chunk>>
consumerVars == <<buffered, nextIdx, consumer, outcome, written>>
vars == <<dispatcherVars, permits, dispatch, workerVars, results, closed,
          consumerVars, callerDone>>

Done == callerDone \/ consumer = "returned"

Init ==
  /\ issued = 0 /\ dispatcher = "acquire" /\ permits = 0
  /\ dispatch = <<>>
  /\ at = [t \in Thread |-> "idle"] /\ chunk = [t \in Thread |-> 0]
  /\ results = <<>> /\ closed = FALSE
  /\ buffered = {} /\ nextIdx = 0
  /\ consumer = "receive" /\ outcome = "running" /\ written = <<>>
  /\ callerDone = FALSE
-----------------------------------------------------------------------------
(* The dispatcher.  A select takes any case that is ready.                 *)

AcquireOneMore ==
  /\ dispatcher = "acquire" /\ issued < Chunks
  /\ permits <= Window
  /\ permits' = permits + 1 /\ dispatcher' = "send"
  /\ UNCHANGED <<issued, dispatch, workerVars, results, closed, consumerVars,
                 callerDone>>
Acquire ==
  /\ dispatcher = "acquire" /\ issued < Chunks
  /\ permits < Window
  /\ permits' = permits + 1 /\ dispatcher' = "send"
  /\ UNCHANGED <<issued, dispatch, workerVars, results, closed, consumerVars,
                 callerDone>>

Send ==
  /\ dispatcher = "send" /\ Len(dispatch) < Threads
  /\ dispatch' = Append(dispatch, issued)
  /\ issued' = issued + 1 /\ dispatcher' = "acquire"
  /\ UNCHANGED <<permits, workerVars, results, closed, consumerVars, callerDone>>

\* The loop ends, or ctx.Done is ready at one of the selects; dispatch closes.
CloseAfterLast ==
  /\ dispatcher = "acquire" /\ issued = Chunks
  /\ dispatcher' = "closed"
  /\ UNCHANGED <<issued, permits, dispatch, workerVars, results, closed,
                 consumerVars, callerDone>>
CloseDispatch ==
  /\ \/ dispatcher = "acquire" /\ issued = Chunks
     \/ dispatcher \in {"acquire", "send"} /\ Done
  /\ dispatcher' = "closed"
  /\ UNCHANGED <<issued, permits, dispatch, workerVars, results, closed,
                 consumerVars, callerDone>>
-----------------------------------------------------------------------------
(* Worker t. *)

Take(t) ==
  /\ at[t] = "idle" /\ dispatch # <<>>
  /\ dispatch' = Tail(dispatch)
  /\ chunk' = [chunk EXCEPT ![t] = Head(dispatch)]
  /\ at' = [at EXCEPT ![t] = "fetching"]
  /\ UNCHANGED <<dispatcherVars, permits, results, closed, consumerVars, callerDone>>

\* The end of range dispatch.
Exit(t) ==
  /\ at[t] = "idle" /\ dispatch = <<>> /\ dispatcher = "closed"
  /\ at' = [at EXCEPT ![t] = "exited"]
  /\ UNCHANGED <<dispatcherVars, permits, dispatch, chunk, results, closed,
                 consumerVars, callerDone>>

\* fetchChunkWithRetry returns, after any number of FLOOD_WAITs.
Fetch(t) ==
  /\ at[t] = "fetching"
  /\ \E to \in {"fetched", "failed"} : at' = [at EXCEPT ![t] = to]
  /\ UNCHANGED <<dispatcherVars, permits, dispatch, chunk, results, closed,
                 consumerVars, callerDone>>

Deliver(t) ==
  /\ at[t] \in {"fetched", "failed"} /\ Len(results) < Window
  /\ results' = Append(results, [idx |-> chunk[t], err |-> at[t] = "failed"])
  /\ at' = [at EXCEPT ![t] = "idle"]
  /\ UNCHANGED <<dispatcherVars, permits, dispatch, chunk, closed, consumerVars,
                 callerDone>>

Abandon(t) ==
  /\ at[t] \in {"fetched", "failed"} /\ Done
  /\ at' = [at EXCEPT ![t] = "exited"]
  /\ UNCHANGED <<dispatcherVars, permits, dispatch, chunk, results, closed,
                 consumerVars, callerDone>>

\* wg.Wait has returned.
CloseResults ==
  /\ ~ closed /\ \A t \in Thread : at[t] = "exited"
  /\ closed' = TRUE
  /\ UNCHANGED <<dispatcherVars, permits, dispatch, workerVars, results,
                 consumerVars, callerDone>>
-----------------------------------------------------------------------------
(* The consumer. *)

Receive ==
  /\ consumer = "receive" /\ results # <<>>
  /\ results' = Tail(results)
  /\ IF Head(results).err
       THEN consumer' = "returned" /\ outcome' = "failed" /\ UNCHANGED buffered
       ELSE /\ consumer' = "write"
            /\ buffered' = buffered \cup {Head(results).idx}
            /\ UNCHANGED outcome
  /\ UNCHANGED <<dispatcherVars, permits, dispatch, workerVars, closed, nextIdx,
                 written, callerDone>>

\* w.Write succeeds; <-windowSem gives a permit back.
WriteKeepingPermit ==
  /\ consumer = "write" /\ nextIdx \in buffered
  /\ permits > 0
  /\ written' = Append(written, nextIdx)
  /\ buffered' = buffered \ {nextIdx}
  /\ nextIdx' = nextIdx + 1
  /\ IF nextIdx' = Chunks THEN consumer' = "returned" /\ outcome' = "ok"
                          ELSE UNCHANGED <<consumer, outcome>>
  /\ UNCHANGED <<dispatcherVars, permits, dispatch, workerVars, results, closed,
                 callerDone>>
WriteOnArrival ==
  /\ consumer = "write" /\ buffered # {}
  /\ permits > 0 /\ permits' = permits - 1
  /\ \E c \in buffered : written' = Append(written, c) /\ buffered' = buffered \ {c}
  /\ nextIdx' = nextIdx + 1
  /\ IF nextIdx' = Chunks THEN consumer' = "returned" /\ outcome' = "ok"
                          ELSE UNCHANGED <<consumer, outcome>>
  /\ UNCHANGED <<dispatcherVars, dispatch, workerVars, results, closed, callerDone>>
Write ==
  /\ consumer = "write" /\ nextIdx \in buffered
  /\ permits > 0 /\ permits' = permits - 1
  /\ written' = Append(written, nextIdx)
  /\ buffered' = buffered \ {nextIdx}
  /\ nextIdx' = nextIdx + 1
  /\ IF nextIdx' = Chunks THEN consumer' = "returned" /\ outcome' = "ok"
                          ELSE UNCHANGED <<consumer, outcome>>
  /\ UNCHANGED <<dispatcherVars, dispatch, workerVars, results, closed, callerDone>>

WriteFails ==
  /\ consumer = "write" /\ nextIdx \in buffered
  /\ buffered' = buffered \ {nextIdx}
  /\ consumer' = "returned" /\ outcome' = "writeFailed"
  /\ UNCHANGED <<dispatcherVars, permits, dispatch, workerVars, results, closed,
                 nextIdx, written, callerDone>>

\* The next chunk is not there yet.
AwaitMore ==
  /\ consumer = "write" /\ nextIdx \notin buffered
  /\ consumer' = "receive"
  /\ UNCHANGED <<dispatcherVars, permits, dispatch, workerVars, results, closed,
                 buffered, nextIdx, outcome, written, callerDone>>

\* The end of range results.
ResultsEnd ==
  /\ consumer = "receive" /\ results = <<>> /\ closed
  /\ consumer' = "returned"
  /\ outcome' = IF Done THEN "cancelled" ELSE IF nextIdx < Chunks THEN "early" ELSE "ok"
  /\ UNCHANGED <<dispatcherVars, permits, dispatch, workerVars, results, closed,
                 buffered, nextIdx, written, callerDone>>

CallerCancels ==
  /\ ~ callerDone
  /\ callerDone' = TRUE
  /\ UNCHANGED <<dispatcherVars, permits, dispatch, workerVars, results, closed,
                 consumerVars>>
-----------------------------------------------------------------------------
DispatcherStep == Acquire \/ Send \/ CloseDispatch
WorkerStep(t) == Take(t) \/ Exit(t) \/ Fetch(t) \/ Deliver(t) \/ Abandon(t)
ConsumerStep == Receive \/ Write \/ WriteFails \/ AwaitMore \/ ResultsEnd

Next ==
  \/ DispatcherStep
  \/ \E t \in Thread : WorkerStep(t)
  \/ CloseResults
  \/ ConsumerStep
  \/ CallerCancels

Spec == Init /\ [][Next]_vars

\* Each goroutine goes on while it can: fetches return (their retries are
\* bounded) and so do the writes to w.
FairSpec ==
  /\ Spec
  /\ WF_vars(DispatcherStep)
  /\ \A t \in Thread : WF_vars(WorkerStep(t))
  /\ WF_vars(CloseResults)
  /\ WF_vars(ConsumerStep)
-----------------------------------------------------------------------------
TypeOK ==
  /\ issued \in 0..Chunks /\ dispatcher \in {"acquire", "send", "closed"}
  /\ permits \in 0..Window
  /\ dispatch \in Seq(Chunk) /\ Len(dispatch) <= Threads
  /\ at \in [Thread -> {"idle", "fetching", "fetched", "failed", "exited"}]
  /\ chunk \in [Thread -> Chunk]
  /\ results \in Seq([idx : Chunk, err : BOOLEAN]) /\ Len(results) <= Window
  /\ closed \in BOOLEAN /\ callerDone \in BOOLEAN
  /\ buffered \subseteq Chunk /\ nextIdx \in 0..Chunks
  /\ consumer \in {"receive", "write", "returned"}
  /\ outcome \in {"running", "ok", "failed", "writeFailed", "cancelled", "early"}
  /\ written \in Seq(Chunk)

Busy(t) == at[t] \in {"fetching", "fetched", "failed"}

\* In how many places chunk c is between the dispatcher and the writer.
Places(c) ==
  Cardinality({i \in DOMAIN dispatch : dispatch[i] = c}) +
  Cardinality({t \in Thread : Busy(t) /\ chunk[t] = c}) +
  Cardinality({i \in DOMAIN results : results[i].idx = c}) +
  Cardinality(buffered \cap {c})

\* No chunk is fetched twice or lost: until ctx is done, a chunk that was
\* issued and not written yet is in exactly one place.
OnePlacePerChunk ==
  \A c \in Chunk :
    /\ Places(c) <= 1
    /\ ~ Done => (Places(c) = 1 <=> nextIdx <= c /\ c < issued)

\* "buffering up to windowSize chunks in memory": at most Window chunks are
\* between the dispatcher and the writer, each in one place, so no worker ever
\* waits to deliver.
WindowBoundsMemory ==
  /\ TypeOK /\ OnePlacePerChunk
  /\ Cardinality({t \in Thread : Busy(t)}) + Len(dispatch) + Len(results)
       + Cardinality(buffered) <= Window
  /\ \A t \in Thread : Busy(t) => Len(results) < Window

\* The call returns, whatever fails.
Returns == <>(consumer = "returned")

\* After the call returned none of its goroutines stays.
NoGoroutineStays ==
  <>(dispatcher = "closed" /\ closed /\ \A t \in Thread : at[t] = "exited")

Stream == INSTANCE InOrderStream WITH
  sent <- written, verdict <- outcome, givenUp <- callerDone

\* The pipeline is an in-order stream.  In particular "stream terminated
\* early" is never returned.
ImplementsStream == Stream!StreamSpec

=============================================================================
