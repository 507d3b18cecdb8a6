--------------------------- MODULE InOrderStream ---------------------------
(***************************************************************************)
(* What rawPipelinedStream promises its caller: the chunks of the file go  *)
(* to the writer once each, in order, with no gap; the call says ok when   *)
(* and only when the last one is written; it says cancelled only if the    *)
(* caller gave up.                                                         *)
(***************************************************************************)
EXTENDS Integers, Sequences

CONSTANT Chunks    \* how many chunks the file has

VARIABLES sent,    \* the chunks written, in the order of writing
          verdict, \* running, ok, failed, writeFailed or cancelled
          givenUp  \* the caller's context is done

streamVars == <<sent, verdict, givenUp>>

StreamInit == sent = <<>> /\ verdict = "running" /\ givenUp = FALSE

WriteChunk ==
  /\ verdict = "running" /\ Len(sent) < Chunks
  /\ sent' = Append(sent, Len(sent))
  /\ verdict' = IF Len(sent') = Chunks THEN "ok" ELSE "running"
  /\ UNCHANGED givenUp

Fail ==
  /\ verdict = "running"
  /\ verdict' \in {"failed", "writeFailed"} \cup (IF givenUp THEN {"cancelled"} ELSE {})
  /\ UNCHANGED <<sent, givenUp>>

GiveUp == givenUp' = TRUE /\ UNCHANGED <<sent, verdict>>

StreamNext == WriteChunk \/ Fail \/ GiveUp

StreamSpec == StreamInit /\ [][StreamNext]_streamVars

=============================================================================
