----------------------- MODULE PipelinedStreamProofs -----------------------
(***************************************************************************)
(* Where the chunks of PipelinedStream are, how many permits they hold, and *)
(* that the call keeps what InOrderStream promises, for any number of      *)
(* chunks and threads.                                                     *)
(***************************************************************************)
EXTENDS PipelinedStream, TLAPS, FiniteSetTheorems, SequenceTheorems

Result == [idx : Chunk, err : BOOLEAN]

\* The chunks that a channel s holds; f tells which chunk an element is.
Keys(s, f)   == {f[s[i]] : i \in DOMAIN s}
Single(s, f) == \A i, k \in DOMAIN s : f[s[i]] = f[s[k]] => i = k

OfDispatch == [c \in Chunk |-> c]
OfResults  == [r \in Result |-> r.idx]

\* The chunks in each place.
Queued   == Keys(dispatch, OfDispatch)
BusyOnes == {t \in Thread : Busy(t)}
InWork   == {chunk[t] : t \in BusyOnes}
Arrived  == Keys(results, OfResults)

\* No place holds a chunk twice.
SingleInv ==
  /\ Single(dispatch, OfDispatch) /\ Single(results, OfResults)
  /\ \A t, u \in BusyOnes : chunk[t] = chunk[u] => t = u

\* No two places hold the same chunk.
ApartInv ==
  /\ Queued \cap InWork = {} /\ Queued \cap Arrived = {}
  /\ Queued \cap buffered = {} /\ InWork \cap Arrived = {}
  /\ InWork \cap buffered = {} /\ Arrived \cap buffered = {}

\* The places hold issued chunks that are not written, all of them until ctx is
\* done.
Held == Queued \cup InWork \cup Arrived \cup buffered
HeldInv ==
  /\ nextIdx <= issued
  /\ Held \subseteq nextIdx..(issued - 1)
  /\ ~Done => nextIdx..(issued - 1) \subseteq Held

\* Each chunk in a place has a permit, and so has the one being sent.
InFlight ==
  Cardinality(BusyOnes) + Len(dispatch) + Len(results) + Cardinality(buffered)
PermitInv ==
  /\ InFlight + (IF dispatcher = "send" THEN 1 ELSE 0) <= permits
  /\ dispatcher = "send" => issued < Chunks

\* What is written is 0, 1, 2 ... without a gap; the call returns with the last.
WrittenInv ==
  /\ nextIdx = Len(written)
  /\ outcome = "running" <=> consumer # "returned"
  /\ nextIdx = Chunks => consumer = "returned"
  /\ consumer = "receive" => nextIdx \notin buffered

\* Nobody ends before the work does, unless ctx is done.
EndInv ==
  /\ ~Done /\ dispatcher = "closed" => issued = Chunks
  /\ \A t \in Thread : at[t] = "exited" /\ ~Done =>
       dispatcher = "closed" /\ dispatch = <<>>
  /\ closed => \A t \in Thread : at[t] = "exited"

StreamInv ==
  TypeOK /\ SingleInv /\ ApartInv /\ HeldInv /\ PermitInv /\ WrittenInv /\ EndInv
-----------------------------------------------------------------------------
(* Channels. *)

\* A send adds one element.
LEMMA SendAdds ==
  ASSUME NEW S, NEW f \in [S -> Chunk], NEW s \in Seq(S), NEW x \in S,
         Single(s, f), f[x] \notin Keys(s, f)
  PROVE  /\ Append(s, x) \in Seq(S) /\ Len(Append(s, x)) = Len(s) + 1
         /\ Len(s) \in Nat
         /\ Single(Append(s, x), f)
         /\ Keys(Append(s, x), f) = Keys(s, f) \cup {f[x]}
<1> DEFINE t == Append(s, x)
<1>1. /\ t \in Seq(S) /\ Len(t) = Len(s) + 1 /\ t[Len(s) + 1] = x
      /\ \A i \in 1..Len(s) : t[i] = s[i]
  BY AppendProperties
<1>2. Len(s) \in Nat /\ DOMAIN s = 1..Len(s) /\ DOMAIN t = 1..(Len(s) + 1)
  BY <1>1, LenProperties
<1> HIDE DEF t
<1>3. \A i \in DOMAIN t : (i \in DOMAIN s /\ t[i] = s[i]) \/ (i = Len(s) + 1 /\ t[i] = x)
  BY <1>1, <1>2
<1>4. \A i \in DOMAIN s : f[s[i]] # f[x] /\ i \in DOMAIN t /\ t[i] = s[i]
  BY <1>1, <1>2 DEF Keys
<1>5. Single(t, f)
  BY <1>3, <1>4 DEF Single
<1>6. Keys(t, f) = Keys(s, f) \cup {f[x]}
  <2>1. Len(s) + 1 \in DOMAIN t
    BY <1>2
  <2> QED BY <1>1, <1>3, <1>4, <2>1 DEF Keys
<1> QED BY <1>1, <1>2, <1>5, <1>6 DEF t

\* A receive takes the first element and no other.
LEMMA ReceiveTakes ==
  ASSUME NEW S, NEW f \in [S -> Chunk], NEW s \in Seq(S), s # <<>>, Single(s, f)
  PROVE  /\ Head(s) \in S /\ f[Head(s)] \in Keys(s, f)
         /\ Tail(s) \in Seq(S) /\ Len(Tail(s)) = Len(s) - 1 /\ Len(s) \in Nat \ {0}
         /\ Single(Tail(s), f)
         /\ Keys(Tail(s), f) = Keys(s, f) \ {f[Head(s)]}
<1>1. /\ Head(s) = s[1] /\ Head(s) \in S
      /\ Tail(s) \in Seq(S) /\ Len(Tail(s)) = Len(s) - 1
      /\ \A i \in 1..Len(Tail(s)) : Tail(s)[i] = s[i + 1]
  BY HeadTailProperties
<1>2. Len(s) \in Nat \ {0} /\ DOMAIN s = 1..Len(s)
  BY EmptySeq, LenProperties
<1>3. DOMAIN Tail(s) = 1..(Len(s) - 1)
  BY <1>1, LenProperties
<1>4. \A i \in DOMAIN Tail(s) : i + 1 \in DOMAIN s /\ Tail(s)[i] = s[i + 1] /\ i + 1 # 1
  BY <1>1, <1>2, <1>3
<1>5. \A i \in DOMAIN s : i = 1 \/ (i - 1 \in DOMAIN Tail(s) /\ s[i] = Tail(s)[i - 1])
  BY <1>1, <1>2, <1>3
<1>6. 1 \in DOMAIN s
  BY <1>2
<1>7. Single(Tail(s), f)
  BY <1>2, <1>3, <1>4 DEF Single
<1>8. Keys(Tail(s), f) = Keys(s, f) \ {f[Head(s)]}
  <2>1. ASSUME NEW c \in Keys(Tail(s), f) PROVE c \in Keys(s, f) \ {f[Head(s)]}
    BY <1>1, <1>4, <1>6 DEF Keys, Single
  <2>2. ASSUME NEW c \in Keys(s, f), c # f[Head(s)] PROVE c \in Keys(Tail(s), f)
    <3>1. PICK i \in DOMAIN s : c = f[s[i]]
      BY DEF Keys
    <3>2. i # 1
      BY <1>1, <2>2, <3>1
    <3>3. i - 1 \in DOMAIN Tail(s) /\ f[Tail(s)[i - 1]] = c
      BY <1>5, <3>1, <3>2
    <3> QED BY <3>3 DEF Keys
  <2> QED BY <2>1, <2>2
<1> QED BY <1>1, <1>2, <1>6, <1>7, <1>8 DEF Keys

\* Chunks, and nothing else, are in the places; an empty channel holds none.
LEMMA ChannelKeys ==
  ASSUME TypeOK
  PROVE  /\ OfDispatch \in [Chunk -> Chunk] /\ OfResults \in [Result -> Chunk]
         /\ dispatch \in Seq(Chunk) /\ results \in Seq(Result)
         /\ dispatch = <<>> => Queued = {}
         /\ results = <<>> => Arrived = {}
         /\ Queued \subseteq Chunk /\ Arrived \subseteq Chunk /\ InWork \subseteq Chunk
<1>1. OfDispatch \in [Chunk -> Chunk] /\ OfResults \in [Result -> Chunk]
  BY DEF OfDispatch, OfResults, Result
<1>2. dispatch \in Seq(Chunk) /\ results \in Seq(Result)
  BY DEF TypeOK, Result
<1>3. /\ \A i \in DOMAIN dispatch : dispatch[i] \in Chunk
      /\ \A i \in DOMAIN results : results[i] \in Result
  BY <1>2, ElementOfSeq, LenProperties
<1>4. Queued \subseteq Chunk /\ Arrived \subseteq Chunk
  BY <1>1, <1>3 DEF Queued, Arrived, Keys
<1>5. /\ dispatch = <<>> => DOMAIN dispatch = {}
      /\ results = <<>> => DOMAIN results = {}
  BY EmptySeq
<1>6. (dispatch = <<>> => Queued = {}) /\ (results = <<>> => Arrived = {})
  BY <1>5 DEF Queued, Arrived, Keys
<1>7. InWork \subseteq Chunk
  BY DEF InWork, BusyOnes, TypeOK
<1> QED BY <1>1, <1>2, <1>4, <1>6, <1>7

\* The counts are numbers.
LEMMA CountTypes ==
  ASSUME TypeOK
  PROVE  /\ Cardinality(BusyOnes) \in Nat /\ Cardinality(buffered) \in Nat
         /\ Len(dispatch) \in Nat /\ Len(results) \in Nat
         /\ Window \in Nat /\ InFlight \in Nat
         /\ IsFiniteSet(BusyOnes) /\ IsFiniteSet(buffered)
<1>1. IsFiniteSet(Thread) /\ IsFiniteSet(Chunk)
  BY PipelinedStreamAssumption, FS_Interval DEF Thread, Chunk
<1>2. IsFiniteSet(BusyOnes) /\ IsFiniteSet(buffered)
  BY <1>1, FS_Subset DEF BusyOnes, TypeOK
<1>3. Len(dispatch) \in Nat /\ Len(results) \in Nat
  BY LenProperties DEF TypeOK
<1>4. Window \in Nat
  BY PipelinedStreamAssumption DEF Window
<1>5. Cardinality(BusyOnes) \in Nat /\ Cardinality(buffered) \in Nat
  BY <1>2, FS_CardinalityType
<1>6. InFlight \in Nat
  BY <1>3, <1>5 DEF InFlight
<1> QED BY <1>2, <1>3, <1>4, <1>5, <1>6

\* A worker begins or ends with a chunk.
LEMMA CountBusy ==
  ASSUME TypeOK, NEW t \in Thread
  PROVE  /\ t \notin BusyOnes => Cardinality(BusyOnes \cup {t}) = Cardinality(BusyOnes) + 1
         /\ t \in BusyOnes => /\ Cardinality(BusyOnes \ {t}) = Cardinality(BusyOnes) - 1
                              /\ Cardinality(BusyOnes) > 0
<1>1. IsFiniteSet(BusyOnes) /\ Cardinality(BusyOnes) \in Nat
  BY CountTypes
<1>2. t \in BusyOnes => Cardinality(BusyOnes) # 0
  BY <1>1, FS_EmptySet
<1>3. /\ t \notin BusyOnes => Cardinality(BusyOnes \cup {t}) = Cardinality(BusyOnes) + 1
      /\ t \in BusyOnes => Cardinality(BusyOnes \ {t}) = Cardinality(BusyOnes) - 1
  BY <1>1, FS_AddElement, FS_RemoveElement
<1> QED BY <1>1, <1>2, <1>3

\* A chunk is buffered or taken out.
LEMMA CountBuffered ==
  ASSUME TypeOK, NEW c \in Chunk
  PROVE  /\ c \notin buffered => Cardinality(buffered \cup {c}) = Cardinality(buffered) + 1
         /\ c \in buffered => Cardinality(buffered \ {c}) = Cardinality(buffered) - 1
BY CountTypes, FS_AddElement, FS_RemoveElement
-----------------------------------------------------------------------------
(* The steps. *)

\* Nothing is in flight at first.
LEMMA InitInv == Init => StreamInv
<1> SUFFICES ASSUME Init PROVE StreamInv
  OBVIOUS
<1>1. /\ dispatch \in Seq(Chunk) /\ results \in Seq(Result) /\ written \in Seq(Chunk)
      /\ Len(dispatch) = 0 /\ Len(results) = 0 /\ Len(written) = 0
      /\ DOMAIN dispatch = {} /\ DOMAIN results = {}
  BY EmptySeq DEF Init
<1>2. 0 \in Chunk /\ Window \in Nat
  BY PipelinedStreamAssumption DEF Chunk, Window
<1>3. BusyOnes = {} /\ Queued = {} /\ InWork = {} /\ Arrived = {} /\ buffered = {}
  BY <1>1 DEF Init, BusyOnes, Busy, Queued, InWork, Arrived, Keys
<1>4. TypeOK
  <2>1. /\ at \in [Thread -> {"idle", "fetching", "fetched", "failed", "exited"}]
        /\ chunk \in [Thread -> Chunk]
    BY <1>2 DEF Init
  <2>2. Len(dispatch) <= Threads /\ Len(results) <= Window
    BY <1>1, <1>2, PipelinedStreamAssumption
  <2>3. issued \in 0..Chunks /\ nextIdx \in 0..Chunks /\ permits \in 0..Window
    BY <1>2, PipelinedStreamAssumption DEF Init
  <2> QED BY <1>1, <2>1, <2>2, <2>3 DEF Init, TypeOK, Result
<1>5. SingleInv /\ ApartInv
  BY <1>1, <1>3 DEF SingleInv, ApartInv, Single
<1>6. HeldInv
  BY <1>3 DEF HeldInv, Held, Init
<1>7. PermitInv
  BY <1>1, <1>3, FS_EmptySet DEF PermitInv, InFlight, Init
<1>8. WrittenInv /\ EndInv
  BY <1>1, <1>3, PipelinedStreamAssumption DEF WrittenInv, EndInv, Init, Done, Thread
<1> QED BY <1>4, <1>5, <1>6, <1>7, <1>8 DEF StreamInv

\* Steps that move no chunk.
LEMMA PlacesStay ==
  ASSUME StreamInv, UNCHANGED <<dispatch, chunk, results, buffered, nextIdx, issued>>,
         BusyOnes' = BusyOnes, Done => Done'
  PROVE  /\ SingleInv' /\ ApartInv' /\ HeldInv' /\ InFlight' = InFlight
         /\ Queued' = Queued /\ InWork' = InWork /\ Arrived' = Arrived
BY DEF StreamInv, SingleInv, ApartInv, HeldInv, InFlight, Held, Queued, InWork, Arrived

LEMMA AcquireKeeps == ASSUME StreamInv, Acquire PROVE StreamInv'
<1>1. /\ dispatcher = "acquire" /\ issued < Chunks /\ permits < Window
      /\ permits' = permits + 1 /\ dispatcher' = "send"
      /\ UNCHANGED <<issued, dispatch, at, chunk, results, closed, buffered, nextIdx,
                     consumer, outcome, written, callerDone>>
  BY DEF Acquire, workerVars, consumerVars
<1>2. BusyOnes' = BusyOnes /\ Done' = Done
  BY <1>1 DEF BusyOnes, Busy, Done
<1>3. SingleInv' /\ ApartInv' /\ HeldInv' /\ InFlight' = InFlight
  BY <1>1, <1>2, PlacesStay
<1>4. TypeOK /\ Window \in Nat /\ InFlight \in Nat
  BY CountTypes DEF StreamInv
<1>5. TypeOK'
  BY <1>1, <1>4 DEF TypeOK
<1>7. PermitInv'
  BY <1>1, <1>3, <1>4 DEF StreamInv, PermitInv, TypeOK
<1>8. WrittenInv' /\ EndInv'
  BY <1>1, <1>2 DEF StreamInv, WrittenInv, EndInv
<1> QED BY <1>3, <1>5, <1>7, <1>8 DEF StreamInv

\* The chunk sent is a new one.
LEMMA SendKeeps == ASSUME StreamInv, Send PROVE StreamInv'
<1>1. /\ dispatcher = "send" /\ Len(dispatch) < Threads
      /\ dispatch' = Append(dispatch, issued)
      /\ issued' = issued + 1 /\ dispatcher' = "acquire"
      /\ UNCHANGED <<permits, at, chunk, results, closed, buffered, nextIdx,
                     consumer, outcome, written, callerDone>>
  BY DEF Send, workerVars, consumerVars
<1>2. TypeOK /\ InFlight \in Nat /\ issued \in Nat /\ nextIdx \in Nat
  BY CountTypes DEF StreamInv, TypeOK
<1>3. issued \in Chunk /\ issued \notin Held
  <2>1. issued < Chunks
    BY <1>1 DEF StreamInv, PermitInv
  <2>2. issued \notin nextIdx..(issued - 1)
    BY <1>2
  <2> QED BY <1>2, <2>1, <2>2, PipelinedStreamAssumption DEF StreamInv, HeldInv, Chunk
<1>4. /\ BusyOnes' = BusyOnes /\ InWork' = InWork /\ Arrived' = Arrived
      /\ Done' = Done
  BY <1>1 DEF BusyOnes, Busy, InWork, Arrived, Done
<1>5. /\ dispatch' \in Seq(Chunk) /\ Len(dispatch') = Len(dispatch) + 1
      /\ Len(dispatch) \in Nat
      /\ Single(dispatch', OfDispatch)
      /\ Keys(dispatch', OfDispatch) = Queued \cup {issued}
  <2>1. /\ Single(dispatch, OfDispatch) /\ issued \notin Keys(dispatch, OfDispatch)
        /\ OfDispatch[issued] = issued
    BY <1>3 DEF StreamInv, SingleInv, Held, Queued, OfDispatch
  <2>2. OfDispatch \in [Chunk -> Chunk] /\ dispatch \in Seq(Chunk)
    BY <1>2, ChannelKeys
  <2> HIDE DEF OfDispatch
  <2> QED BY <1>1, <1>3, <2>1, <2>2, SendAdds DEF Queued
<1>6. TypeOK'
  BY <1>1, <1>2, <1>3, <1>5, PipelinedStreamAssumption DEF TypeOK, Chunk
<1>7. Queued' = Queued \cup {issued}
  BY <1>5 DEF Queued
<1>8. SingleInv'
  BY <1>1, <1>4, <1>5 DEF StreamInv, SingleInv
<1>9. ApartInv'
  BY <1>1, <1>3, <1>4, <1>7 DEF StreamInv, ApartInv, Held
<1>10. Held' = Held \cup {issued}
  BY <1>1, <1>4, <1>7 DEF Held
<1>11. HeldInv'
  <2>1. HeldInv /\ nextIdx..(issued' - 1) = nextIdx..(issued - 1) \cup {issued}
    BY <1>1, <1>2 DEF StreamInv, HeldInv
  <2> QED BY <1>1, <1>2, <1>4, <1>10, <2>1 DEF HeldInv
<1>12. PermitInv'
  <2>1. InFlight' = InFlight + 1
    BY <1>1, <1>2, <1>4, <1>5, CountTypes DEF InFlight
  <2> QED BY <1>1, <1>2, <2>1 DEF StreamInv, PermitInv, TypeOK
<1>13. WrittenInv' /\ EndInv'
  BY <1>1, <1>4 DEF StreamInv, WrittenInv, EndInv
<1> QED BY <1>6, <1>8, <1>9, <1>11, <1>12, <1>13 DEF StreamInv

\* The channel closes after the last chunk, or because ctx is done.
LEMMA CloseDispatchKeeps == ASSUME StreamInv, CloseDispatch PROVE StreamInv'
<1>1. /\ (dispatcher = "acquire" /\ issued = Chunks) \/ Done
      /\ dispatcher' = "closed"
      /\ UNCHANGED <<issued, permits, dispatch, at, chunk, results, closed, buffered,
                     nextIdx, consumer, outcome, written, callerDone>>
  BY DEF CloseDispatch, workerVars, consumerVars
<1>2. BusyOnes' = BusyOnes /\ Done' = Done
  BY <1>1 DEF BusyOnes, Busy, Done
<1>3. SingleInv' /\ ApartInv' /\ HeldInv' /\ InFlight' = InFlight
  BY <1>1, <1>2, PlacesStay
<1>4. TypeOK /\ InFlight \in Nat
  BY CountTypes DEF StreamInv
<1>5. TypeOK'
  BY <1>1, <1>4 DEF TypeOK
<1>6. PermitInv'
  BY <1>1, <1>3, <1>4 DEF StreamInv, PermitInv, TypeOK
<1>7. WrittenInv' /\ EndInv'
  BY <1>1, <1>2 DEF StreamInv, WrittenInv, EndInv
<1> QED BY <1>3, <1>5, <1>6, <1>7 DEF StreamInv

\* A worker that takes no chunk changes no place.
LEMMA ExitFetchKeeps ==
  ASSUME StreamInv, NEW t \in Thread, Exit(t) \/ Fetch(t) PROVE StreamInv'
<1>1. /\ UNCHANGED <<issued, dispatcher, permits, dispatch, chunk, results, closed,
                     buffered, nextIdx, consumer, outcome, written, callerDone>>
      /\ \/ /\ at' = [at EXCEPT ![t] = "exited"] /\ at[t] = "idle"
            /\ dispatcher = "closed" /\ dispatch = <<>>
         \/ /\ at[t] = "fetching"
            /\ \E to \in {"fetched", "failed"} : at' = [at EXCEPT ![t] = to]
  BY DEF Exit, Fetch, dispatcherVars, consumerVars
<1>2. TypeOK
  BY DEF StreamInv
<1>3. at' \in [Thread -> {"idle", "fetching", "fetched", "failed", "exited"}]
      /\ (\A u \in Thread : Busy(u)' <=> Busy(u))
  BY <1>1, <1>2 DEF TypeOK, Busy
<1>4. BusyOnes' = BusyOnes /\ Done' = Done
  BY <1>1, <1>3 DEF BusyOnes, Done
<1>5. SingleInv' /\ ApartInv' /\ HeldInv' /\ InFlight' = InFlight
  BY <1>1, <1>4, PlacesStay
<1>6. TypeOK'
  BY <1>1, <1>2, <1>3 DEF TypeOK
<1>7. PermitInv' /\ WrittenInv'
  BY <1>1, <1>5 DEF StreamInv, PermitInv, WrittenInv
<1>8. EndInv'
  BY <1>1, <1>2, <1>4 DEF StreamInv, EndInv, TypeOK
<1> QED BY <1>5, <1>6, <1>7, <1>8 DEF StreamInv

\* A chunk goes from the channel to a worker.
LEMMA TakeKeeps ==
  ASSUME StreamInv, NEW t \in Thread, Take(t) PROVE StreamInv'
<1> DEFINE c == Head(dispatch)
<1>1. /\ at[t] = "idle" /\ dispatch # <<>> /\ dispatch' = Tail(dispatch)
      /\ chunk' = [chunk EXCEPT ![t] = c] /\ at' = [at EXCEPT ![t] = "fetching"]
      /\ UNCHANGED <<issued, dispatcher, permits, results, closed, buffered, nextIdx,
                     consumer, outcome, written, callerDone>>
  BY DEF Take, dispatcherVars, consumerVars
<1>2. TypeOK /\ InFlight \in Nat
  BY CountTypes DEF StreamInv
<1>3. /\ dispatch' \in Seq(Chunk) /\ Len(dispatch') = Len(dispatch) - 1
      /\ Len(dispatch) \in Nat \ {0}
      /\ Single(dispatch', OfDispatch) /\ c \in Chunk /\ c \in Queued
      /\ Keys(dispatch', OfDispatch) = Queued \ {c}
  <2>1. /\ Single(dispatch, OfDispatch) /\ dispatch \in Seq(Chunk)
        /\ OfDispatch \in [Chunk -> Chunk]
    BY <1>2, ChannelKeys DEF StreamInv, SingleInv
  <2>2. /\ c \in Chunk /\ OfDispatch[c] \in Keys(dispatch, OfDispatch)
        /\ Tail(dispatch) \in Seq(Chunk) /\ Len(Tail(dispatch)) = Len(dispatch) - 1
        /\ Len(dispatch) \in Nat \ {0} /\ Single(Tail(dispatch), OfDispatch)
        /\ Keys(Tail(dispatch), OfDispatch)
             = Keys(dispatch, OfDispatch) \ {OfDispatch[c]}
    BY <1>1, <2>1, ReceiveTakes
  <2>3. OfDispatch[c] = c
    BY <2>2 DEF OfDispatch
  <2> QED BY <1>1, <2>2, <2>3 DEF Queued
<1> HIDE DEF c
<1>4. /\ t \notin BusyOnes /\ BusyOnes' = BusyOnes \cup {t}
      /\ chunk'[t] = c /\ \A u \in BusyOnes : chunk'[u] = chunk[u]
  BY <1>1, <1>2 DEF BusyOnes, Busy, TypeOK
<1>5. Queued' = Queued \ {c} /\ InWork' = InWork \cup {c} /\ Arrived' = Arrived
  BY <1>1, <1>3, <1>4 DEF Queued, InWork, Arrived
<1>6. Done' = Done /\ c \notin InWork
  BY <1>1, <1>3 DEF Done, StreamInv, ApartInv
<1>7. TypeOK'
  <2>1. /\ at' \in [Thread -> {"idle", "fetching", "fetched", "failed", "exited"}]
        /\ chunk' \in [Thread -> Chunk]
    BY <1>1, <1>2, <1>3 DEF TypeOK
  <2>2. Len(dispatch') <= Threads
    BY <1>2, <1>3, PipelinedStreamAssumption DEF TypeOK
  <2> QED BY <1>1, <1>2, <1>3, <2>1, <2>2 DEF TypeOK
<1>8. SingleInv'
  BY <1>1, <1>3, <1>4, <1>6 DEF StreamInv, SingleInv, InWork
<1>9. ApartInv'
  BY <1>1, <1>3, <1>5 DEF StreamInv, ApartInv
<1>10. HeldInv'
  <2>1. Held' = Held
    BY <1>1, <1>3, <1>5 DEF Held
  <2> QED BY <1>1, <1>6, <2>1 DEF StreamInv, HeldInv
<1>11. PermitInv'
  <2>1. InFlight' = InFlight
    BY <1>1, <1>2, <1>3, <1>4, CountTypes, CountBusy DEF InFlight
  <2> QED BY <1>1, <2>1 DEF StreamInv, PermitInv
<1>12. WrittenInv' /\ EndInv'
  BY <1>1, <1>2, <1>6 DEF StreamInv, WrittenInv, EndInv, TypeOK
<1> QED BY <1>7, <1>8, <1>9, <1>10, <1>11, <1>12 DEF StreamInv

\* A worker that stops working on a chunk.
LEMMA WorkEnds ==
  ASSUME StreamInv, NEW t \in Thread, Busy(t), NEW place \in {"idle", "exited"},
         at' = [at EXCEPT ![t] = place], chunk' = chunk
  PROVE  /\ at' \in [Thread -> {"idle", "fetching", "fetched", "failed", "exited"}]
         /\ BusyOnes' = BusyOnes \ {t} /\ t \in BusyOnes
         /\ InWork' = InWork \ {chunk[t]} /\ chunk[t] \in InWork
         /\ Cardinality(BusyOnes') = Cardinality(BusyOnes) - 1
         /\ Cardinality(BusyOnes) > 0
<1>1. TypeOK /\ t \in BusyOnes
  BY DEF StreamInv, BusyOnes
<1>2. /\ at' \in [Thread -> {"idle", "fetching", "fetched", "failed", "exited"}]
      /\ BusyOnes' = BusyOnes \ {t}
  BY <1>1 DEF TypeOK, BusyOnes, Busy
<1>3. InWork' = InWork \ {chunk[t]} /\ chunk[t] \in InWork
  BY <1>1, <1>2 DEF StreamInv, SingleInv, InWork
<1> QED BY <1>1, <1>2, <1>3, CountBusy

\* A chunk goes from a worker to the second channel.
LEMMA DeliverKeeps ==
  ASSUME StreamInv, NEW t \in Thread, Deliver(t) PROVE StreamInv'
<1> DEFINE c == chunk[t]
           r == [idx |-> chunk[t], err |-> at[t] = "failed"]
<1>1. /\ Busy(t) /\ Len(results) < Window /\ results' = Append(results, r)
      /\ at' = [at EXCEPT ![t] = "idle"]
      /\ UNCHANGED <<issued, dispatcher, permits, dispatch, chunk, closed, buffered,
                     nextIdx, consumer, outcome, written, callerDone>>
  BY DEF Deliver, Busy, dispatcherVars, consumerVars
<1>2. TypeOK /\ InFlight \in Nat
  BY CountTypes DEF StreamInv
<1>3. /\ at' \in [Thread -> {"idle", "fetching", "fetched", "failed", "exited"}]
      /\ BusyOnes' = BusyOnes \ {t}
      /\ InWork' = InWork \ {c} /\ c \in InWork
      /\ Cardinality(BusyOnes') = Cardinality(BusyOnes) - 1
      /\ Cardinality(BusyOnes) > 0
  BY <1>1, WorkEnds
<1>4. /\ results' \in Seq(Result) /\ Len(results') = Len(results) + 1
      /\ Len(results) \in Nat /\ Single(results', OfResults)
      /\ Keys(results', OfResults) = Arrived \cup {c}
  <2>1. c \in Chunk /\ (at[t] = "failed") \in BOOLEAN
    BY <1>2 DEF TypeOK
  <2>2. r \in Result /\ r.idx = c
    BY <2>1 DEF Result
  <2>3. OfResults[r] = c
    BY <2>2 DEF OfResults
  <2>4. /\ Single(results, OfResults) /\ results \in Seq(Result)
        /\ OfResults \in [Result -> Chunk] /\ c \notin Keys(results, OfResults)
    BY <1>2, <1>3, ChannelKeys DEF StreamInv, SingleInv, ApartInv, Arrived
  <2> HIDE DEF r, c, OfResults
  <2> QED BY <1>1, <2>2, <2>3, <2>4, SendAdds DEF Arrived
<1> HIDE DEF c, r
<1>5. /\ Queued' = Queued /\ Arrived' = Arrived \cup {c} /\ Done' = Done
  BY <1>1, <1>4 DEF Queued, Arrived, Done
<1>6. TypeOK'
  <2>1. Len(results') <= Window
    BY <1>1, <1>2, <1>4, CountTypes
  <2> QED BY <1>1, <1>2, <1>3, <1>4, <2>1 DEF TypeOK, Result
<1>7. SingleInv'
  BY <1>1, <1>3, <1>4 DEF StreamInv, SingleInv
<1>8. ApartInv'
  BY <1>1, <1>3, <1>5 DEF StreamInv, ApartInv
<1>9. HeldInv'
  <2>1. Held' = Held
    BY <1>1, <1>3, <1>5 DEF Held
  <2> QED BY <1>1, <1>5, <2>1 DEF StreamInv, HeldInv
<1>10. PermitInv'
  <2>1. InFlight' = InFlight
    <3> DEFINE a == Cardinality(BusyOnes)
               b == Len(dispatch)
               d == Len(results)
               e == Cardinality(buffered)
    <3>1. a \in Nat /\ b \in Nat /\ d \in Nat /\ e \in Nat
      BY <1>2, CountTypes
    <3>2. InFlight = a + b + d + e
      BY DEF InFlight
    <3>3. InFlight' = Cardinality(BusyOnes') + Len(dispatch') + Len(results')
                      + Cardinality(buffered')
      BY DEF InFlight
    <3>4. InFlight' = (a - 1) + b + (d + 1) + e
      BY <1>1, <1>3, <1>4, <3>3
    <3> HIDE DEF a, b, d, e
    <3> QED BY <3>1, <3>2, <3>4
  <2> QED BY <1>1, <2>1 DEF StreamInv, PermitInv
<1>11. WrittenInv' /\ EndInv'
  BY <1>1, <1>2, <1>5 DEF StreamInv, WrittenInv, EndInv, TypeOK, Busy
<1> QED BY <1>6, <1>7, <1>8, <1>9, <1>10, <1>11 DEF StreamInv

\* A chunk is dropped because ctx is done.
LEMMA AbandonKeeps ==
  ASSUME StreamInv, NEW t \in Thread, Abandon(t) PROVE StreamInv'
<1>1. /\ Busy(t) /\ Done /\ at' = [at EXCEPT ![t] = "exited"]
      /\ UNCHANGED <<issued, dispatcher, permits, dispatch, chunk, results, closed,
                     buffered, nextIdx, consumer, outcome, written, callerDone>>
  BY DEF Abandon, Busy, dispatcherVars, consumerVars
<1>2. TypeOK /\ InFlight \in Nat
  BY CountTypes DEF StreamInv
<1>3. /\ at' \in [Thread -> {"idle", "fetching", "fetched", "failed", "exited"}]
      /\ BusyOnes' = BusyOnes \ {t}
      /\ InWork' = InWork \ {chunk[t]}
      /\ Cardinality(BusyOnes') = Cardinality(BusyOnes) - 1
      /\ Cardinality(BusyOnes) > 0
  BY <1>1, WorkEnds
<1>4. Queued' = Queued /\ Arrived' = Arrived /\ Done'
  BY <1>1 DEF Queued, Arrived, Done
<1>5. TypeOK'
  BY <1>1, <1>2, <1>3 DEF TypeOK
<1>6. SingleInv' /\ ApartInv' /\ HeldInv'
  BY <1>1, <1>3, <1>4 DEF StreamInv, SingleInv, ApartInv, HeldInv, Held
<1>7. PermitInv'
  <2>1. InFlight' = InFlight - 1
    BY <1>1, <1>2, <1>3, CountTypes DEF InFlight
  <2> QED BY <1>1, <1>2, <2>1 DEF StreamInv, PermitInv, TypeOK
<1>8. WrittenInv' /\ EndInv'
  BY <1>1, <1>2, <1>4 DEF StreamInv, WrittenInv, EndInv, TypeOK
<1> QED BY <1>5, <1>6, <1>7, <1>8 DEF StreamInv

\* The second channel closes when all workers are gone.
LEMMA CloseResultsKeeps == ASSUME StreamInv, CloseResults PROVE StreamInv'
<1>1. /\ closed' = TRUE /\ \A t \in Thread : at[t] = "exited"
      /\ UNCHANGED <<issued, dispatcher, permits, dispatch, at, chunk, results,
                     buffered, nextIdx, consumer, outcome, written, callerDone>>
  BY DEF CloseResults, dispatcherVars, workerVars, consumerVars
<1>2. BusyOnes' = BusyOnes /\ Done' = Done
  BY <1>1 DEF BusyOnes, Busy, Done
<1>3. SingleInv' /\ ApartInv' /\ HeldInv' /\ InFlight' = InFlight
  BY <1>1, <1>2, PlacesStay
<1>4. TypeOK'
  BY <1>1 DEF StreamInv, TypeOK
<1>5. PermitInv' /\ WrittenInv' /\ EndInv'
  BY <1>1, <1>2, <1>3 DEF StreamInv, PermitInv, WrittenInv, EndInv
<1> QED BY <1>3, <1>4, <1>5 DEF StreamInv

\* The caller may give up at any time.
LEMMA CallerCancelsKeeps == ASSUME StreamInv, CallerCancels PROVE StreamInv'
<1>1. /\ callerDone' = TRUE
      /\ UNCHANGED <<issued, dispatcher, permits, dispatch, at, chunk, results, closed,
                     buffered, nextIdx, consumer, outcome, written>>
  BY DEF CallerCancels, dispatcherVars, workerVars, consumerVars
<1>2. BusyOnes' = BusyOnes /\ Done'
  BY <1>1 DEF BusyOnes, Busy, Done
<1>3. SingleInv' /\ ApartInv' /\ HeldInv' /\ InFlight' = InFlight
  BY <1>1, <1>2, PlacesStay
<1>4. TypeOK'
  BY <1>1 DEF StreamInv, TypeOK
<1>5. PermitInv' /\ WrittenInv' /\ EndInv'
  BY <1>1, <1>2, <1>3 DEF StreamInv, PermitInv, WrittenInv, EndInv
<1> QED BY <1>3, <1>4, <1>5 DEF StreamInv

\* The consumer receives a chunk to buffer, or an error to return.
LEMMA ReceiveKeeps == ASSUME StreamInv, Receive PROVE StreamInv'
<1> DEFINE c == Head(results).idx
<1>1. /\ consumer = "receive" /\ results # <<>> /\ results' = Tail(results)
      /\ UNCHANGED <<issued, dispatcher, permits, dispatch, at, chunk, closed, nextIdx,
                     written, callerDone>>
      /\ \/ /\ consumer' = "returned" /\ outcome' = "failed" /\ buffered' = buffered
         \/ /\ consumer' = "write" /\ outcome' = outcome
            /\ buffered' = buffered \cup {c}
  BY DEF Receive, dispatcherVars, workerVars
<1>2. TypeOK /\ InFlight \in Nat
  BY CountTypes DEF StreamInv
<1>3. /\ results' \in Seq(Result) /\ Len(results') = Len(results) - 1
      /\ Len(results) \in Nat \ {0} /\ Single(results', OfResults)
      /\ c \in Chunk /\ c \in Arrived
      /\ Keys(results', OfResults) = Arrived \ {c}
  <2>1. /\ Single(results, OfResults) /\ results \in Seq(Result)
        /\ OfResults \in [Result -> Chunk]
    BY <1>2, ChannelKeys DEF StreamInv, SingleInv
  <2>2. /\ Head(results) \in Result
        /\ OfResults[Head(results)] \in Keys(results, OfResults)
        /\ Tail(results) \in Seq(Result) /\ Len(Tail(results)) = Len(results) - 1
        /\ Len(results) \in Nat \ {0} /\ Single(Tail(results), OfResults)
        /\ Keys(Tail(results), OfResults)
             = Keys(results, OfResults) \ {OfResults[Head(results)]}
    BY <1>1, <2>1, ReceiveTakes
  <2>3. OfResults[Head(results)] = c /\ c \in Chunk
    BY <2>2 DEF OfResults, Result
  <2> HIDE DEF c
  <2> QED BY <1>1, <2>2, <2>3 DEF Arrived
<1> HIDE DEF c
<1>4. /\ BusyOnes' = BusyOnes /\ Queued' = Queued /\ InWork' = InWork
      /\ Arrived' = Arrived \ {c} /\ (Done => Done')
  BY <1>1, <1>3 DEF BusyOnes, Busy, Queued, InWork, Arrived, Done
<1>5. TypeOK'
  <2>1. Len(results') <= Window
    BY <1>2, <1>3, CountTypes DEF TypeOK
  <2> QED BY <1>1, <1>2, <1>3, <2>1 DEF TypeOK, Result
<1>6. SingleInv'
  BY <1>1, <1>3, <1>4 DEF StreamInv, SingleInv
<1>7. ApartInv'
  BY <1>1, <1>3, <1>4 DEF StreamInv, ApartInv
<1>8. HeldInv'
  <2>1. Held' \subseteq Held /\ (consumer' = "write" => Held' = Held)
    BY <1>1, <1>3, <1>4 DEF Held
  <2> QED BY <1>1, <1>4, <2>1 DEF StreamInv, HeldInv, Done
<1>9. PermitInv'
  <2>1. c \notin buffered
    BY <1>3 DEF StreamInv, ApartInv
  <2>2. /\ Cardinality(buffered') \in Nat
        /\ Cardinality(buffered') <= Cardinality(buffered) + 1
    BY <1>1, <1>2, <1>3, <2>1, CountTypes, CountBuffered
  <2>3. dispatch' = dispatch
    BY <1>1
  <2>4. InFlight' <= InFlight /\ InFlight' \in Nat
    <3>1. /\ Cardinality(BusyOnes) \in Nat /\ Cardinality(buffered) \in Nat
          /\ Len(dispatch) \in Nat /\ Len(results) \in Nat \ {0}
      BY <1>2, <1>3, CountTypes
    <3>2. /\ InFlight' = Cardinality(BusyOnes) + Len(dispatch) + Len(results')
                         + Cardinality(buffered')
          /\ Len(results') = Len(results) - 1
      BY <1>3, <1>4, <2>3 DEF InFlight
    <3>3. \A x, y, z, b, b1 \in Nat :
            z # 0 /\ b1 <= b + 1
              => /\ x + y + (z - 1) + b1 \in Nat
                 /\ x + y + (z - 1) + b1 <= x + y + z + b
      OBVIOUS
    <3>4. InFlight = Cardinality(BusyOnes) + Len(dispatch) + Len(results)
                       + Cardinality(buffered)
      BY DEF InFlight
    <3> QED BY <2>2, <3>1, <3>2, <3>3, <3>4
  <2>5. /\ permits \in Nat /\ permits' = permits /\ dispatcher' = dispatcher
        /\ issued' = issued /\ PermitInv
    BY <1>1, <1>2 DEF TypeOK, StreamInv
  <2>6. InFlight' + (IF dispatcher = "send" THEN 1 ELSE 0) <= permits
    <3> DEFINE sending == IF dispatcher = "send" THEN 1 ELSE 0
    <3>1. InFlight + sending <= permits
      BY <2>5 DEF PermitInv
    <3>2. sending \in Nat
      OBVIOUS
    <3> HIDE DEF sending
    <3>3. \A a, b, x, p \in Nat : a <= b /\ b + x <= p => a + x <= p
      OBVIOUS
    <3>4. InFlight' + sending <= permits
      <4>1. InFlight' \in Nat /\ InFlight \in Nat /\ permits \in Nat
        BY <1>2, <2>4, <2>5
      <4>2. InFlight' <= InFlight
        BY <2>4
      <4> QED BY <3>1, <3>2, <3>3, <4>1, <4>2
    <3> QED BY <3>4 DEF sending
  <2> QED BY <2>5, <2>6 DEF PermitInv
<1>10. WrittenInv'
  BY <1>1 DEF StreamInv, WrittenInv
<1>11. EndInv'
  BY <1>1, <1>4 DEF StreamInv, EndInv
<1> QED BY <1>5, <1>6, <1>7, <1>8, <1>9, <1>10, <1>11 DEF StreamInv

\* A chunk that leaves the buffer.
LEMMA Unbuffer ==
  ASSUME StreamInv, nextIdx \in buffered, buffered' = buffered \ {nextIdx},
         UNCHANGED <<issued, dispatch, at, chunk, results>>
  PROVE  /\ SingleInv' /\ ApartInv' /\ BusyOnes' = BusyOnes
         /\ Held' = Held \ {nextIdx} /\ nextIdx \in Held
         /\ InFlight' = InFlight - 1 /\ InFlight \in Nat
         /\ nextIdx \in Chunk /\ nextIdx < issued
<1>1. TypeOK /\ nextIdx \in Chunk /\ InFlight \in Nat
  BY CountTypes DEF StreamInv, TypeOK
<1>2. /\ BusyOnes' = BusyOnes /\ Queued' = Queued /\ InWork' = InWork
      /\ Arrived' = Arrived
  BY DEF BusyOnes, Busy, Queued, InWork, Arrived
<1>3. SingleInv' /\ ApartInv'
  BY <1>2 DEF StreamInv, SingleInv, ApartInv
<1>4. Held' = Held \ {nextIdx} /\ nextIdx \in Held
  BY <1>2 DEF StreamInv, ApartInv, Held
<1>5. Cardinality(buffered') = Cardinality(buffered) - 1
  BY <1>1, CountBuffered
<1>6. InFlight' = InFlight - 1
  BY <1>1, <1>2, <1>5, CountTypes DEF InFlight
<1>7. nextIdx < issued
  <2>1. nextIdx \in nextIdx..(issued - 1)
    BY <1>4 DEF StreamInv, HeldInv
  <2> QED BY <1>1, <2>1 DEF TypeOK
<1> QED BY <1>1, <1>2, <1>3, <1>4, <1>6, <1>7

\* A write moves the next chunk out, with its permit.
LEMMA WriteKeeps == ASSUME StreamInv, Write PROVE StreamInv'
<1>1. /\ consumer = "write" /\ nextIdx \in buffered
      /\ permits > 0 /\ permits' = permits - 1
      /\ written' = Append(written, nextIdx) /\ buffered' = buffered \ {nextIdx}
      /\ nextIdx' = nextIdx + 1
      /\ \/ nextIdx' = Chunks /\ consumer' = "returned" /\ outcome' = "ok"
         \/ nextIdx' # Chunks /\ consumer' = consumer /\ outcome' = outcome
      /\ UNCHANGED <<issued, dispatcher, dispatch, at, chunk, results, closed, callerDone>>
  BY DEF Write, dispatcherVars, workerVars
<1>2. TypeOK /\ Window \in Nat
  BY CountTypes DEF StreamInv
<1>3. /\ SingleInv' /\ ApartInv' /\ BusyOnes' = BusyOnes
      /\ Held' = Held \ {nextIdx} /\ nextIdx \in Held
      /\ InFlight' = InFlight - 1 /\ InFlight \in Nat
      /\ nextIdx \in Chunk /\ nextIdx < issued
  BY <1>1, Unbuffer
<1>4. /\ written' \in Seq(Chunk) /\ Len(written') = Len(written) + 1
      /\ Len(written) \in Nat
  BY <1>1, <1>2, <1>3, AppendProperties, LenProperties DEF TypeOK
<1>5. TypeOK'
  <2>1. nextIdx' \in 0..Chunks /\ permits' \in 0..Window
    BY <1>1, <1>2, <1>3, PipelinedStreamAssumption DEF TypeOK, Chunk
  <2> QED BY <1>1, <1>2, <1>4, <2>1 DEF TypeOK
<1>6. Done => Done'
  BY <1>1 DEF Done
<1>7. HeldInv'
  <2>1. nextIdx' <= issued' /\ nextIdx'..(issued' - 1) = (nextIdx..(issued - 1)) \ {nextIdx}
    BY <1>1, <1>2, <1>3 DEF TypeOK
  <2> QED BY <1>3, <1>6, <2>1 DEF StreamInv, HeldInv
<1>8. PermitInv'
  BY <1>1, <1>2, <1>3 DEF StreamInv, PermitInv, TypeOK
<1>9. WrittenInv'
  BY <1>1, <1>4 DEF StreamInv, WrittenInv
<1>10. EndInv'
  BY <1>1, <1>6 DEF StreamInv, EndInv
<1> QED BY <1>3, <1>5, <1>7, <1>8, <1>9, <1>10 DEF StreamInv

\* A failed write ends the call.
LEMMA WriteFailsKeeps == ASSUME StreamInv, WriteFails PROVE StreamInv'
<1>1. /\ consumer = "write" /\ nextIdx \in buffered
      /\ buffered' = buffered \ {nextIdx}
      /\ consumer' = "returned" /\ outcome' = "writeFailed"
      /\ UNCHANGED <<issued, dispatcher, permits, dispatch, at, chunk, results, closed,
                     nextIdx, written, callerDone>>
  BY DEF WriteFails, dispatcherVars, workerVars
<1>2. /\ SingleInv' /\ ApartInv' /\ Held' = Held \ {nextIdx}
      /\ InFlight' = InFlight - 1 /\ InFlight \in Nat
  BY <1>1, Unbuffer
<1>3. TypeOK' /\ Done'
  BY <1>1 DEF StreamInv, TypeOK, Done
<1>4. HeldInv' /\ WrittenInv' /\ EndInv'
  BY <1>1, <1>2, <1>3 DEF StreamInv, HeldInv, WrittenInv, EndInv
<1>5. PermitInv'
  BY <1>1, <1>2 DEF StreamInv, PermitInv, TypeOK
<1> QED BY <1>2, <1>3, <1>4, <1>5 DEF StreamInv

\* The consumer goes back to the channel when the next chunk is missing.
LEMMA AwaitMoreKeeps == ASSUME StreamInv, AwaitMore PROVE StreamInv'
<1>1. /\ consumer = "write" /\ nextIdx \notin buffered /\ consumer' = "receive"
      /\ UNCHANGED <<issued, dispatcher, permits, dispatch, at, chunk, results, closed,
                     buffered, nextIdx, outcome, written, callerDone>>
  BY DEF AwaitMore, dispatcherVars, workerVars
<1>2. BusyOnes' = BusyOnes /\ Done' = Done
  BY <1>1 DEF BusyOnes, Busy, Done
<1>3. SingleInv' /\ ApartInv' /\ HeldInv' /\ InFlight' = InFlight
  BY <1>1, <1>2, PlacesStay
<1>4. TypeOK' /\ PermitInv' /\ WrittenInv' /\ EndInv'
  BY <1>1, <1>2, <1>3 DEF StreamInv, TypeOK, PermitInv, WrittenInv, EndInv
<1> QED BY <1>3, <1>4 DEF StreamInv

\* The second channel ends too early only when ctx is done: before that every
\* chunk that is not written is in some place.
LEMMA EndsWhenDone == ASSUME StreamInv, ResultsEnd PROVE Done
<1>1. SUFFICES ASSUME ~Done PROVE FALSE
  OBVIOUS
<1>2. /\ consumer = "receive" /\ results = <<>> /\ closed
  BY DEF ResultsEnd
<1>3. TypeOK /\ 1 \in Thread
  BY PipelinedStreamAssumption DEF StreamInv, Thread
<1>4. /\ \A t \in Thread : at[t] = "exited"
      /\ dispatcher = "closed" /\ dispatch = <<>> /\ issued = Chunks
  BY <1>1, <1>2, <1>3 DEF StreamInv, EndInv
<1>5. Queued = {} /\ Arrived = {} /\ InWork = {}
  BY <1>2, <1>3, <1>4, ChannelKeys DEF InWork, BusyOnes, Busy
<1>6. nextIdx # Chunks /\ nextIdx \in 0..Chunks /\ nextIdx \notin buffered
  BY <1>2, <1>3 DEF StreamInv, WrittenInv, TypeOK
<1>7. nextIdx \in Held
  <2>1. nextIdx \in nextIdx..(issued - 1)
    BY <1>4, <1>6, PipelinedStreamAssumption
  <2> QED BY <1>1, <2>1 DEF StreamInv, HeldInv
<1> QED BY <1>5, <1>6, <1>7 DEF Held

\* So the call returns with a reason.
LEMMA ResultsEndKeeps == ASSUME StreamInv, ResultsEnd PROVE StreamInv'
<1>1. /\ consumer = "receive" /\ consumer' = "returned" /\ outcome' = "cancelled"
      /\ UNCHANGED <<issued, dispatcher, permits, dispatch, at, chunk, results, closed,
                     buffered, nextIdx, written, callerDone>>
  BY EndsWhenDone DEF ResultsEnd, dispatcherVars, workerVars
<1>2. BusyOnes' = BusyOnes /\ Done'
  BY <1>1 DEF BusyOnes, Busy, Done
<1>3. SingleInv' /\ ApartInv' /\ HeldInv' /\ InFlight' = InFlight
  BY <1>1, <1>2, PlacesStay
<1>4. TypeOK' /\ PermitInv' /\ WrittenInv' /\ EndInv'
  BY <1>1, <1>2, <1>3 DEF StreamInv, TypeOK, PermitInv, WrittenInv, EndInv
<1> QED BY <1>3, <1>4 DEF StreamInv
-----------------------------------------------------------------------------
\* Every step of the pipeline keeps the invariant.
LEMMA NextKeeps == ASSUME StreamInv, [Next]_vars PROVE StreamInv'
<1>1. CASE Acquire BY <1>1, AcquireKeeps
<1>2. CASE Send BY <1>2, SendKeeps
<1>3. CASE CloseDispatch BY <1>3, CloseDispatchKeeps
<1>4. ASSUME NEW t \in Thread, WorkerStep(t) PROVE StreamInv'
  <2>1. CASE Take(t) BY <2>1, TakeKeeps
  <2>2. CASE Exit(t) \/ Fetch(t) BY <2>2, ExitFetchKeeps
  <2>3. CASE Deliver(t) BY <2>3, DeliverKeeps
  <2>4. CASE Abandon(t) BY <2>4, AbandonKeeps
  <2> QED BY <1>4, <2>1, <2>2, <2>3, <2>4 DEF WorkerStep
<1>5. CASE CloseResults BY <1>5, CloseResultsKeeps
<1>6. CASE Receive BY <1>6, ReceiveKeeps
<1>7. CASE Write BY <1>7, WriteKeeps
<1>8. CASE WriteFails BY <1>8, WriteFailsKeeps
<1>9. CASE AwaitMore BY <1>9, AwaitMoreKeeps
<1>10. CASE ResultsEnd BY <1>10, ResultsEndKeeps
<1>11. CASE CallerCancels BY <1>11, CallerCancelsKeeps
<1>12. CASE UNCHANGED vars
  <2>1. UNCHANGED <<issued, dispatcher, permits, dispatch, at, chunk, results, closed,
                    buffered, nextIdx, consumer, outcome, written, callerDone>>
    BY <1>12 DEF vars, dispatcherVars, workerVars, consumerVars
  <2>2. BusyOnes' = BusyOnes /\ Done' = Done
    BY <2>1 DEF BusyOnes, Busy, Done
  <2>3. SingleInv' /\ ApartInv' /\ HeldInv' /\ InFlight' = InFlight
    BY <2>1, <2>2, PlacesStay
  <2>4. TypeOK' /\ PermitInv' /\ WrittenInv' /\ EndInv'
    BY <2>1, <2>2, <2>3 DEF StreamInv, TypeOK, PermitInv, WrittenInv, EndInv
  <2> QED BY <2>3, <2>4 DEF StreamInv
<1> QED BY <1>1, <1>2, <1>3, <1>4, <1>5, <1>6, <1>7, <1>8, <1>9, <1>10, <1>11, <1>12
        DEF Next, DispatcherStep, ConsumerStep

\* Where the chunks are, who holds the permits and who may have ended, in every
\* reachable state of a pipeline of any size.
THEOREM InvHolds == Spec => []StreamInv
<1>1. Init => StreamInv
  BY InitInv
<1>2. StreamInv /\ [Next]_vars => StreamInv'
  BY NextKeeps
<1> QED BY <1>1, <1>2, PTL DEF Spec
-----------------------------------------------------------------------------
\* A set with no two elements.
LEMMA OneOrNone ==
  ASSUME NEW S, \A x, y \in S : x = y
  PROVE  Cardinality(S) = IF S = {} THEN 0 ELSE 1
<1>1. CASE S = {}
  BY <1>1, FS_EmptySet
<1>2. CASE S # {}
  <2>1. PICK x \in S : TRUE
    BY <1>2
  <2>2. S = {x}
    BY <2>1
  <2>3. Cardinality({x}) = 1
    BY FS_Singleton
  <2> QED BY <1>2, <2>2, <2>3
<1> QED BY <1>1, <1>2

\* How often a chunk is counted: once if some place holds it.
LEMMA PlacesCount ==
  ASSUME StreamInv, NEW c \in Chunk
  PROVE  Places(c) = IF c \in Held THEN 1 ELSE 0
<1> DEFINE D == {i \in DOMAIN dispatch : dispatch[i] = c}
           W == {t \in Thread : Busy(t) /\ chunk[t] = c}
           R == {i \in DOMAIN results : results[i].idx = c}
           B == buffered \cap {c}
<1>1. TypeOK /\ SingleInv /\ ApartInv
  BY DEF StreamInv
<1>2. Cardinality(D) = IF c \in Queued THEN 1 ELSE 0
  <2>1. \A i \in DOMAIN dispatch : OfDispatch[dispatch[i]] = dispatch[i]
    BY <1>1, ElementOfSeq, LenProperties DEF TypeOK, OfDispatch
  <2>2. D = {} <=> c \notin Queued
    BY <2>1 DEF Queued, Keys
  <2>3. \A i, k \in D : i = k
    BY <1>1, <2>1 DEF SingleInv, Single
  <2> HIDE DEF D
  <2> QED BY <2>2, <2>3, OneOrNone
<1>3. Cardinality(W) = IF c \in InWork THEN 1 ELSE 0
  <2>1. W = {} <=> c \notin InWork
    BY DEF InWork, BusyOnes
  <2>2. \A t, u \in W : t = u
    BY <1>1 DEF SingleInv, BusyOnes
  <2> HIDE DEF W
  <2> QED BY <2>1, <2>2, OneOrNone
<1>4. Cardinality(R) = IF c \in Arrived THEN 1 ELSE 0
  <2>1. \A i \in DOMAIN results : results[i] \in Result
    BY <1>1, ChannelKeys, ElementOfSeq, LenProperties
  <2>2. \A i \in DOMAIN results : OfResults[results[i]] = results[i].idx
    BY <2>1 DEF OfResults
  <2>3. R = {} <=> c \notin Arrived
    BY <2>2 DEF Arrived, Keys
  <2>4. \A i, k \in R : i = k
    BY <1>1, <2>2 DEF SingleInv, Single
  <2> HIDE DEF R
  <2> QED BY <2>3, <2>4, OneOrNone
<1>5. Cardinality(B) = IF c \in buffered THEN 1 ELSE 0
  <2>1. B = {} <=> c \notin buffered
    OBVIOUS
  <2>2. \A x, y \in B : x = y
    OBVIOUS
  <2> HIDE DEF B
  <2> QED BY <2>1, <2>2, OneOrNone
<1>6. Places(c) = Cardinality(D) + Cardinality(W) + Cardinality(R) + Cardinality(B)
  BY DEF Places
<1> HIDE DEF D, W, R, B
<1>7. c \in Held <=> c \in Queued \/ c \in InWork \/ c \in Arrived \/ c \in buffered
  BY DEF Held
<1>8. /\ c \in Queued => c \notin InWork /\ c \notin Arrived /\ c \notin buffered
      /\ c \in InWork => c \notin Arrived /\ c \notin buffered
      /\ c \in Arrived => c \notin buffered
  BY <1>1 DEF ApartInv
<1> QED BY <1>2, <1>3, <1>4, <1>5, <1>6, <1>7, <1>8

\* At most a window of chunks is in memory, each chunk of the file is in one
\* place at most and, until ctx is done, none that was issued is lost; no worker
\* waits to deliver ("buffering up to windowSize chunks in memory").
THEOREM WindowBoundsMemoryHolds == Spec => []WindowBoundsMemory
<1>1. ASSUME StreamInv PROVE WindowBoundsMemory
  <2>1. TypeOK /\ HeldInv /\ PermitInv
    BY <1>1 DEF StreamInv
  <2>2. OnePlacePerChunk
    <3>1. SUFFICES ASSUME NEW c \in Chunk
                   PROVE  /\ Places(c) <= 1
                          /\ ~Done => (Places(c) = 1 <=> nextIdx <= c /\ c < issued)
      BY DEF OnePlacePerChunk
    <3>2. Places(c) = IF c \in Held THEN 1 ELSE 0
      BY <1>1, PlacesCount
    <3>3. c \in nextIdx..(issued - 1) <=> nextIdx <= c /\ c < issued
      BY <2>1 DEF TypeOK, Chunk
    <3>4. ~Done => (c \in Held <=> c \in nextIdx..(issued - 1))
      BY <2>1 DEF HeldInv
    <3> QED BY <3>2, <3>3, <3>4
  <2>3. InFlight <= Window
    <3>1. permits \in Nat /\ permits <= Window /\ InFlight \in Nat /\ Window \in Nat
      BY <2>1, CountTypes DEF TypeOK
    <3>2. InFlight <= permits
      BY <2>1, <3>1 DEF PermitInv
    <3> QED BY <3>1, <3>2
  <2>4. ASSUME NEW t \in Thread, Busy(t) PROVE Len(results) < Window
    <3>1. Cardinality(BusyOnes) > 0
      <4>1. BusyOnes # {}
        BY <2>4 DEF BusyOnes
      <4> QED BY <2>1, <4>1, CountTypes, FS_EmptySet
    <3> QED BY <2>1, <2>3, <3>1, CountTypes DEF InFlight
  <2> QED BY <2>1, <2>2, <2>3, <2>4 DEF WindowBoundsMemory, InFlight, BusyOnes
<1> QED BY <1>1, InvHolds, PTL
-----------------------------------------------------------------------------
\* A step of the pipeline is a step of the in-order stream or changes nothing
\* that its caller sees.
LEMMA StepImplements ==
  ASSUME StreamInv, [Next]_vars PROVE [Stream!StreamNext]_(Stream!streamVars)
<1>1. TypeOK /\ WrittenInv
  BY DEF StreamInv
<1>2. ASSUME UNCHANGED <<written, outcome, callerDone>>
      PROVE  [Stream!StreamNext]_(Stream!streamVars)
  BY <1>2 DEF Stream!streamVars
<1>3. CASE Write
  <2>1. /\ consumer = "write" /\ nextIdx = Len(written) /\ outcome = "running"
        /\ written' = Append(written, nextIdx) /\ nextIdx' = nextIdx + 1
        /\ callerDone' = callerDone
        /\ outcome' = IF nextIdx' = Chunks THEN "ok" ELSE outcome
    BY <1>1, <1>3 DEF Write, WrittenInv
  <2>2. nextIdx < Chunks
    BY <1>1, <2>1, PipelinedStreamAssumption DEF WrittenInv, TypeOK
  <2>3. Len(written') = nextIdx'
    <3>1. nextIdx \in Chunk
      BY <1>1, <2>2, PipelinedStreamAssumption DEF TypeOK, Chunk
    <3> QED BY <1>1, <2>1, <3>1, AppendProperties DEF TypeOK
  <2>4. Stream!WriteChunk
    BY <2>1, <2>2, <2>3 DEF Stream!WriteChunk
  <2> QED BY <2>4 DEF Stream!StreamNext
<1>4. ASSUME outcome = "running",
             \/ outcome' \in {"failed", "writeFailed"}
             \/ outcome' = "cancelled" /\ callerDone,
             UNCHANGED <<written, callerDone>>
      PROVE  [Stream!StreamNext]_(Stream!streamVars)
  BY <1>4 DEF Stream!StreamNext, Stream!Fail
<1>5. CASE Receive
  <2>1. CASE Head(results).err
    BY <1>1, <1>4, <1>5, <2>1 DEF Receive, WrittenInv
  <2>2. CASE ~Head(results).err
    BY <1>2, <1>5, <2>2 DEF Receive
  <2> QED BY <2>1, <2>2
<1>6. CASE WriteFails
  BY <1>1, <1>4, <1>6 DEF WriteFails, WrittenInv
<1>7. CASE ResultsEnd
  <2>1. Done /\ consumer = "receive" /\ UNCHANGED <<written, callerDone>>
    BY <1>7, EndsWhenDone DEF ResultsEnd
  <2>2. callerDone /\ outcome' = "cancelled" /\ outcome = "running"
    BY <1>1, <1>7, <2>1 DEF Done, ResultsEnd, WrittenInv
  <2> QED BY <1>4, <2>1, <2>2
<1>8. CASE CallerCancels
  BY <1>8 DEF CallerCancels, consumerVars, Stream!StreamNext, Stream!GiveUp
<1>9. CASE DispatcherStep \/ CloseResults \/ AwaitMore \/ UNCHANGED vars
  BY <1>2, <1>9 DEF DispatcherStep, Acquire, Send, CloseDispatch, CloseResults,
                    AwaitMore, vars, consumerVars
<1>10. CASE \E t \in Thread : WorkerStep(t)
  BY <1>2, <1>10 DEF WorkerStep, Take, Exit, Fetch, Deliver, Abandon, consumerVars
<1> QED BY <1>3, <1>5, <1>6, <1>7, <1>8, <1>9, <1>10 DEF Next, ConsumerStep

\* The pipeline keeps what InOrderStream promises its caller: the chunks in
\* order and without a gap, ok only with the last one, cancelled only when the
\* caller gave up and never "stream terminated early".
THEOREM ImplementsStreamHolds == Spec => ImplementsStream
<1>1. Init => Stream!StreamInit
  BY DEF Init, Stream!StreamInit
<1>2. StreamInv /\ [Next]_vars => [Stream!StreamNext]_(Stream!streamVars)
  BY StepImplements
<1> QED BY <1>1, <1>2, InvHolds, PTL DEF Spec, ImplementsStream, Stream!StreamSpec
=============================================================================
