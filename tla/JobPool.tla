------------------------------ MODULE JobPool ------------------------------
(***************************************************************************)
(* What the job manager promises its users: a FIFO pool (README.md:15,     *)
(* DEVELOPMENT_PLAN.md:72).  A job waits only when it finds no free slot,  *)
(* and starts happen in order of arrival.  JobManager implements this pool *)
(* as long as nobody changes the limit while jobs wait.                    *)
(***************************************************************************)
EXTENDS Integers, Sequences, FiniteSets, SequencesExt

CONSTANT Job       \* the jobs that may be submitted

VARIABLES limit,   \* how many jobs may run at once
          running, \* the jobs that hold a slot
          waiting  \* the jobs that wait for one, in order of arrival

poolVars == <<limit, running, waiting>>

PoolInit == limit \in Nat \ {0} /\ running = {} /\ waiting = <<>>

\* Slots r are taken and w wait; the head of the line takes a free slot.
Settle(r, w) ==
  /\ IF w # <<>> /\ Cardinality(r) < limit
       THEN running' = r \cup {Head(w)} /\ waiting' = Tail(w)
       ELSE running' = r /\ waiting' = w
  /\ UNCHANGED limit

\* A job arrives: it starts when nobody waits and a slot is free.
Arrive(j) ==
  /\ j \notin running
  /\ ~ Contains(waiting, j)
  /\ IF waiting = <<>> /\ Cardinality(running) < limit
       THEN running' = running \cup {j} /\ UNCHANGED waiting
       ELSE waiting' = Append(waiting, j) /\ UNCHANGED running
  /\ UNCHANGED limit

\* A running job gives its slot up.
Leave(j) == j \in running /\ Settle(running \ {j}, waiting)

\* A waiting job is withdrawn.
Withdraw(k) == Settle(running, RemoveAt(waiting, k))

\* A slot that a larger limit opened is taken.
Fill == Settle(running, waiting)

\* Everything is withdrawn at once.
Clear == running' = {} /\ waiting' = <<>> /\ UNCHANGED limit

Resize == limit' \in Nat \ {0} /\ UNCHANGED <<running, waiting>>

PoolNext ==
  \/ \E j \in Job : Arrive(j) \/ Leave(j)
  \/ \E k \in DOMAIN waiting : Withdraw(k)
  \/ Fill
  \/ Clear
  \/ Resize

PoolSpec == PoolInit /\ [][PoolNext]_poolVars

=============================================================================
