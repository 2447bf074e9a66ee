------------------------------ MODULE JobService ------------------------------
(***************************************************************************)
(* What the worker pool promises to its callers, without workers, counters *)
(* or channels: a job that is accepted is executed exactly once, at most   *)
(* Capacity jobs are accepted and unfinished, jobs are accepted only while *)
(* the service is open, and the service closes only after every accepted   *)
(* job has been executed.  WorkerPool implements it (see there) and Poller *)
(* is built on it.  Refusing a job is always allowed and changes nothing.  *)
(***************************************************************************)
EXTENDS Integers, FiniteSets

CONSTANTS Jobs, Capacity

VARIABLES
  phase,      \* "new", "open", "draining", "closed"
  pending,    \* jobs accepted and not yet executed
  done        \* jobs executed

svars == <<phase, pending, done>>

Init == phase = "new" /\ pending = {} /\ done = {}

\* WorkerPool.Start
Open ==
  /\ phase = "new" /\ phase' = "open"
  /\ UNCHANGED <<pending, done>>

\* WorkerPool.Submit returns (true, nil)
Accept(j) ==
  /\ phase = "open" /\ j \notin pending \cup done
  /\ Cardinality(pending) < Capacity
  /\ pending' = pending \cup {j}
  /\ UNCHANGED <<phase, done>>

\* Job.Execute returns
Finish(j) ==
  /\ j \in pending
  /\ pending' = pending \ {j} /\ done' = done \cup {j}
  /\ UNCHANGED phase

\* WorkerPool.Stop has the lock
Drain ==
  /\ phase = "open" /\ phase' = "draining"
  /\ UNCHANGED <<pending, done>>

\* WorkerPool.Stop returns
Close ==
  /\ phase = "draining" /\ pending = {}
  /\ phase' = "closed"
  /\ UNCHANGED <<pending, done>>

Next ==
  \/ Open \/ Drain \/ Close
  \/ \E j \in Jobs : Accept(j) \/ Finish(j)

Spec == Init /\ [][Next]_svars

FairSpec ==
  /\ Spec
  /\ WF_svars(Close)
  /\ \A j \in Jobs : WF_svars(Finish(j))
=============================================================================
