--------------------------- MODULE WorkerPoolProofs ---------------------------
(***************************************************************************)
(* Theorems about WorkerPool for every configuration, every number of      *)
(* workers, callers and jobs.  They rest on one inductive invariant, IInv, *)
(* whose parts are explained where they are defined.                       *)
(***************************************************************************)
EXTENDS WorkerPool, FiniteSetTheorems, SequenceTheorems, TLAPS

(* A caller inside Submit has a job, and exactly the workers about to run or *)
(* running one hold a job; before Start there is no worker and no caller.    *)
HoldInv ==
  /\ owner = "new" => /\ ~isRunning
                      /\ \A s \in Submitters : submitPc[s] = "idle"
                      /\ \A w \in Workers : workerPc[w] = "none"
  /\ \A s \in Submitters : submitPc[s] = "idle" <=> submitJob[s] = None
  /\ \A w \in Workers : workerPc[w] \in {"got", "busy"} <=> workerJob[w] # None

(* Who may be where in the life of the pool: the lock discipline of          *)
(* startStopMu in terms of the fields it protects.                           *)
LifecycleInv ==
  /\ isRunning <=> owner \in {"started", "stopLock"}
  /\ quit <=> owner \in {"stopping", "stopped"}
  /\ jobQueueClosed => quit
  /\ \A s \in Submitters : submitPc[s] # "idle" => isRunning
  /\ owner = "stopped" => workersWg = 0

MaxInv == numberOfCurrentWorker <= MaxNumberOfWorker

(* Workers leave below the minimum only when the queue is closed and empty.  *)
MinInv ==
  owner # "new" /\ (~jobQueueClosed \/ jobQueue # <<>>)
    => numberOfCurrentWorker >= MinNumberOfWorker

(* A job on its way into the pool is not in it yet, nor on its way twice.    *)
OfferInv ==
  \A s \in Submitters : submitJob[s] # None =>
    /\ submitJob[s] \notin accepted
    /\ \A t \in Submitters : submitJob[t] = submitJob[s] => t = s

IInv ==
  /\ TypeOK /\ HoldInv /\ LifecycleInv
  /\ CountersExact /\ MaxInv /\ MinInv
  /\ OfferInv /\ JobConservation

-----------------------------------------------------------------------------
(* Whatever PoolConf holds, New leaves a positive maximum, a minimum between *)
(* zero and the maximum, and a queue size that make(chan Job, n) accepts.    *)
LEMMA NewValidatesConf ==
  /\ MaxNumberOfWorker \in Nat \ {0}
  /\ MinNumberOfWorker \in Nat
  /\ MinNumberOfWorker <= MaxNumberOfWorker
  /\ QueueSize \in Nat
BY ConfAssumption DEF MaxNumberOfWorker, MinNumberOfWorker, QueueSize

(* Sets of workers are finite, so their cardinality is a natural number. *)
LEMMA WorkerSets ==
  ASSUME NEW S \in SUBSET Workers
  PROVE  IsFiniteSet(S) /\ Cardinality(S) \in Nat
BY IdentityAssumption, FS_Subset, FS_CardinalityType

(* How the cardinality of a set of workers changes when one joins or leaves. *)
LEMMA WorkerJoins ==
  ASSUME NEW S \in SUBSET Workers, NEW w \in Workers, w \notin S
  PROVE  Cardinality(S \cup {w}) = Cardinality(S) + 1
BY WorkerSets, FS_AddElement

(* ... or leaves. *)
LEMMA WorkerLeaves ==
  ASSUME NEW S \in SUBSET Workers, NEW w \in Workers, w \in S
  PROVE  Cardinality(S \ {w}) = Cardinality(S) - 1
BY WorkerSets, FS_RemoveElement

(* The wait group counts at least the counted workers, these the idle ones. *)
LEMMA CountersOrdered ==
  ASSUME CountersExact
  PROVE  /\ numberOfIdleWorker \in Nat /\ numberOfCurrentWorker \in Nat /\ workersWg \in Nat
         /\ numberOfIdleWorker <= numberOfCurrentWorker
         /\ numberOfCurrentWorker <= workersWg
<1>1. Idle \subseteq Counted /\ Counted \subseteq Alive /\ Alive \subseteq Workers
  BY DEF Idle, Counted, Alive
<1>2. IsFiniteSet(Counted) /\ IsFiniteSet(Alive)
  BY <1>1, WorkerSets
<1>3. Cardinality(Idle) <= Cardinality(Counted) /\ Cardinality(Counted) <= Cardinality(Alive)
  BY <1>1, <1>2, FS_Subset
<1>4. Cardinality(Idle) \in Nat /\ Cardinality(Counted) \in Nat /\ Cardinality(Alive) \in Nat
  BY <1>1, WorkerSets
<1>5. QED
  BY <1>3, <1>4 DEF CountersExact

-----------------------------------------------------------------------------
(* Types, and who holds a job. *)

(* Types and holders at New. *)
LEMMA TypeInit == Init => TypeOK /\ HoldInv
<1> SUFFICES ASSUME Init PROVE TypeOK /\ HoldInv
  OBVIOUS
<1>1. jobQueue \in Seq(Jobs) /\ Len(jobQueue) <= QueueSize
  BY NewValidatesConf DEF Init
<1>2. /\ workerPc \in [Workers -> WorkerStates]
      /\ workerJob \in [Workers -> Jobs \cup {None}]
      /\ submitPc \in [Submitters -> {"idle", "select", "full"}]
      /\ submitJob \in [Submitters -> Jobs \cup {None}]
  BY DEF Init, WorkerStates
<1>3. isRunning \in BOOLEAN /\ quit \in BOOLEAN /\ jobQueueClosed \in BOOLEAN
  BY DEF Init
<1>4. TypeOK
  BY <1>1, <1>2, <1>3 DEF Init, TypeOK
<1>5. HoldInv
  BY DEF Init, HoldInv
<1>6. QED
  BY <1>4, <1>5

(* Every step of the pool preserves the types and who holds a job. *)
LEMMA TypeStep == TypeOK /\ HoldInv /\ [Next]_vars => TypeOK' /\ HoldInv'
<1> SUFFICES ASSUME TypeOK, HoldInv, [Next]_vars PROVE TypeOK' /\ HoldInv'
  OBVIOUS
<1> USE DEF TypeOK, HoldInv, WorkerStates, lifecycle, counters, workers, submits
<1>1. CASE Start
  BY <1>1, NewValidatesConf DEF Start
<1>2. CASE StopCall
  BY <1>2 DEF StopCall
<1>3. CASE Stop
  BY <1>3 DEF Stop
<1>4. CASE StopReturn
  BY <1>4 DEF StopReturn
<1>5. CASE Run
  BY <1>5 DEF Run
<1>6. CASE Stopped \/ UNCHANGED vars
  BY <1>6 DEF Stopped, vars
<1>7. ASSUME NEW s \in Submitters, NEW j \in Jobs, SubmitCall(s, j) PROVE TypeOK' /\ HoldInv'
  BY <1>7, IdentityAssumption DEF SubmitCall
<1>8. ASSUME NEW s \in Submitters, SubmitStep(s) PROVE TypeOK' /\ HoldInv'
  <2>1. ASSUME NEW w \in Workers, SubmitHandOff(s, w) PROVE TypeOK' /\ HoldInv'
    BY <2>1 DEF SubmitHandOff, Accept, Parked
  <2>2. ASSUME NEW w \in Workers, SubmitSpawn(s, w) PROVE TypeOK' /\ HoldInv'
    BY <2>2 DEF SubmitSpawn, Accept
  <2>3. CASE SubmitBuffer(s)
    BY <2>3, NewValidatesConf DEF SubmitBuffer, Accept, HasRoom
  <2>4. CASE SubmitDefault(s)
    BY <2>4 DEF SubmitDefault
  <2>5. CASE SubmitReject(s)
    BY <2>5 DEF SubmitReject
  <2>6. QED
    BY <1>8, <2>1, <2>2, <2>3, <2>4, <2>5 DEF SubmitStep
<1>9. ASSUME NEW w \in Workers, WorkerStep(w) \/ WorkerTick(w) PROVE TypeOK' /\ HoldInv'
  <2>1. CASE WorkerPark(w)
    BY <2>1 DEF WorkerPark
  <2>2. CASE WorkerReceive(w)
    BY <2>2, NewValidatesConf, IdentityAssumption DEF WorkerReceive
  <2>3. CASE DoJob(w)
    BY <2>3 DEF DoJob
  <2>4. CASE DoJobReturn(w)
    BY <2>4 DEF DoJobReturn
  <2>5. CASE WorkerClosed(w)
    BY <2>5 DEF WorkerClosed, Leave
  <2>6. CASE WorkerTick(w)
    BY <2>6 DEF WorkerTick
  <2>7. CASE WorkerExpire(w)
    BY <2>7 DEF WorkerExpire, Leave
  <2>8. CASE WorkerKeep(w)
    BY <2>8 DEF WorkerKeep
  <2>9. CASE WorkerDone(w)
    BY <2>9 DEF WorkerDone
  <2>10. QED
    BY <1>9, <2>1, <2>2, <2>3, <2>4, <2>5, <2>6, <2>7, <2>8, <2>9 DEF WorkerStep
<1>10. QED
  BY <1>1, <1>2, <1>3, <1>4, <1>5, <1>6, <1>7, <1>8, <1>9 DEF Next

-----------------------------------------------------------------------------
(* The lock discipline. *)

(* A worker that exists is counted by the wait group. *)
LEMMA AliveIsAwaited ==
  ASSUME CountersExact, NEW w \in Workers, workerPc[w] # "none"
  PROVE  workersWg \in Nat \ {0}
<1>1. w \in Alive /\ Alive \in SUBSET Workers /\ Alive \ {w} \in SUBSET Workers
  BY DEF Alive
<1>2. Cardinality(Alive \ {w}) = Cardinality(Alive) - 1
  BY <1>1, WorkerLeaves
<1>3. Cardinality(Alive \ {w}) \in Nat /\ Cardinality(Alive) \in Nat
  BY <1>1, WorkerSets
<1>4. QED
  BY <1>2, <1>3 DEF CountersExact

(* Start, Stop, func run and the locks go through their stages in order. *)
LEMMA LifecycleStep ==
  TypeOK /\ HoldInv /\ LifecycleInv /\ CountersExact /\ [Next]_vars => LifecycleInv'
<1> SUFFICES ASSUME TypeOK, HoldInv, LifecycleInv, CountersExact, [Next]_vars
             PROVE  LifecycleInv'
  OBVIOUS
<1> USE DEF TypeOK, HoldInv, LifecycleInv, lifecycle, counters, workers, submits
<1>1. CASE Start \/ StopCall \/ Stop \/ StopReturn \/ Run
  BY <1>1 DEF Start, StopCall, Stop, StopReturn, Run, CanLock
<1>2. CASE Stopped \/ UNCHANGED vars
  BY <1>2 DEF Stopped, vars
<1>3. ASSUME NEW s \in Submitters, NEW j \in Jobs, SubmitCall(s, j) PROVE LifecycleInv'
  BY <1>3 DEF SubmitCall
<1>4. ASSUME NEW s \in Submitters, SubmitStep(s) PROVE LifecycleInv'
  BY <1>4 DEF SubmitStep, SubmitHandOff, SubmitSpawn, SubmitBuffer, SubmitDefault,
              SubmitReject, Accept
<1>5. ASSUME NEW w \in Workers, WorkerStep(w) \/ WorkerTick(w) PROVE LifecycleInv'
  <2>1. CASE WorkerDone(w)
    <3>1. owner # "stopped"
      BY <2>1, AliveIsAwaited DEF WorkerDone
    <3>2. QED
      BY <2>1, <3>1 DEF WorkerDone
  <2>2. CASE ~WorkerDone(w)
    BY <1>5, <2>2 DEF WorkerStep, WorkerTick, WorkerPark, WorkerReceive, WorkerClosed,
                      DoJob, DoJobReturn, WorkerExpire, WorkerKeep, Leave
  <2>3. QED
    BY <2>1, <2>2
<1>6. QED
  BY <1>1, <1>2, <1>3, <1>4, <1>5 DEF Next

-----------------------------------------------------------------------------
(* The counters. *)

(* New: no goroutine, counters at zero. *)
LEMMA CountersInit == Init => CountersExact
<1> SUFFICES ASSUME Init PROVE CountersExact
  OBVIOUS
<1>1. Counted = {} /\ Idle = {} /\ Alive = {}
  BY DEF Init, Counted, Idle, Alive
<1>2. QED
  BY <1>1, FS_EmptySet DEF Init, CountersExact

(* Every path in and out of worker.work adjusts the counters with the goroutine. *)
LEMMA CountersStep == TypeOK /\ HoldInv /\ CountersExact /\ [Next]_vars => CountersExact'
<1> SUFFICES ASSUME TypeOK, HoldInv, CountersExact, [Next]_vars PROVE CountersExact'
  OBVIOUS
<1> USE DEF TypeOK, lifecycle, counters, workers, submits
<1>sub. Counted \in SUBSET Workers /\ Idle \in SUBSET Workers /\ Alive \in SUBSET Workers
  BY DEF Counted, Idle, Alive
<1>card. /\ Cardinality(Counted) \in Nat /\ Cardinality(Idle) \in Nat
         /\ Cardinality(Alive) \in Nat
  BY <1>sub, WorkerSets
<1>same. ASSUME UNCHANGED counters, Counted' = Counted, Idle' = Idle, Alive' = Alive
         PROVE  CountersExact'
  BY <1>same DEF CountersExact
<1>quiet. ASSUME UNCHANGED <<counters, workerPc>> PROVE CountersExact'
  BY <1>quiet, <1>same DEF Counted, Idle, Alive
<1>1. CASE Start
  <2>1. PICK ws \in SUBSET Workers :
          /\ Cardinality(ws) = MinNumberOfWorker
          /\ workerPc' = [w \in Workers |-> IF w \in ws THEN "loop" ELSE "none"]
    BY <1>1 DEF Start
  <2>2. Counted' = ws /\ Idle' = ws /\ Alive' = ws
    BY <2>1 DEF Counted, Idle, Alive
  <2>3. Counted = {} /\ Idle = {} /\ Alive = {}
    BY <1>1 DEF Start, HoldInv, Counted, Idle, Alive
  <2>4. numberOfCurrentWorker = 0 /\ numberOfIdleWorker = 0 /\ workersWg = 0
    BY <2>3, FS_EmptySet DEF CountersExact
  <2>5. QED
    BY <1>1, <2>1, <2>2, <2>4, NewValidatesConf DEF Start, CountersExact
<1>2. CASE StopCall \/ Stop \/ StopReturn \/ Run \/ Stopped \/ UNCHANGED vars
  BY <1>2, <1>quiet DEF StopCall, Stop, StopReturn, Run, Stopped, vars
<1>3. ASSUME NEW s \in Submitters, NEW j \in Jobs, SubmitCall(s, j) PROVE CountersExact'
  BY <1>3, <1>quiet DEF SubmitCall
<1>4. ASSUME NEW s \in Submitters, SubmitStep(s) PROVE CountersExact'
  <2>1. ASSUME NEW w \in Workers, SubmitHandOff(s, w) PROVE CountersExact'
    <3>1. Counted' = Counted /\ Idle' = Idle /\ Alive' = Alive
      BY <2>1 DEF SubmitHandOff, Parked, Counted, Idle, Alive
    <3>2. QED
      BY <2>1, <3>1, <1>same DEF SubmitHandOff
  <2>2. ASSUME NEW w \in Workers, SubmitSpawn(s, w) PROVE CountersExact'
    <3>1. w \notin Counted /\ w \notin Idle /\ w \notin Alive
      BY <2>2 DEF SubmitSpawn, Counted, Idle, Alive
    <3>2. Counted' = Counted \cup {w} /\ Idle' = Idle \cup {w} /\ Alive' = Alive \cup {w}
      BY <2>2 DEF SubmitSpawn, Counted, Idle, Alive
    <3>3. QED
      BY <2>2, <3>1, <3>2, <1>sub, <1>card, WorkerJoins DEF SubmitSpawn, CountersExact
  <2>3. CASE SubmitBuffer(s) \/ SubmitDefault(s) \/ SubmitReject(s)
    BY <2>3, <1>quiet DEF SubmitBuffer, SubmitDefault, SubmitReject
  <2>4. QED
    BY <1>4, <2>1, <2>2, <2>3 DEF SubmitStep
<1>5. ASSUME NEW w \in Workers, WorkerStep(w) \/ WorkerTick(w) PROVE CountersExact'
  <2>1. CASE WorkerPark(w) \/ WorkerReceive(w) \/ WorkerTick(w) \/ WorkerKeep(w)
    <3>1. Counted' = Counted /\ Idle' = Idle /\ Alive' = Alive
      BY <2>1 DEF WorkerPark, WorkerReceive, WorkerTick, WorkerKeep, Counted, Idle, Alive
    <3>2. QED
      BY <2>1, <3>1, <1>same DEF WorkerPark, WorkerReceive, WorkerTick, WorkerKeep
  <2>2. CASE DoJob(w)
    <3>1. w \in Idle /\ Idle' = Idle \ {w} /\ Counted' = Counted /\ Alive' = Alive
      BY <2>2 DEF DoJob, Counted, Idle, Alive
    <3>2. QED
      BY <2>2, <3>1, <1>sub, <1>card, WorkerLeaves DEF DoJob, CountersExact
  <2>3. CASE DoJobReturn(w)
    <3>1. w \notin Idle /\ Idle' = Idle \cup {w} /\ Counted' = Counted /\ Alive' = Alive
      BY <2>3 DEF DoJobReturn, Counted, Idle, Alive
    <3>2. QED
      BY <2>3, <3>1, <1>sub, <1>card, WorkerJoins DEF DoJobReturn, CountersExact
  <2>4. CASE WorkerClosed(w) \/ WorkerExpire(w)
    <3>1. Leave(w) /\ w \in Idle /\ w \in Counted
      BY <2>4 DEF WorkerClosed, WorkerExpire, Idle, Counted
    <3>2. Idle' = Idle \ {w} /\ Counted' = Counted \ {w} /\ Alive' = Alive
      BY <3>1 DEF Leave, Counted, Idle, Alive
    <3>3. QED
      BY <3>1, <3>2, <1>sub, <1>card, WorkerLeaves DEF Leave, CountersExact
  <2>5. CASE WorkerDone(w)
    <3>1. w \in Alive /\ Alive' = Alive \ {w} /\ Counted' = Counted /\ Idle' = Idle
      BY <2>5 DEF WorkerDone, Counted, Idle, Alive
    <3>2. QED
      BY <2>5, <3>1, <1>sub, <1>card, WorkerLeaves DEF WorkerDone, CountersExact
  <2>6. QED
    BY <1>5, <2>1, <2>2, <2>3, <2>4, <2>5 DEF WorkerStep
<1>6. QED
  BY <1>1, <1>2, <1>3, <1>4, <1>5 DEF Next

-----------------------------------------------------------------------------
(* The limits. *)

(* The compare-and-change of the counters keeps them within their limits. *)
LEMMA LimitsStep ==
  /\ TypeOK /\ HoldInv /\ LifecycleInv /\ CountersExact /\ MaxInv /\ MinInv
  /\ [Next]_vars
  => MaxInv' /\ MinInv'
<1> SUFFICES ASSUME TypeOK, HoldInv, LifecycleInv, CountersExact, MaxInv, MinInv, [Next]_vars
             PROVE  MaxInv' /\ MinInv'
  OBVIOUS
<1> USE NewValidatesConf DEF TypeOK, MaxInv, MinInv, lifecycle, counters, workers, submits
<1>1. CASE Start
  <2>1. Counted = {}
    BY <1>1 DEF Start, HoldInv, Counted
  <2>2. numberOfCurrentWorker = 0
    BY <2>1, FS_EmptySet DEF CountersExact
  <2>3. QED
    BY <1>1, <2>2 DEF Start
<1>2. CASE StopCall \/ Stop \/ StopReturn \/ Run \/ Stopped \/ UNCHANGED vars
  BY <1>2 DEF StopCall, Stop, StopReturn, Run, Stopped, vars
<1>3. ASSUME NEW s \in Submitters, NEW j \in Jobs, SubmitCall(s, j) PROVE MaxInv' /\ MinInv'
  BY <1>3 DEF SubmitCall
<1>4. ASSUME NEW s \in Submitters, SubmitStep(s) PROVE MaxInv' /\ MinInv'
  <2>1. ASSUME NEW w \in Workers, SubmitHandOff(s, w) \/ SubmitSpawn(s, w)
        PROVE  MaxInv' /\ MinInv'
    BY <2>1 DEF SubmitHandOff, SubmitSpawn
  <2>2. CASE SubmitBuffer(s)
    BY <2>2 DEF SubmitBuffer, LifecycleInv
  <2>3. CASE SubmitDefault(s) \/ SubmitReject(s)
    BY <2>3 DEF SubmitDefault, SubmitReject
  <2>4. QED
    BY <1>4, <2>1, <2>2, <2>3 DEF SubmitStep
<1>5. ASSUME NEW w \in Workers, WorkerStep(w) \/ WorkerTick(w) PROVE MaxInv' /\ MinInv'
  <2>1. CASE WorkerReceive(w)
    BY <2>1 DEF WorkerReceive
  <2>2. CASE WorkerClosed(w)
    BY <2>2 DEF WorkerClosed, Leave
  <2>3. CASE WorkerExpire(w)
    BY <2>3 DEF WorkerExpire, Leave
  <2>4. CASE WorkerPark(w) \/ DoJob(w) \/ DoJobReturn(w) \/ WorkerTick(w) \/ WorkerKeep(w)
             \/ WorkerDone(w)
    BY <2>4 DEF WorkerPark, DoJob, DoJobReturn, WorkerTick, WorkerKeep, WorkerDone
  <2>5. QED
    BY <1>5, <2>1, <2>2, <2>3, <2>4 DEF WorkerStep
<1>6. QED
  BY <1>1, <1>2, <1>3, <1>4, <1>5 DEF Next

-----------------------------------------------------------------------------
(* Where the jobs are. *)

Elements(q) == {q[i] : i \in DOMAIN q}
Distinct(q) == \A i, k \in DOMAIN q : q[i] = q[k] => i = k
HeldJobs == {workerJob[w] : w \in Workers} \ {None}

(* The jobs in the buffer after a send ... *)
LEMMA AppendElements ==
  ASSUME NEW q \in Seq(Jobs), NEW j \in Jobs
  PROVE  /\ Elements(Append(q, j)) = Elements(q) \cup {j}
         /\ Distinct(q) /\ j \notin Elements(q) => Distinct(Append(q, j))
BY DEF Elements, Distinct

(* ... and after a receive. *)
LEMMA TailElements ==
  ASSUME NEW q \in Seq(Jobs), q # <<>>, Distinct(q)
  PROVE  /\ Elements(Tail(q)) = Elements(q) \ {Head(q)}
         /\ Head(q) \in Elements(q)
         /\ Distinct(Tail(q))
<1>1. Len(q) \in Nat \ {0} /\ DOMAIN q = 1 .. Len(q) /\ Head(q) = q[1]
  OBVIOUS
<1>2. Tail(q) \in Seq(Jobs) /\ DOMAIN Tail(q) = 1 .. Len(q) - 1
  BY <1>1
<1>3. \A i \in DOMAIN Tail(q) : Tail(q)[i] = q[i + 1]
  BY <1>1, <1>2
<1>4. ASSUME NEW i \in DOMAIN q, q[i] # Head(q) PROVE q[i] \in Elements(Tail(q))
  <2>1. i - 1 \in DOMAIN Tail(q) /\ Tail(q)[i - 1] = q[i]
    BY <1>1, <1>2, <1>3, <1>4
  <2>2. QED
    BY <2>1 DEF Elements
<1>5. ASSUME NEW i \in DOMAIN Tail(q) PROVE Tail(q)[i] \in Elements(q) \ {Head(q)}
  BY <1>1, <1>2, <1>3 DEF Elements, Distinct
<1>6. Distinct(Tail(q))
  BY <1>1, <1>2, <1>3 DEF Distinct
<1>7. QED
  BY <1>1, <1>4, <1>5, <1>6 DEF Elements

(* JobConservation in terms of the sets above. *)
LEMMA ConservationSplit ==
  JobConservation <=>
    /\ accepted \ executed = Elements(jobQueue) \cup HeldJobs
    /\ executed \subseteq accepted
    /\ Distinct(jobQueue)
    /\ \A v, w \in Workers : workerJob[v] = workerJob[w] /\ v # w => workerJob[v] = None
    /\ \A w \in Workers : workerJob[w] \notin Elements(jobQueue)
BY DEF JobConservation, QueuedJobs, Elements, Distinct, HeldJobs

(* A job that Submit has just accepted leaves no trace among the offers. *)
LEMMA AcceptOffer ==
  ASSUME TypeOK, HoldInv, OfferInv, NEW s \in Submitters, submitPc[s] # "idle", Accept(s)
  PROVE  submitJob[s] \in Jobs /\ submitJob[s] \notin accepted /\ OfferInv'
BY IdentityAssumption DEF TypeOK, HoldInv, OfferInv, Accept

(* New: no job anywhere. *)
LEMMA JobInit == Init => OfferInv /\ JobConservation
<1> SUFFICES ASSUME Init PROVE OfferInv /\ JobConservation
  OBVIOUS
<1>1. HeldJobs = {} /\ Elements(jobQueue) = {} /\ Distinct(jobQueue)
  BY DEF Init, HeldJobs, Elements, Distinct
<1>2. QED
  BY <1>1, ConservationSplit DEF Init, OfferInv, Elements

(* Every step moves a job to one place or leaves it where it is. *)
LEMMA JobStep ==
  TypeOK /\ HoldInv /\ OfferInv /\ JobConservation /\ [Next]_vars
    => OfferInv' /\ JobConservation'
<1> SUFFICES ASSUME TypeOK, HoldInv, OfferInv, JobConservation, [Next]_vars
             PROVE  OfferInv' /\ JobConservation'
  OBVIOUS
<1> USE DEF TypeOK, lifecycle, counters, workers, submits
<1>same. ASSUME UNCHANGED <<jobQueue, workerJob, accepted, executed>> PROVE JobConservation'
  BY <1>same DEF JobConservation, QueuedJobs
<1>quiet. ASSUME UNCHANGED <<jobQueue, workerJob, accepted, executed, submits>>
          PROVE  OfferInv' /\ JobConservation'
  BY <1>quiet, <1>same DEF OfferInv
<1>was. /\ accepted \ executed = Elements(jobQueue) \cup HeldJobs
        /\ executed \subseteq accepted
        /\ Distinct(jobQueue)
        /\ \A v, w \in Workers : workerJob[v] = workerJob[w] /\ v # w => workerJob[v] = None
        /\ \A w \in Workers : workerJob[w] \notin Elements(jobQueue)
  BY ConservationSplit
<1>goal. ASSUME (accepted \ executed)' = Elements(jobQueue)' \cup HeldJobs',
                (executed \subseteq accepted)',
                Distinct(jobQueue)',
                \A v, w \in Workers : workerJob'[v] = workerJob'[w] /\ v # w => workerJob'[v] = None,
                \A w \in Workers : workerJob'[w] \notin Elements(jobQueue)'
         PROVE  JobConservation'
  BY <1>goal DEF JobConservation, QueuedJobs, Elements, Distinct, HeldJobs
\* A job enters the hands of a worker that had none.
<1>held. ASSUME NEW w \in Workers, NEW j \in Jobs, workerJob[w] = None,
                workerJob' = [workerJob EXCEPT ![w] = j],
                j \notin HeldJobs
         PROVE  /\ HeldJobs' = HeldJobs \cup {j}
                /\ \A u, v \in Workers : workerJob'[u] = workerJob'[v] /\ u # v => workerJob'[u] = None
  BY <1>held, <1>was, IdentityAssumption DEF HeldJobs
<1>1. CASE Start \/ StopCall \/ Stop \/ StopReturn \/ Run \/ Stopped \/ UNCHANGED vars
  BY <1>1, <1>quiet DEF Start, StopCall, Stop, StopReturn, Run, Stopped, vars
<1>2. ASSUME NEW s \in Submitters, NEW j \in Jobs, SubmitCall(s, j)
      PROVE  OfferInv' /\ JobConservation'
  BY <1>2, <1>same DEF SubmitCall, OfferInv
<1>3. ASSUME NEW s \in Submitters, SubmitStep(s) PROVE OfferInv' /\ JobConservation'
  <2>1. ASSUME NEW w \in Workers, SubmitHandOff(s, w) \/ SubmitSpawn(s, w)
        PROVE  OfferInv' /\ JobConservation'
    <3>1. /\ submitPc[s] # "idle" /\ Accept(s) /\ workerJob[w] = None
          /\ workerJob' = [workerJob EXCEPT ![w] = submitJob[s]]
          /\ UNCHANGED <<jobQueue, executed>>
      BY <2>1 DEF SubmitHandOff, SubmitSpawn, Parked, HoldInv
    <3>2. submitJob[s] \in Jobs /\ submitJob[s] \notin accepted /\ OfferInv'
      BY <3>1, AcceptOffer
    <3>3. submitJob[s] \notin HeldJobs /\ submitJob[s] \notin Elements(jobQueue)
      BY <3>2, <1>was
    <3>4. /\ HeldJobs' = HeldJobs \cup {submitJob[s]}
          /\ \A u, v \in Workers : workerJob'[u] = workerJob'[v] /\ u # v => workerJob'[u] = None
      BY <3>1, <3>2, <3>3, <1>held
    <3>5. Elements(jobQueue)' = Elements(jobQueue) /\ Distinct(jobQueue)'
      BY <3>1, <1>was DEF Elements, Distinct
    <3>6. \A v \in Workers : workerJob'[v] \notin Elements(jobQueue)'
      BY <3>1, <3>3, <3>5, <1>was
    <3>7. (accepted \ executed)' = Elements(jobQueue)' \cup HeldJobs' /\ (executed \subseteq accepted)'
      BY <3>1, <3>2, <3>4, <3>5, <1>was DEF Accept
    <3>8. QED
      BY <3>2, <3>4, <3>5, <3>6, <3>7, <1>goal
  <2>2. CASE SubmitBuffer(s)
    <3>1. /\ submitPc[s] # "idle" /\ Accept(s)
          /\ jobQueue' = Append(jobQueue, submitJob[s])
          /\ UNCHANGED <<workerJob, executed>>
      BY <2>2 DEF SubmitBuffer
    <3>2. submitJob[s] \in Jobs /\ submitJob[s] \notin accepted /\ OfferInv'
      BY <3>1, AcceptOffer
    <3>3. submitJob[s] \notin HeldJobs /\ submitJob[s] \notin Elements(jobQueue)
      BY <3>2, <1>was
    <3>4. Elements(jobQueue)' = Elements(jobQueue) \cup {submitJob[s]} /\ Distinct(jobQueue)'
      <4>1. /\ Elements(Append(jobQueue, submitJob[s])) = Elements(jobQueue) \cup {submitJob[s]}
            /\ Distinct(Append(jobQueue, submitJob[s]))
        BY <3>2, <3>3, <1>was, AppendElements
      <4>2. /\ Elements(jobQueue)' = Elements(Append(jobQueue, submitJob[s]))
            /\ Distinct(jobQueue)' = Distinct(Append(jobQueue, submitJob[s]))
        BY <3>1 DEF Elements, Distinct
      <4>3. QED
        BY <4>1, <4>2
    <3>5. HeldJobs' = HeldJobs
      BY <3>1 DEF HeldJobs
    <3>6. \A v \in Workers : workerJob'[v] \notin Elements(jobQueue)'
      BY <3>1, <3>2, <3>3, <3>4, <1>was, IdentityAssumption DEF HeldJobs
    <3>7. (accepted \ executed)' = Elements(jobQueue)' \cup HeldJobs' /\ (executed \subseteq accepted)'
      BY <3>1, <3>2, <3>4, <3>5, <1>was DEF Accept
    <3>8. QED
      BY <3>1, <3>2, <3>4, <3>6, <3>7, <1>was, <1>goal
  <2>3. CASE SubmitDefault(s) \/ SubmitReject(s)
    BY <2>3, <1>same DEF SubmitDefault, SubmitReject, OfferInv
  <2>4. QED
    BY <1>3, <2>1, <2>2, <2>3 DEF SubmitStep
<1>4. ASSUME NEW w \in Workers, WorkerStep(w) \/ WorkerTick(w)
      PROVE  OfferInv' /\ JobConservation'
  <2>1. CASE WorkerReceive(w)
    <3>1. /\ jobQueue # <<>> /\ jobQueue' = Tail(jobQueue) /\ workerJob[w] = None
          /\ workerJob' = [workerJob EXCEPT ![w] = Head(jobQueue)]
          /\ UNCHANGED <<submits, accepted, executed>>
      BY <2>1 DEF WorkerReceive, HoldInv
    <3>2. /\ Elements(jobQueue)' = Elements(jobQueue) \ {Head(jobQueue)}
          /\ Head(jobQueue) \in Elements(jobQueue) /\ Distinct(jobQueue)'
      <4>1. /\ Elements(Tail(jobQueue)) = Elements(jobQueue) \ {Head(jobQueue)}
            /\ Head(jobQueue) \in Elements(jobQueue) /\ Distinct(Tail(jobQueue))
        BY <3>1, <1>was, TailElements
      <4>2. Elements(jobQueue)' = Elements(Tail(jobQueue)) /\ Distinct(jobQueue)' = Distinct(Tail(jobQueue))
        BY <3>1 DEF Elements, Distinct
      <4>3. QED
        BY <4>1, <4>2
    <3>3. Head(jobQueue) \in Jobs /\ Head(jobQueue) \notin HeldJobs
      BY <3>1, <3>2, <1>was DEF HeldJobs
    <3>4. /\ HeldJobs' = HeldJobs \cup {Head(jobQueue)}
          /\ \A u, v \in Workers : workerJob'[u] = workerJob'[v] /\ u # v => workerJob'[u] = None
      BY <3>1, <3>3, <1>held
    <3>5. \A v \in Workers : workerJob'[v] \notin Elements(jobQueue)'
      BY <3>1, <3>2, <1>was
    <3>6. (accepted \ executed)' = Elements(jobQueue)' \cup HeldJobs' /\ (executed \subseteq accepted)'
      BY <3>1, <3>2, <3>4, <1>was
    <3>7. JobConservation'
      BY <3>2, <3>4, <3>5, <3>6, <1>goal
    <3>8. QED
      BY <3>1, <3>7 DEF OfferInv
  <2>2. CASE DoJobReturn(w)
    <3> DEFINE j == workerJob[w]
    <3>1. /\ j # None /\ executed' = executed \cup {j}
          /\ workerJob' = [workerJob EXCEPT ![w] = None]
          /\ UNCHANGED <<jobQueue, submits, accepted>>
      BY <2>2 DEF DoJobReturn, HoldInv
    <3>2. j \in HeldJobs /\ j \notin Elements(jobQueue) /\ j \in Jobs
      BY <3>1, <1>was DEF HeldJobs
    <3>3. HeldJobs' = HeldJobs \ {j}
      <4>1. \A v \in Workers : workerJob'[v] = IF v = w THEN None ELSE workerJob[v]
        BY <3>1
      <4>2. \A v \in Workers : v # w => workerJob[v] # j
        BY <3>1, <1>was
      <4>3. QED
        BY <4>1, <4>2 DEF HeldJobs
    <3>4. Elements(jobQueue)' = Elements(jobQueue) /\ Distinct(jobQueue)'
      BY <3>1, <1>was DEF Elements, Distinct
    <3>5. None \notin Elements(jobQueue)
      <4>1. Elements(jobQueue) \subseteq accepted
        BY <1>was
      <4>2. QED
        BY <4>1, IdentityAssumption
    <3>6. \A v \in Workers : workerJob'[v] \notin Elements(jobQueue)'
      BY <3>1, <3>4, <3>5, <1>was
    <3>7. \A u, v \in Workers : workerJob'[u] = workerJob'[v] /\ u # v => workerJob'[u] = None
      BY <3>1, <1>was
    <3>8. (accepted \ executed)' = Elements(jobQueue)' \cup HeldJobs' /\ (executed \subseteq accepted)'
      BY <3>1, <3>2, <3>3, <3>4, <1>was
    <3>9. JobConservation'
      BY <3>4, <3>6, <3>7, <3>8, <1>goal
    <3>10. QED
      BY <3>1, <3>9 DEF OfferInv
  <2>3. CASE ~WorkerReceive(w) /\ ~DoJobReturn(w)
    BY <1>4, <2>3, <1>quiet DEF WorkerStep, WorkerTick, WorkerPark, WorkerClosed, DoJob,
                                WorkerExpire, WorkerKeep, WorkerDone, Leave
  <2>4. QED
    BY <2>1, <2>2, <2>3
<1>5. QED
  BY <1>1, <1>2, <1>3, <1>4 DEF Next

-----------------------------------------------------------------------------
(* The theorems. *)

(* IInv is an invariant of the pool: the inductive argument behind all the   *)
(* theorems below.                                                           *)
THEOREM PoolInvariant == Spec => []IInv
<1>1. Init => IInv
  <2> SUFFICES ASSUME Init PROVE IInv
    OBVIOUS
  <2>1. LifecycleInv /\ MaxInv /\ MinInv
    BY NewValidatesConf DEF Init, LifecycleInv, MaxInv, MinInv
  <2>2. QED
    BY <2>1, TypeInit, CountersInit, JobInit DEF IInv
<1>2. IInv /\ [Next]_vars => IInv'
  BY TypeStep, LifecycleStep, CountersStep, LimitsStep, JobStep DEF IInv
<1>3. QED
  BY <1>1, <1>2, PTL DEF Spec

(* Every variable of the pool keeps its type, the buffer within its capacity. *)
THEOREM PoolTypes == Spec => []TypeOK
<1>1. IInv => TypeOK
  BY DEF IInv
<1>2. QED
  BY <1>1, PoolInvariant, PTL

(* The two worker counters and the wait group are exact, however submits,     *)
(* expiries and a stop interleave.                                            *)
THEOREM PoolCounters == Spec => []CountersExact
<1>1. IInv => CountersExact
  BY DEF IInv
<1>2. QED
  BY <1>1, PoolInvariant, PTL

(* The number of workers stays between the configured limits, and the number  *)
(* reported to pollers between zero and the maximum.                          *)
THEOREM PoolLimits == Spec => []WorkerLimits
<1>1. ASSUME IInv PROVE WorkerLimits
  <2>1. numberOfCurrentWorker <= MaxNumberOfWorker
    BY <1>1 DEF IInv, MaxInv
  <2>2. isRunning => numberOfCurrentWorker >= MinNumberOfWorker
    BY <1>1 DEF IInv, LifecycleInv, MinInv
  <2>3. NumberOfAvailableWorker \in 0 .. MaxNumberOfWorker
    BY <1>1, <2>1, CountersOrdered, NewValidatesConf DEF IInv, NumberOfAvailableWorker
  <2>4. QED
    BY <2>1, <2>2, <2>3 DEF WorkerLimits
<1>2. QED
  BY <1>1, PoolInvariant, PTL

(* Submit never sends on the closed job queue. *)
THEOREM PoolNeverSendsOnClosedQueue == Spec => []NoSendOnClosedQueue
<1>1. IInv => NoSendOnClosedQueue
  BY DEF IInv, LifecycleInv, NoSendOnClosedQueue
<1>2. QED
  BY <1>1, PoolInvariant, PTL

(* While Stop waits, the wait group is never added to. *)
THEOREM PoolNeverAddsDuringWait == Spec => NoAddDuringWait
<1>1. IInv /\ [Next]_vars => [owner = "stopping" => workersWg' <= workersWg]_vars
  <2> SUFFICES ASSUME IInv, Next, owner = "stopping" PROVE workersWg' <= workersWg
    OBVIOUS
  <2>0. workersWg \in Int /\ ~isRunning
    BY DEF IInv, TypeOK, LifecycleInv
  <2> USE <2>0 DEF lifecycle, counters, workers, submits
  <2>1. CASE StopReturn \/ Run
    BY <2>1 DEF StopReturn, Run
  <2>2. CASE Start \/ StopCall \/ Stop \/ Stopped
    BY <2>2 DEF Start, StopCall, Stop, Stopped
  <2>3. ASSUME NEW s \in Submitters, SubmitStep(s) \/ \E j \in Jobs : SubmitCall(s, j)
        PROVE  FALSE
    <3>1. submitPc[s] = "idle"
      BY DEF IInv, LifecycleInv
    <3>2. QED
      BY <2>3, <3>1 DEF SubmitStep, SubmitCall, SubmitHandOff, SubmitSpawn, SubmitBuffer,
                        SubmitDefault, SubmitReject
  <2>4. ASSUME NEW w \in Workers, WorkerStep(w) \/ WorkerTick(w) PROVE workersWg' <= workersWg
    BY <2>4 DEF WorkerStep, WorkerTick, WorkerPark, WorkerReceive, WorkerClosed, DoJob,
                DoJobReturn, WorkerExpire, WorkerKeep, WorkerDone, Leave
  <2>5. QED
    BY <2>1, <2>2, <2>3, <2>4 DEF Next
<1>2. QED
  BY <1>1, PoolInvariant, PTL DEF Spec, NoAddDuringWait

(* No accepted job is lost or duplicated on its way through the pool. *)
THEOREM PoolConservesJobs == Spec => []JobConservation
<1>1. IInv => JobConservation
  BY DEF IInv
<1>2. QED
  BY <1>1, PoolInvariant, PTL

(* What is left in a pool that is reliable and whose workers are all gone. *)
LEMMA NothingLeft ==
  ASSUME IInv, ReliablePool, owner # "new", workersWg = 0
  PROVE  accepted = executed
<1>1. \A w \in Workers : workerPc[w] = "none"
  BY AliveIsAwaited DEF IInv
<1>2. HeldJobs = {}
  BY <1>1 DEF IInv, HoldInv, HeldJobs
<1>3. jobQueue = <<>>
  <2>1. numberOfCurrentWorker = 0
    BY CountersOrdered DEF IInv
  <2>2. CASE MinNumberOfWorker > 0
    BY <2>1, <2>2, NewValidatesConf DEF IInv, MinInv
  <2>3. CASE QueueSize = 0
    BY <2>3 DEF IInv, TypeOK
  <2>4. QED
    BY <2>2, <2>3 DEF ReliablePool
<1>4. Elements(jobQueue) = {}
  BY <1>3 DEF Elements
<1>5. accepted \ executed = Elements(jobQueue) \cup HeldJobs /\ executed \subseteq accepted
  BY ConservationSplit DEF IInv
<1>6. QED
  BY <1>2, <1>4, <1>5

(* A pool with a permanent worker or without a buffer has executed every      *)
(* accepted job when Stop returns.                                            *)
THEOREM PoolDrains == ASSUME ReliablePool PROVE Spec => []StopDrains
<1>1. IInv => StopDrains
  BY NothingLeft DEF IInv, LifecycleInv, StopDrains
<1>2. QED
  BY <1>1, PoolInvariant, PTL

-----------------------------------------------------------------------------
(* The refinement. *)

(* The elements of a queue are no more than its length. *)
LEMMA QueueCardinality ==
  ASSUME NEW q \in Seq(Jobs)
  PROVE  IsFiniteSet(Elements(q)) /\ Cardinality(Elements(q)) <= Len(q)
<1>1. IsFiniteSet(1 .. Len(q)) /\ Cardinality(1 .. Len(q)) = Len(q)
  <2>1. Len(q) \in Nat
    OBVIOUS
  <2>2. QED
    BY <2>1, FS_Interval
<1>2. q \in Surjection(1 .. Len(q), Elements(q))
  BY DEF Elements, Surjection
<1>3. QED
  BY <1>1, <1>2, FS_Surjection

\* The workers that hold a job.
Holders == {w \in Workers : workerPc[w] \in {"got", "busy"}}

(* Unfinished jobs are no more than buffered jobs and workers that hold one. *)
LEMMA PendingCardinality ==
  ASSUME IInv
  PROVE  /\ IsFiniteSet(accepted \ executed) /\ Cardinality(accepted \ executed) \in Nat
         /\ Cardinality(accepted \ executed) <= Len(jobQueue) + Cardinality(Holders)
<1> DEFINE held == [w \in Holders |-> workerJob[w]]
<1>1. held \in Surjection(Holders, HeldJobs)
  BY DEF IInv, TypeOK, HoldInv, Holders, HeldJobs, Surjection
<1>2. IsFiniteSet(Holders) /\ Cardinality(Holders) \in Nat
  BY WorkerSets DEF Holders
<1>3. IsFiniteSet(HeldJobs) /\ Cardinality(HeldJobs) <= Cardinality(Holders)
  BY <1>1, <1>2, FS_Surjection
<1>4. /\ IsFiniteSet(Elements(jobQueue))
      /\ Cardinality(Elements(jobQueue)) <= Len(jobQueue)
      /\ Len(jobQueue) \in Nat
  BY QueueCardinality DEF IInv, TypeOK
<1>5. accepted \ executed = Elements(jobQueue) \cup HeldJobs
  BY ConservationSplit DEF IInv
<1>6. IsFiniteSet(Elements(jobQueue) \cap HeldJobs)
  BY <1>4, FS_Subset
<1>7. /\ IsFiniteSet(accepted \ executed)
      /\ Cardinality(accepted \ executed)
           = Cardinality(Elements(jobQueue)) + Cardinality(HeldJobs)
               - Cardinality(Elements(jobQueue) \cap HeldJobs)
  BY <1>3, <1>4, <1>5, FS_Union
<1>8. /\ Cardinality(Elements(jobQueue)) \in Nat /\ Cardinality(HeldJobs) \in Nat
      /\ Cardinality(Elements(jobQueue) \cap HeldJobs) \in Nat
      /\ Cardinality(accepted \ executed) \in Nat
  BY <1>3, <1>4, <1>6, <1>7, FS_CardinalityType
<1>9. QED
  BY <1>2, <1>3, <1>4, <1>7, <1>8

(* Workers that execute hold different unfinished jobs. *)
LEMMA BusyCardinality ==
  ASSUME IInv
  PROVE  Cardinality(Counted) - Cardinality(Idle) <= Cardinality(accepted \ executed)
<1> DEFINE Busy == {w \in Workers : workerPc[w] = "busy"}
           jobs == {workerJob[w] : w \in Busy}
           job  == [w \in Busy |-> workerJob[w]]
<1>1. /\ IsFiniteSet(Busy) /\ Cardinality(Busy) \in Nat
      /\ IsFiniteSet(Idle) /\ Cardinality(Idle) \in Nat
  BY WorkerSets DEF Idle
<1>2. Counted = Idle \cup Busy /\ Idle \cap Busy = {}
  BY DEF IInv, TypeOK, WorkerStates, Counted, Idle
<1>3. Cardinality(Counted) = Cardinality(Idle) + Cardinality(Busy)
  <2> HIDE DEF Busy
  <2>1. Cardinality(Idle \cup Busy)
          = Cardinality(Idle) + Cardinality(Busy) - Cardinality(Idle \cap Busy)
    BY <1>1, FS_Union
  <2>2. Cardinality(Idle \cap Busy) = 0
    BY <1>2, FS_EmptySet
  <2>3. QED
    BY <1>1, <1>2, <2>1, <2>2
<1>4. job \in Surjection(Busy, jobs)
  BY DEF Surjection
<1>5. job \in Injection(Busy, jobs)
  BY DEF Injection, IsInjective, IInv, HoldInv, JobConservation
<1>6. Cardinality(jobs) = Cardinality(Busy)
  BY <1>1, <1>4, <1>5, FS_Surjection
<1>7. jobs \subseteq HeldJobs
  BY DEF HeldJobs, IInv, HoldInv
<1>8. jobs \subseteq accepted \ executed /\ accepted \ executed = Elements(jobQueue) \cup HeldJobs
  BY <1>7, ConservationSplit DEF IInv
<1>9. IsFiniteSet(accepted \ executed)
  BY PendingCardinality
<1>10. Cardinality(jobs) <= Cardinality(accepted \ executed)
  BY <1>8, <1>9, FS_Subset
<1>11. Cardinality(accepted \ executed) \in Nat
  BY PendingCardinality
<1>12. QED
  BY <1>1, <1>3, <1>6, <1>10, <1>11

(* The pool never tells pollers that fewer workers are available than it has  *)
(* beyond its unfinished jobs.                                                *)
THEOREM PoolAvailability == Spec => []AvailabilityHonest
<1>1. ASSUME IInv PROVE AvailabilityHonest
  BY <1>1, BusyCardinality, CountersOrdered, PendingCardinality, NewValidatesConf
     DEF IInv, CountersExact, AvailabilityHonest, NumberOfAvailableWorker
<1>2. QED
  BY <1>1, PoolInvariant, PTL

(* The holders are counted workers, and a parked worker is not one of them. *)
LEMMA HoldersCounted ==
  ASSUME IInv
  PROVE  /\ Cardinality(Holders) \in Nat /\ Cardinality(Holders) <= numberOfCurrentWorker
         /\ Parked # {} => Cardinality(Holders) < numberOfCurrentWorker
<1>1. Holders \subseteq Counted /\ Counted \in SUBSET Workers /\ Holders \in SUBSET Workers
  BY DEF Holders, Counted
<1>2. IsFiniteSet(Counted) /\ Cardinality(Counted) \in Nat /\ Cardinality(Holders) \in Nat
  BY <1>1, WorkerSets
<1>3. Cardinality(Holders) <= Cardinality(Counted)
  BY <1>1, <1>2, FS_Subset
<1>4. ASSUME NEW w \in Parked PROVE Cardinality(Holders) < Cardinality(Counted)
  <2>1. Holders \subseteq Counted \ {w} /\ w \in Counted /\ w \in Workers
        /\ Counted \ {w} \in SUBSET Workers
    BY <1>1, <1>4 DEF Holders, Counted, Parked
  <2>2. Cardinality(Counted \ {w}) = Cardinality(Counted) - 1
    BY <1>1, <2>1, WorkerLeaves
  <2>3. IsFiniteSet(Counted \ {w}) /\ Cardinality(Counted \ {w}) \in Nat
    BY <2>1, WorkerSets
  <2>4. Cardinality(Holders) <= Cardinality(Counted \ {w})
    BY <2>1, <2>3, FS_Subset
  <2>5. QED
    BY <1>2, <2>2, <2>3, <2>4
<1>5. QED
  BY <1>2, <1>3, <1>4 DEF IInv, CountersExact

(* A caller whose job is taken maps to Accept of the abstract service. *)
LEMMA AcceptRefines ==
  ASSUME IInv, NEW s \in Submitters, submitPc[s] # "idle", Accept(s),
         UNCHANGED <<lifecycle, executed>>,
         Cardinality(accepted \ executed) < MaxNumberOfWorker + QueueSize
  PROVE  \E j \in Jobs : Service!Accept(j)
<1> DEFINE j == submitJob[s]
<1>1. j \in Jobs /\ j \notin accepted
  BY AcceptOffer DEF IInv
<1>2. ServicePhase = "open" /\ ServicePhase' = ServicePhase
  BY DEF IInv, LifecycleInv, ServicePhase, lifecycle
<1>3. executed \subseteq accepted
  BY DEF IInv, JobConservation
<1>4. (accepted \ executed)' = (accepted \ executed) \cup {j} /\ executed' = executed
  BY <1>1, <1>3 DEF Accept
<1>5. Cardinality(accepted \ executed) = Service!Cardinality(accepted \ executed)
  BY Zenon DEF Cardinality, Service!Cardinality
<1>6. Service!Accept(j)
  BY <1>1, <1>2, <1>3, <1>4, <1>5 DEF Service!Accept
<1>7. QED
  BY <1>1, <1>6

(* A new pool is a new service. *)
LEMMA RefinementInit == Init => Service!Init
BY DEF Init, Service!Init, ServicePhase

(* A step of the pool is a step of the service, or changes nothing it can see. *)
LEMMA RefinementStep ==
  ASSUME ReliablePool
  PROVE  IInv /\ [Next]_vars => [Service!Next]_(Service!svars)
<1> SUFFICES ASSUME IInv, [Next]_vars PROVE Service!Next \/ UNCHANGED Service!svars
  OBVIOUS
<1> USE DEF lifecycle, counters, workers, submits
<1>quiet. ASSUME UNCHANGED <<owner, accepted, executed>> PROVE UNCHANGED Service!svars
  BY <1>quiet DEF Service!svars, ServicePhase
<1>1. CASE Start
  BY <1>1 DEF Start, ServicePhase, Service!Next, Service!Open
<1>2. CASE StopCall
  BY <1>2 DEF StopCall, ServicePhase, Service!svars
<1>3. CASE Stop
  BY <1>3 DEF Stop, ServicePhase, Service!Next, Service!Drain
<1>4. CASE StopReturn
  <2>1. accepted = executed
    BY <1>4, NothingLeft DEF StopReturn
  <2>2. ServicePhase = "draining" /\ ServicePhase' = "closed"
    BY <1>4 DEF StopReturn, ServicePhase
  <2>3. Service!Close
    BY <1>4, <2>1, <2>2 DEF StopReturn, Service!Close
  <2>4. QED
    BY <2>3 DEF Service!Next
<1>5. CASE Run \/ Stopped \/ UNCHANGED vars
  BY <1>5, <1>quiet DEF Run, Stopped, vars
<1>6. ASSUME NEW s \in Submitters, NEW j \in Jobs, SubmitCall(s, j)
      PROVE  UNCHANGED Service!svars
  BY <1>6, <1>quiet DEF SubmitCall
<1>7. ASSUME NEW s \in Submitters, SubmitStep(s)
      PROVE  Service!Next \/ UNCHANGED Service!svars
  <2> USE NewValidatesConf, PendingCardinality, HoldersCounted DEF IInv, TypeOK, MaxInv
  <2>1. ASSUME NEW w \in Workers, SubmitHandOff(s, w) PROVE \E j \in Jobs : Service!Accept(j)
    <3>1. Cardinality(accepted \ executed) < MaxNumberOfWorker + QueueSize
      BY <2>1 DEF SubmitHandOff
    <3>2. QED
      BY <2>1, <3>1, AcceptRefines DEF SubmitHandOff
  <2>2. ASSUME NEW w \in Workers, SubmitSpawn(s, w) PROVE \E j \in Jobs : Service!Accept(j)
    <3>1. Cardinality(accepted \ executed) < MaxNumberOfWorker + QueueSize
      BY <2>2 DEF SubmitSpawn
    <3>2. QED
      BY <2>2, <3>1, AcceptRefines DEF SubmitSpawn
  <2>3. ASSUME SubmitBuffer(s) PROVE \E j \in Jobs : Service!Accept(j)
    <3>1. Cardinality(accepted \ executed) < MaxNumberOfWorker + QueueSize
      BY <2>3 DEF SubmitBuffer, HasRoom
    <3>2. QED
      BY <2>3, <3>1, AcceptRefines DEF SubmitBuffer
  <2>4. CASE SubmitDefault(s) \/ SubmitReject(s)
    BY <2>4, <1>quiet DEF SubmitDefault, SubmitReject
  <2>5. QED
    BY <1>7, <2>1, <2>2, <2>3, <2>4 DEF SubmitStep, Service!Next
<1>8. ASSUME NEW w \in Workers, WorkerStep(w) \/ WorkerTick(w)
      PROVE  Service!Next \/ UNCHANGED Service!svars
  <2>1. CASE DoJobReturn(w)
    <3> DEFINE j == workerJob[w]
    <3>1. j \in HeldJobs /\ j \in Jobs
      BY <2>1 DEF DoJobReturn, IInv, TypeOK, HoldInv, HeldJobs
    <3>2. j \in accepted \ executed
      BY <3>1, ConservationSplit DEF IInv
    <3>3. /\ (accepted \ executed)' = (accepted \ executed) \ {j}
          /\ executed' = executed \cup {j} /\ ServicePhase' = ServicePhase
      BY <2>1 DEF DoJobReturn, ServicePhase
    <3>4. Service!Finish(j)
      BY <3>2, <3>3 DEF Service!Finish
    <3>5. QED
      BY <3>1, <3>4 DEF Service!Next
  <2>2. CASE ~DoJobReturn(w)
    BY <1>8, <2>2, <1>quiet DEF WorkerStep, WorkerTick, WorkerPark, WorkerReceive,
                                WorkerClosed, DoJob, WorkerExpire, WorkerKeep, WorkerDone, Leave
  <2>3. QED
    BY <2>1, <2>2
<1>9. QED
  BY <1>1, <1>2, <1>3, <1>4, <1>5, <1>6, <1>7, <1>8 DEF Next

(* The safety part of the refinement: a reliable pool does only what          *)
(* JobService allows - it accepts only while open and below its capacity,     *)
(* executes an accepted job once, and closes only when nothing is left.       *)
THEOREM PoolImplementsJobService == ASSUME ReliablePool PROVE Spec => Service!Spec
<1>1. IInv /\ [Next]_vars => [Service!Next]_(Service!svars)
  BY RefinementStep
<1>2. QED
  BY <1>1, RefinementInit, PoolInvariant, PTL DEF Spec, Service!Spec

-----------------------------------------------------------------------------
(* Stop is never stuck *)

\* A caller of Submit, and a worker, with a step to take that is not a tick of the keep-alive ticker.
SubmitReady(s) ==
  \/ submitPc[s] = "select"
  \/ submitPc[s] = "full" /\ \/ numberOfCurrentWorker >= MaxNumberOfWorker
                             \/ \E w \in Workers : workerPc[w] = "none"
WorkerReady(w) ==
  \/ workerPc[w] \in {"got", "loop", "ticked", "busy", "leaving"}
  \/ workerPc[w] = "parked" /\ jobQueueClosed /\ jobQueue = <<>>

(* From the call of Stop to its return somebody can go on: Stop itself, the   *)
(* goroutine of func run, a caller of Submit or a worker.  They do not all    *)
(* wait for each other.                                                       *)
StopGoesOn == owner \in {"stopLock", "stopping"} =>
  \/ owner = "stopLock" /\ CanLock /\ isRunning
  \/ owner = "stopping" /\ workersWg = 0
  \/ runPc = "waiting" /\ quit
  \/ \E s \in Submitters : SubmitReady(s)
  \/ \E w \in Workers : WorkerReady(w)

\* func run is there until it has closed jobQueue, and nobody is blocked in a select that has a job.
ParkInv ==
  /\ owner # "new" /\ ~jobQueueClosed => runPc = "waiting"
  /\ \A w \in Workers : workerPc[w] = "parked" => jobQueue = <<>>

LEMMA ParkStep == TypeOK /\ HoldInv /\ ParkInv /\ [Next]_vars => ParkInv'
<1>. SUFFICES ASSUME TypeOK, HoldInv, ParkInv, [Next]_vars PROVE ParkInv'
  OBVIOUS
<1>. USE DEF TypeOK, HoldInv, ParkInv, WorkerStates, lifecycle, counters, workers, submits
<1>1. CASE Start
  BY <1>1 DEF Start
<1>2. CASE StopCall \/ Stop \/ StopReturn \/ Run
  BY <1>2 DEF StopCall, Stop, StopReturn, Run
<1>3. CASE Stopped \/ UNCHANGED vars
  BY <1>3 DEF Stopped, vars
<1>4. ASSUME NEW s \in Submitters, NEW j \in Jobs, SubmitCall(s, j) PROVE ParkInv'
  BY <1>4 DEF SubmitCall
<1>5. ASSUME NEW s \in Submitters, SubmitStep(s) PROVE ParkInv'
  <2>1. ASSUME NEW w \in Workers, SubmitHandOff(s, w) \/ SubmitSpawn(s, w) PROVE ParkInv'
    BY <2>1 DEF SubmitHandOff, SubmitSpawn, Accept
  <2>2. CASE SubmitBuffer(s)
    BY <2>2 DEF SubmitBuffer, Accept, Parked
  <2>3. CASE SubmitDefault(s) \/ SubmitReject(s)
    BY <2>3 DEF SubmitDefault, SubmitReject
  <2>. QED BY <1>5, <2>1, <2>2, <2>3 DEF SubmitStep
<1>6. ASSUME NEW w \in Workers, WorkerReceive(w) PROVE ParkInv'
  <2>1. \A v \in Workers : workerPc[v] # "parked"
    BY <1>6 DEF WorkerReceive
  <2>2. \A v \in Workers : workerPc'[v] # "parked"
    BY <1>6, <2>1 DEF WorkerReceive
  <2>. QED BY <1>6, <2>2 DEF WorkerReceive
<1>7. ASSUME NEW w \in Workers, (WorkerStep(w) /\ ~WorkerReceive(w)) \/ WorkerTick(w) PROVE ParkInv'
  BY <1>7 DEF WorkerStep, WorkerPark, WorkerClosed, DoJob, DoJobReturn, WorkerExpire, WorkerKeep, WorkerDone,
              WorkerTick, Leave
<1>8. ASSUME NEW w \in Workers, WorkerStep(w) \/ WorkerTick(w) PROVE ParkInv'
  BY <1>6, <1>7, <1>8
<1>. QED BY <1>1, <1>2, <1>3, <1>4, <1>5, <1>8 DEF Next

(* Stop waits for callers of Submit, these for nobody; then for workers that  *)
(* are blocked only until func run has closed jobQueue, which waits for       *)
(* nobody either.  (The identities in Workers must be enough for the          *)
(* configured maximum; the program always finds a new goroutine.)             *)
THEOREM PoolStopGoesOn ==
  ASSUME MaxNumberOfWorker <= Cardinality(Workers)
  PROVE  Spec => []StopGoesOn
<1>1. Init => ParkInv
  BY DEF Init, ParkInv
<1>2. IInv /\ ParkInv /\ [Next]_vars => ParkInv'
  BY ParkStep DEF IInv
<1>3. IInv /\ ParkInv => StopGoesOn
  <2>. SUFFICES ASSUME IInv, ParkInv, owner \in {"stopLock", "stopping"},
                       ~(owner = "stopLock" /\ CanLock /\ isRunning), ~(owner = "stopping" /\ workersWg = 0),
                       ~(runPc = "waiting" /\ quit)
       PROVE  (\E s \in Submitters : SubmitReady(s)) \/ (\E w \in Workers : WorkerReady(w))
    BY DEF StopGoesOn
  <2>1. CASE owner = "stopping"
    <3>1. quit /\ Cardinality(Alive) # 0
      BY <2>1 DEF IInv, LifecycleInv, CountersExact
    <3>2. PICK w \in Workers : workerPc[w] # "none"
      <4>1. Alive # {}
        BY <3>1, FS_EmptySet
      <4>. QED BY <4>1 DEF Alive
    <3>3. jobQueueClosed
      BY <2>1, <3>1 DEF ParkInv, IInv, TypeOK
    <3>4. WorkerReady(w)
      BY <3>2, <3>3 DEF WorkerReady, ParkInv, IInv, TypeOK, WorkerStates
    <3>. QED BY <3>4
  <2>2. CASE owner = "stopLock"
    <3>1. isRunning
      BY <2>2 DEF IInv, LifecycleInv
    <3>2. PICK s \in Submitters : submitPc[s] # "idle"
      BY <2>2, <3>1 DEF CanLock
    <3>3. CASE SubmitReady(s)
      BY <3>3
    <3>4. CASE ~SubmitReady(s)
      <4>1. numberOfCurrentWorker < MaxNumberOfWorker /\ \A w \in Workers : workerPc[w] # "none"
        BY <3>2, <3>4, NewValidatesConf DEF SubmitReady, IInv, TypeOK
      <4>2. Cardinality(Counted) < Cardinality(Workers)
        <5>1. Cardinality(Workers) \in Nat /\ Cardinality(Counted) \in Nat
          BY WorkerSets DEF Counted
        <5>. QED BY <4>1, <5>1, NewValidatesConf DEF IInv, CountersExact
      <4>3. PICK w \in Workers : w \notin Counted
        <5>1. Counted # Workers
          <6>1. Cardinality(Workers) \in Nat
            BY WorkerSets
          <6>. QED BY <4>2, <6>1
        <5>. QED BY <5>1 DEF Counted
      <4>4. workerPc[w] = "leaving"
        BY <4>1, <4>3 DEF Counted
      <4>. QED BY <4>4 DEF WorkerReady
    <3>. QED BY <3>3, <3>4
  <2>. QED BY <2>1, <2>2
<1>. QED BY <1>1, <1>2, <1>3, PoolInvariant, PTL DEF Spec
=============================================================================
