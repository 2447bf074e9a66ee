------------------------------ MODULE WorkerPool ------------------------------
(***************************************************************************)
(* The worker pool of JEC: src/worker_pool/worker_pool.go and worker.go.   *)
(*                                                                         *)
(* Goroutines of the model: the workers, the callers of Submit (one per    *)
(* poller), the goroutine started by Start (func run), and the owner,      *)
(* which calls Start once and then Stop once (queue/processor.go is the    *)
(* only caller and never restarts a pool).                                 *)
(*                                                                         *)
(* Locks.  startStopMu is a sync.RWMutex: Submit holds it for reading,     *)
(* Start and Stop for writing, and a waiting writer keeps new readers out. *)
(* It is not a variable: a caller inside Submit is a reader, the owner in  *)
(* state "stopLock" is a waiting writer and in "stopping" the holder.      *)
(* Every access to the two counters is one critical section of             *)
(* numberOfWorkerMu, hence one atomic step.  The calls that return an      *)
(* error without changing anything (Start of a running pool, Stop of a     *)
(* stopped one, Submit to a pool that is not running) are stuttering       *)
(* steps.  quitNow is never closed or sent on, so its cases are dead code. *)
(*                                                                         *)
(* A definition marked "Mutant" is the next definition with a plausible    *)
(* mistake; the specification does not use it.  Checking a property with   *)
(* the mutant in place shows that the property can fail.                   *)
(***************************************************************************)
EXTENDS Integers, Sequences, FiniteSets

CONSTANTS
  Jobs,           \* jobs that callers may submit
  Workers,        \* identities of worker goroutines (bounds how many exist at once)
  Submitters,     \* goroutines that call Submit
  None,           \* "no job"
  ConfMaxNumberOfWorker,  \* PoolConf as configured, before New validates it
  ConfMinNumberOfWorker,
  ConfQueueSize

\* New: configured values outside their range are replaced by defaults.
MaxNumberOfWorker ==
  IF ConfMaxNumberOfWorker <= 0 THEN 12 ELSE ConfMaxNumberOfWorker

MinNumberOfWorker ==
  LET min == IF ConfMinNumberOfWorker < 0 THEN 4 ELSE ConfMinNumberOfWorker
  IN  IF min > MaxNumberOfWorker THEN MaxNumberOfWorker ELSE min

QueueSize == IF ConfQueueSize < 0 THEN 0 ELSE ConfQueueSize

\* The two modes of Submit and of worker.work.
FixedNumberOfWorker == MinNumberOfWorker = MaxNumberOfWorker

ASSUME ConfAssumption ==
  /\ ConfMaxNumberOfWorker \in Int
  /\ ConfMinNumberOfWorker \in Int
  /\ ConfQueueSize \in Int

ASSUME IdentityAssumption ==
  /\ IsFiniteSet(Workers)
  /\ None \notin Jobs

VARIABLES
  owner,                  \* "new", "started", "stopLock", "stopping", "stopped"
  isRunning,
  quit,                   \* TRUE once the channel quit is closed
  runPc,                  \* goroutine of func run: "off", "waiting", "done"
  jobQueue,               \* contents of the channel's buffer
  jobQueueClosed,
  numberOfCurrentWorker,
  numberOfIdleWorker,
  workersWg,              \* counter of the wait group
  workerPc,               \* see WorkerStates
  workerJob,              \* the job a worker has taken and not finished
  submitPc,               \* "idle", "select" (RLock held, pool running), "full"
  submitJob,
  accepted,               \* history: jobs for which Submit returned true
  executed                \* history: jobs whose Execute has returned

lifecycle == <<owner, isRunning, quit, runPc, jobQueueClosed>>
counters  == <<numberOfCurrentWorker, numberOfIdleWorker, workersWg>>
workers   == <<workerPc, workerJob>>
submits   == <<submitPc, submitJob>>
vars == <<lifecycle, jobQueue, counters, workers, submits, accepted, executed>>

(* "none": no goroutine.  "got": holds a job, still counted as idle.        *)
(* "loop": about to evaluate the select.  "parked": blocked in the select.  *)
(* "ticked": in the case of the keep-alive ticker.  "busy": in job.Execute. *)
(* "leaving": has left the counters and not yet the wait group.             *)
WorkerStates == {"none", "got", "loop", "parked", "ticked", "busy", "leaving"}

Alive   == {w \in Workers : workerPc[w] # "none"}
Counted == {w \in Workers : workerPc[w] \notin {"none", "leaving"}}
Idle    == {w \in Workers : workerPc[w] \in {"got", "loop", "parked", "ticked"}}
Parked  == {w \in Workers : workerPc[w] = "parked"}

QueuedJobs == {jobQueue[i] : i \in DOMAIN jobQueue}

NumberOfAvailableWorker ==
  MaxNumberOfWorker - numberOfCurrentWorker + numberOfIdleWorker

-----------------------------------------------------------------------------
(* Locks of startStopMu *)

\* Mutant: Stop does not wait for the callers of Submit.
LockAtOnce == TRUE

CanLock  == \A s \in Submitters : submitPc[s] = "idle"
CanRLock == owner \notin {"stopLock", "stopping"}

(* Buffer of jobQueue *)

\* Mutant: one element more than configured.
HasRoomForOneMore == Len(jobQueue) <= QueueSize

HasRoom == Len(jobQueue) < QueueSize

-----------------------------------------------------------------------------
Init ==
  /\ owner = "new" /\ isRunning = FALSE /\ quit = FALSE /\ runPc = "off"
  /\ jobQueue = <<>> /\ jobQueueClosed = FALSE
  /\ numberOfCurrentWorker = 0 /\ numberOfIdleWorker = 0 /\ workersWg = 0
  /\ workerPc = [w \in Workers |-> "none"]
  /\ workerJob = [w \in Workers |-> None]
  /\ submitPc = [s \in Submitters |-> "idle"]
  /\ submitJob = [s \in Submitters |-> None]
  /\ accepted = {} /\ executed = {}

\* Start, addInitialWorkers included: it holds the write lock throughout.
Start ==
  /\ owner = "new" /\ CanLock /\ ~isRunning
  /\ owner' = "started" /\ isRunning' = TRUE /\ runPc' = "waiting"
  /\ \E ws \in SUBSET Workers :
       /\ Cardinality(ws) = MinNumberOfWorker
       /\ workerPc' = [w \in Workers |-> IF w \in ws THEN "loop" ELSE "none"]
  /\ numberOfCurrentWorker' = numberOfCurrentWorker + MinNumberOfWorker
  /\ numberOfIdleWorker' = numberOfIdleWorker + MinNumberOfWorker
  /\ workersWg' = workersWg + MinNumberOfWorker
  /\ UNCHANGED <<quit, jobQueue, jobQueueClosed, workerJob, submits, accepted, executed>>

\* Stop is called: from here on it waits for, or holds, the write lock.
StopCall ==
  /\ owner = "started"
  /\ owner' = "stopLock"
  /\ UNCHANGED <<isRunning, quit, runPc, jobQueueClosed, jobQueue, counters,
                 workers, submits, accepted, executed>>

\* Stop has the lock: isRunning = false; close(quit).
Stop ==
  /\ owner = "stopLock" /\ CanLock /\ isRunning
  /\ owner' = "stopping" /\ isRunning' = FALSE /\ quit' = TRUE
  /\ UNCHANGED <<runPc, jobQueueClosed, jobQueue, counters, workers, submits,
                 accepted, executed>>

\* workersWg.Wait() returns and Stop unlocks.
StopReturn ==
  /\ owner = "stopping" /\ workersWg = 0
  /\ owner' = "stopped"
  /\ UNCHANGED <<isRunning, quit, runPc, jobQueueClosed, jobQueue, counters,
                 workers, submits, accepted, executed>>

\* Mutant: func run leaves jobQueue open.
RunWithoutClose ==
  /\ runPc = "waiting" /\ quit /\ runPc' = "done"
  /\ UNCHANGED <<owner, isRunning, quit, jobQueueClosed, jobQueue, counters, workers,
                 submits, accepted, executed>>

\* func run: quit is closed, so it closes jobQueue (its last Wait changes nothing).
Run ==
  /\ runPc = "waiting" /\ quit
  /\ runPc' = "done" /\ jobQueueClosed' = TRUE
  /\ UNCHANGED <<owner, isRunning, quit, jobQueue, counters, workers, submits,
                 accepted, executed>>

-----------------------------------------------------------------------------
(* Submit *)

\* Submit(j) takes the read lock and finds the pool running.
SubmitCall(s, j) ==
  /\ submitPc[s] = "idle" /\ CanRLock /\ isRunning
  /\ j \notin accepted /\ \A t \in Submitters : submitJob[t] # j
  /\ submitPc' = [submitPc EXCEPT ![s] = "select"]
  /\ submitJob' = [submitJob EXCEPT ![s] = j]
  /\ UNCHANGED <<lifecycle, jobQueue, counters, workers, accepted, executed>>

\* The send and RUnlock: Submit returns (true, nil).
Accept(s) ==
  /\ accepted' = accepted \cup {submitJob[s]}
  /\ submitPc' = [submitPc EXCEPT ![s] = "idle"]
  /\ submitJob' = [submitJob EXCEPT ![s] = None]

\* jobQueue <- job hands the job to a worker blocked in its select.
SubmitHandOff(s, w) ==
  /\ submitPc[s] = "select" /\ w \in Parked
  /\ workerPc' = [workerPc EXCEPT ![w] = "got"]
  /\ workerJob' = [workerJob EXCEPT ![w] = submitJob[s]]
  /\ Accept(s)
  /\ UNCHANGED <<lifecycle, jobQueue, counters, executed>>

\* jobQueue <- job finds no receiver and room in the buffer.
SubmitBuffer(s) ==
  /\ submitPc[s] = "select" /\ Parked = {} /\ HasRoom
  /\ jobQueue' = Append(jobQueue, submitJob[s])
  /\ Accept(s)
  /\ UNCHANGED <<lifecycle, counters, workers, executed>>

\* The send would block: the default case, which gives up at once on a fixed pool.
SubmitDefault(s) ==
  /\ submitPc[s] = "select" /\ Parked = {} /\ ~HasRoom
  /\ submitPc' = [submitPc EXCEPT ![s] = IF FixedNumberOfWorker THEN "idle" ELSE "full"]
  /\ submitJob' = [submitJob EXCEPT ![s] = IF FixedNumberOfWorker THEN None ELSE @]
  /\ UNCHANGED <<lifecycle, jobQueue, counters, workers, accepted, executed>>

\* CompareAndIncrementCurrentWorker succeeds; workersWg.Add(1); go worker.work(job).
SubmitSpawn(s, w) ==
  /\ submitPc[s] = "full" /\ numberOfCurrentWorker < MaxNumberOfWorker
  /\ workerPc[w] = "none"
  /\ numberOfCurrentWorker' = numberOfCurrentWorker + 1
  /\ numberOfIdleWorker' = numberOfIdleWorker + 1
  /\ workersWg' = workersWg + 1
  /\ workerPc' = [workerPc EXCEPT ![w] = "got"]
  /\ workerJob' = [workerJob EXCEPT ![w] = submitJob[s]]
  /\ Accept(s)
  /\ UNCHANGED <<lifecycle, jobQueue, executed>>

\* Mutant: a job nobody took is reported as submitted.
SubmitFalselyAccepts(s) ==
  /\ submitPc[s] = "full" /\ numberOfCurrentWorker >= MaxNumberOfWorker
  /\ Accept(s)
  /\ UNCHANGED <<lifecycle, jobQueue, counters, workers, executed>>

\* CompareAndIncrementCurrentWorker fails: Submit returns (false, nil).
SubmitReject(s) ==
  /\ submitPc[s] = "full" /\ numberOfCurrentWorker >= MaxNumberOfWorker
  /\ submitPc' = [submitPc EXCEPT ![s] = "idle"]
  /\ submitJob' = [submitJob EXCEPT ![s] = None]
  /\ UNCHANGED <<lifecycle, jobQueue, counters, workers, accepted, executed>>

-----------------------------------------------------------------------------
(* worker.work *)

\* No case of the select is ready.
WorkerPark(w) ==
  /\ workerPc[w] = "loop" /\ jobQueue = <<>> /\ ~jobQueueClosed
  /\ workerPc' = [workerPc EXCEPT ![w] = "parked"]
  /\ UNCHANGED <<lifecycle, jobQueue, counters, workerJob, submits, accepted, executed>>

\* job := <-jobQueue from the buffer (a closed channel still delivers it).
WorkerReceive(w) ==
  /\ workerPc[w] = "loop" /\ jobQueue # <<>>
  /\ workerPc' = [workerPc EXCEPT ![w] = "got"]
  /\ workerJob' = [workerJob EXCEPT ![w] = Head(jobQueue)]
  /\ jobQueue' = Tail(jobQueue)
  /\ UNCHANGED <<lifecycle, counters, submits, accepted, executed>>

\* doJob: AddNumberOfIdleWorker(-1), then Execute begins.
DoJob(w) ==
  /\ workerPc[w] = "got"
  /\ workerPc' = [workerPc EXCEPT ![w] = "busy"]
  /\ numberOfIdleWorker' = numberOfIdleWorker - 1
  /\ UNCHANGED <<lifecycle, jobQueue, numberOfCurrentWorker, workersWg, workerJob,
                 submits, accepted, executed>>

\* Mutant: the worker does not count itself as idle again.
DoJobReturnStaysBusy(w) ==
  /\ workerPc[w] = "busy"
  /\ executed' = executed \cup {workerJob[w]}
  /\ workerPc' = [workerPc EXCEPT ![w] = "loop"]
  /\ workerJob' = [workerJob EXCEPT ![w] = None]
  /\ UNCHANGED <<lifecycle, jobQueue, counters, submits, accepted>>

\* Execute returns, with or without an error; deferred AddNumberOfIdleWorker(1).
DoJobReturn(w) ==
  /\ workerPc[w] = "busy"
  /\ executed' = executed \cup {workerJob[w]}
  /\ workerPc' = [workerPc EXCEPT ![w] = "loop"]
  /\ workerJob' = [workerJob EXCEPT ![w] = None]
  /\ numberOfIdleWorker' = numberOfIdleWorker + 1
  /\ UNCHANGED <<lifecycle, jobQueue, numberOfCurrentWorker, workersWg, submits, accepted>>

\* Mutant: a worker that returns stays counted as idle.
LeaveStillIdle(w) ==
  /\ numberOfCurrentWorker' = numberOfCurrentWorker - 1
  /\ workerPc' = [workerPc EXCEPT ![w] = "leaving"]
  /\ UNCHANGED <<lifecycle, jobQueue, numberOfIdleWorker, workersWg, workerJob, submits,
                 accepted, executed>>

\* AddNumberOfCurrentAndIdleWorker(-1) of a worker about to return.
Leave(w) ==
  /\ numberOfCurrentWorker' = numberOfCurrentWorker - 1
  /\ numberOfIdleWorker' = numberOfIdleWorker - 1
  /\ workerPc' = [workerPc EXCEPT ![w] = "leaving"]
  /\ UNCHANGED <<lifecycle, jobQueue, workersWg, workerJob, submits, accepted, executed>>

\* The receive yields isOpen = false.
WorkerClosed(w) ==
  /\ workerPc[w] \in {"loop", "parked"} /\ jobQueueClosed /\ jobQueue = <<>>
  /\ Leave(w)

\* case <-ticker.C: the worker no longer receives, but is still counted.
WorkerTick(w) ==
  /\ ~FixedNumberOfWorker /\ workerPc[w] \in {"loop", "parked"}
  /\ workerPc' = [workerPc EXCEPT ![w] = "ticked"]
  /\ UNCHANGED <<lifecycle, jobQueue, counters, workerJob, submits, accepted, executed>>

\* Mutant: >= instead of >, the last permanent worker returns as well.
WorkerExpireAtMinimum(w) ==
  /\ workerPc[w] = "ticked" /\ numberOfCurrentWorker >= MinNumberOfWorker
  /\ Leave(w)

\* CompareAndDecrementCurrentWorker succeeds: the worker returns.
WorkerExpire(w) ==
  /\ workerPc[w] = "ticked" /\ numberOfCurrentWorker > MinNumberOfWorker
  /\ Leave(w)

\* CompareAndDecrementCurrentWorker fails: the worker goes round the loop again.
WorkerKeep(w) ==
  /\ workerPc[w] = "ticked" /\ numberOfCurrentWorker <= MinNumberOfWorker
  /\ workerPc' = [workerPc EXCEPT ![w] = "loop"]
  /\ UNCHANGED <<lifecycle, jobQueue, counters, workerJob, submits, accepted, executed>>

\* Deferred workersWg.Done().
WorkerDone(w) ==
  /\ workerPc[w] = "leaving"
  /\ workerPc' = [workerPc EXCEPT ![w] = "none"]
  /\ workersWg' = workersWg - 1
  /\ UNCHANGED <<lifecycle, jobQueue, numberOfCurrentWorker, numberOfIdleWorker,
                 workerJob, submits, accepted, executed>>

-----------------------------------------------------------------------------
SubmitStep(s) ==
  \/ \E w \in Workers : SubmitHandOff(s, w) \/ SubmitSpawn(s, w)
  \/ SubmitBuffer(s) \/ SubmitDefault(s) \/ SubmitReject(s)

WorkerStep(w) ==
  \/ WorkerPark(w) \/ WorkerReceive(w) \/ WorkerClosed(w)
  \/ DoJob(w) \/ DoJobReturn(w)
  \/ WorkerExpire(w) \/ WorkerKeep(w) \/ WorkerDone(w)

\* Everything has returned: the only state in which nothing is left to do.
Stopped ==
  /\ owner = "stopped" /\ runPc = "done"
  /\ UNCHANGED vars

Next ==
  \/ Start \/ StopCall \/ Stop \/ StopReturn \/ Run \/ Stopped
  \/ \E s \in Submitters : SubmitStep(s) \/ \E j \in Jobs : SubmitCall(s, j)
  \/ \E w \in Workers : WorkerStep(w) \/ WorkerTick(w)

(* Go's scheduler runs every runnable goroutine; DoJobReturn stands for      *)
(* scripts that end.  A select chooses at random among its ready cases, so a *)
(* receive that is ready again and again is taken (strong fairness) even if  *)
(* the ticker keeps firing.  Nothing obliges anyone to call Submit or Stop,  *)
(* and no property relies on a ticker.                                       *)
Fairness ==
  /\ WF_vars(Start) /\ WF_vars(Stop) /\ WF_vars(StopReturn) /\ WF_vars(Run)
  /\ \A s \in Submitters : WF_vars(SubmitStep(s))
  /\ \A w \in Workers :
       WF_vars(WorkerStep(w)) /\ SF_vars(WorkerReceive(w) \/ WorkerClosed(w))

Spec == Init /\ [][Next]_vars
FairSpec == Spec /\ Fairness

-----------------------------------------------------------------------------
(* Properties *)

\* Every variable has its type.
TypeOK ==
  /\ owner \in {"new", "started", "stopLock", "stopping", "stopped"}
  /\ isRunning \in BOOLEAN /\ quit \in BOOLEAN /\ jobQueueClosed \in BOOLEAN
  /\ runPc \in {"off", "waiting", "done"}
  /\ jobQueue \in Seq(Jobs) /\ Len(jobQueue) <= QueueSize
  /\ numberOfCurrentWorker \in Int /\ numberOfIdleWorker \in Int /\ workersWg \in Int
  /\ workerPc \in [Workers -> WorkerStates]
  /\ workerJob \in [Workers -> Jobs \cup {None}]
  /\ submitPc \in [Submitters -> {"idle", "select", "full"}]
  /\ submitJob \in [Submitters -> Jobs \cup {None}]
  /\ accepted \subseteq Jobs /\ executed \subseteq Jobs

(* The two counters and the wait group, each changed by several goroutines   *)
(* in steps of their own, always agree with the goroutines that exist: a     *)
(* missed or doubled decrement on any path out of worker.work breaks it.     *)
CountersExact ==
  /\ numberOfCurrentWorker = Cardinality(Counted)
  /\ numberOfIdleWorker = Cardinality(Idle)
  /\ workersWg = Cardinality(Alive)

(* A pool never has more than MaxNumberOfWorker workers and, while it runs,   *)
(* never fewer than MinNumberOfWorker, however Submit and the keep-alive      *)
(* tickers race; so what pollers read from NumberOfAvailableWorker is a       *)
(* number of jobs between 0 and MaxNumberOfWorker.                            *)
WorkerLimits ==
  /\ numberOfCurrentWorker <= MaxNumberOfWorker
  /\ isRunning => numberOfCurrentWorker >= MinNumberOfWorker
  /\ NumberOfAvailableWorker \in 0 .. MaxNumberOfWorker

(* What pollers read from NumberOfAvailableWorker never understates: only     *)
(* busy workers are unavailable, and each holds an unfinished job of its own. *)
(* A worker that forgot to report back after a job would starve the pollers.  *)
AvailabilityHonest ==
  NumberOfAvailableWorker >= MaxNumberOfWorker - Cardinality(accepted \ executed)

(* Submit never sends on a closed channel (a panic in Go): no caller is past  *)
(* the isRunning check once func run has closed jobQueue.                     *)
NoSendOnClosedQueue ==
  jobQueueClosed => \A s \in Submitters : submitPc[s] = "idle"

(* workersWg.Add is never concurrent with the Wait of Stop (a misuse of       *)
(* sync.WaitGroup that would let Stop return while a worker starts).          *)
NoAddDuringWait == [][owner = "stopping" => workersWg' <= workersWg]_vars

(* An accepted job that has not been executed is in the buffer or held by a   *)
(* worker, in exactly one place; nothing else is there.                       *)
JobConservation ==
  /\ accepted \ executed = QueuedJobs \cup ({workerJob[w] : w \in Workers} \ {None})
  /\ executed \subseteq accepted
  /\ \A i, k \in DOMAIN jobQueue : jobQueue[i] = jobQueue[k] => i = k
  /\ \A v, w \in Workers : workerJob[v] = workerJob[w] /\ v # w => workerJob[v] = None
  /\ \A w \in Workers : workerJob[w] \notin QueuedJobs

(* When Stop has returned, every job for which Submit returned true has been  *)
(* executed (worker_pool_test.go counts exactly this).  Holds when            *)
(* ReliablePool does.                                                         *)
StopDrains == owner = "stopped" => accepted = executed

(* With no permanent worker and a buffer, a buffered job may find no worker.  *)
ReliablePool == MinNumberOfWorker > 0 \/ QueueSize = 0

(* Stop returns once it has been called, whatever the workers are doing.      *)
StopCompletes == owner = "stopLock" ~> owner = "stopped"

ServicePhase ==
  CASE owner = "new" -> "new"
    [] owner \in {"started", "stopLock"} -> "open"
    [] owner = "stopping" -> "draining"
    [] owner = "stopped" -> "closed"

Service == INSTANCE JobService WITH
  Capacity <- MaxNumberOfWorker + QueueSize,
  phase    <- ServicePhase,
  pending  <- accepted \ executed,
  done     <- executed

(* The pool implements JobService, its promise to pollers: safety (accept     *)
(* only while open and below capacity, execute once, close when drained) and  *)
(* liveness (an accepted job is executed, a stop completes).                  *)
ImplementsJobService == Service!FairSpec
=============================================================================
