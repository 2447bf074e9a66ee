---------------------------- MODULE ProcessorProofs ----------------------------
(***************************************************************************)
(* Theorems about the processor, by itself (Spec) and inside the Windows   *)
(* service (ServiceSpec), for any set of queues and any number of jobs.    *)
(* The checked invariants speak of pollers, pool and repositories; whether *)
(* a step may touch these depends on where four goroutines are, so the     *)
(* inductive invariant first says which of their places go together.       *)
(***************************************************************************)
EXTENDS JecService, FiniteSetTheorems, TLAPS

(* startStopMu in terms of what it protects: until Start has returned func    *)
(* run does not exist and Stop has not begun, quit is closed by Stop only.    *)
LifeInv ==
  /\ startPc # "returned" => runPc = "off" /\ ~isRunning
  /\ startPc = "returned" => runPc # "off"
  /\ quit <=> stopPc \in {"wait", "pool", "remove", "returned"}
  /\ stopPc \in {"wait", "pool", "remove"} => isRunning
  /\ quit => startPc = "returned"
  /\ startPc \in {"new", "token", "download"} => pullPc = "off"

(* The wait group counts func run and the goroutine that pulls; once Stop has *)
(* passed Wait, neither is left.                                              *)
WaitGroupInv ==
  /\ isRunningWg = (IF runPc \in {"off", "done"} THEN 0 ELSE 1)
                   + (IF pullPc \in {"select", "pull"} THEN 1 ELSE 0)
  /\ stopPc \in {"pool", "remove", "returned"} => isRunningWg = 0

(* The state of the pool and of the repositories follows Start and Stop; a    *)
(* job exists only while the pool is open or draining.                        *)
PoolInv ==
  /\ pool = CASE startPc \notin {"refresh", "returned"} -> "new"
              [] startPc \in {"refresh", "returned"} /\ stopPc = "pool" -> "draining"
              [] startPc \in {"refresh", "returned"} /\ stopPc \in {"remove", "returned"} -> "closed"
              [] OTHER -> "open"
  /\ jobs > 0 => pool \in {"open", "draining"}
  /\ gitActions /\ startPc \in {"pool", "refresh", "returned"} /\ stopPc # "returned"
       => repositories = "cloned"

(* A token has been received and its queues not all been visited. *)
Visiting == startPc \in {"download", "pool", "refresh"} \/ runPc = "refresh"

(* refreshPollers: the pollers settled so far are those of the queues visited *)
(* so far, except the ones that could not be added; the others are still in   *)
(* pollerKeys.  A poller that is being stopped has left the map.              *)
VisitInv ==
  /\ pollerKeys \subseteq pollers
  /\ \A q \in Queues :
       /\ q \in pollers /\ q \notin pollerKeys <=> q \in token /\ q \notin todo /\ q \notin notAdded
       /\ q \in running <=> q \in pollers \/ q \in closing
       /\ ~(q \in closing /\ q \in pollers) /\ ~(q \in notAdded /\ q \in todo)
  /\ closing # {} => todo = {}
  /\ \A q, r \in closing : q = r

RefreshInv ==
  /\ startPc \in {"new", "token", "download", "pool"} => running = {} /\ pollers = {}
  /\ Visiting => VisitInv
  /\ runPc \in {"start", "select", "token"} =>
       closing = {} /\ pollers = running /\ pollers = token \ notAdded
  /\ runPc = "stopping" => running \subseteq pollers
  /\ runPc = "done" => running = {}

(* The process ends without error only when every goroutine but the senders   *)
(* has returned, and by a panic only if a refresh period was not positive     *)
(* (the safety part of StopCompletes).                                        *)
CleanExit ==
  /\ exit = "0" => jobs = 0 /\ running = {} /\ isRunningWg = 0
  /\ exit = "2" => zeroPeriods # {}

IInv ==
  /\ TypeOK /\ LifeInv /\ WaitGroupInv /\ PoolInv /\ RefreshInv /\ CleanExit

-----------------------------------------------------------------------------
\* At most one poller is stopped at a time.
LEMMA OneClosing == Cardinality({}) = 0 /\ \A q : Cardinality({q}) = 1
BY FS_EmptySet, FS_Singleton

\* NewProcessor establishes the invariant, before and after main begins.
LEMMA InvInit == NewProcessor /\ exit \in {"off", "no"} => IInv
<1>. SUFFICES ASSUME NewProcessor, exit \in {"off", "no"} PROVE IInv
  OBVIOUS
<1>1. TypeOK
  <2>1. isRunning \in BOOLEAN /\ quit \in BOOLEAN /\ gitActions \in BOOLEAN
    BY DEF NewProcessor
  <2>. QED BY <2>1, OneClosing, ProcessorAssumption DEF NewProcessor, TypeOK, Periods
<1>2. LifeInv /\ WaitGroupInv /\ PoolInv /\ RefreshInv /\ CleanExit
  BY DEF NewProcessor, LifeInv, WaitGroupInv, PoolInv, RefreshInv, VisitInv, Visiting, CleanExit
<1>. QED BY <1>1, <1>2 DEF IInv, NewProcessor

(* Start. *)
LEMMA StartStepInv ==
  ASSUME IInv, exit = "no", StartStep
  PROVE  IInv'
<1>. USE ProcessorAssumption
     DEF IInv, TypeOK, LifeInv, WaitGroupInv, PoolInv, RefreshInv, VisitInv, Visiting, CleanExit,
         threads, flags, map, refresh, work
<1>1. CASE StartCall
  BY <1>1 DEF StartCall
<1>2. CASE StartToken
  BY <1>2 DEF StartToken, ReceiveToken, Periods
<1>3. CASE StartFails
  BY <1>3 DEF StartFails
<1>4. CASE Download
  BY <1>4 DEF Download
<1>5. CASE PoolStart
  BY <1>5 DEF PoolStart
<1>6. CASE StartReturn
  BY <1>6 DEF StartReturn, PollersRefreshed
<1>. QED BY <1>1, <1>2, <1>3, <1>4, <1>5, <1>6 DEF StartStep

(* A step that leaves threads, flags, pool, jobs and repositories alone and   *)
(* does not end the process can only disturb TypeOK and RefreshInv.           *)
LEMMA PollersOnly ==
  ASSUME IInv, exit = "no", UNCHANGED <<gitActions, threads, flags, work, exit>>, TypeOK', RefreshInv'
  PROVE  IInv'
BY DEF IInv, LifeInv, WaitGroupInv, PoolInv, CleanExit, threads, flags, work

(* While refreshPollers runs, of RefreshInv only VisitInv matters. *)
LEMMA VisitOnly ==
  ASSUME IInv, Refreshing
  PROVE  /\ VisitInv /\ todo \subseteq token
         /\ UNCHANGED threads /\ VisitInv' => RefreshInv'
BY DEF IInv, TypeOK, LifeInv, RefreshInv, Refreshing, Visiting, threads

(* refreshPollers, the goroutine of a poller, and the loop that stops them. *)
LEMMA PollerStepInv ==
  ASSUME IInv, exit = "no", NEW q \in Queues,
         RefreshStep(q) \/ StopPoller(q) \/ PollerEnds(q) \/ Submit(q)
  PROVE  IInv'
<1>. USE OneClosing
<1>0. Refreshing => VisitInv
  BY VisitOnly
<1>1. CASE RefreshPoller(q)
  <2>1. TypeOK'
    BY <1>1, <1>0 DEF RefreshPoller, IInv, TypeOK, VisitInv, threads, flags, map, refresh, work
  <2>2. VisitInv'
    BY <1>1, <1>0 DEF RefreshPoller, IInv, TypeOK, VisitInv, map
  <2>3. UNCHANGED <<gitActions, threads, flags, work, exit>> /\ Refreshing
    BY <1>1 DEF RefreshPoller
  <2>. QED BY <2>1, <2>2, <2>3, PollersOnly, VisitOnly
<1>2. CASE AddPoller(q)
  <2>1. TypeOK'
    BY <1>2, <1>0 DEF AddPoller, IInv, TypeOK, VisitInv, threads, flags, map, refresh, work
  <2>2. VisitInv'
    BY <1>2, <1>0 DEF AddPoller, IInv, TypeOK, VisitInv, map
  <2>3. UNCHANGED <<gitActions, threads, flags, work, exit>> /\ Refreshing
    BY <1>2 DEF AddPoller
  <2>. QED BY <2>1, <2>2, <2>3, PollersOnly, VisitOnly
<1>3. CASE AddPollerFails(q)
  <2>1. TypeOK'
    BY <1>3, <1>0 DEF AddPollerFails, IInv, TypeOK, VisitInv, threads, flags, map, refresh, work
  <2>2. VisitInv'
    BY <1>3, <1>0 DEF AddPollerFails, IInv, TypeOK, VisitInv, map
  <2>3. UNCHANGED <<gitActions, threads, flags, work, exit>> /\ Refreshing
    BY <1>3 DEF AddPollerFails
  <2>. QED BY <2>1, <2>2, <2>3, PollersOnly, VisitOnly
<1>4. CASE RemovePoller(q)
  <2>1. TypeOK'
    BY <1>4, <1>0 DEF RemovePoller, IInv, TypeOK, VisitInv, threads, flags, map, refresh, work
  <2>2. VisitInv'
    BY <1>4, <1>0 DEF RemovePoller, IInv, TypeOK, VisitInv, map
  <2>3. UNCHANGED <<gitActions, threads, flags, work, exit>> /\ Refreshing
    BY <1>4 DEF RemovePoller
  <2>. QED BY <2>1, <2>2, <2>3, PollersOnly, VisitOnly
<1>5. CASE StopPoller(q)
  <2>1. TypeOK'
    BY <1>5, OneClosing DEF StopPoller, IInv, TypeOK, threads, flags, map, refresh, work
  <2>2. RefreshInv'
    BY <1>5 DEF StopPoller, IInv, TypeOK, LifeInv, RefreshInv, Visiting, threads
  <2>. QED BY <1>5, <2>1, <2>2, PollersOnly DEF StopPoller
<1>6. CASE PollerEnds(q)
  <2>1. TypeOK'
    BY <1>6 DEF PollerEnds, IInv, TypeOK, threads, flags, map, refresh, work
  <2>2. Visiting => VisitInv'
    <3>1. Visiting => closing = {q}
      BY <1>6 DEF PollerEnds, IInv, TypeOK, RefreshInv, VisitInv
    <3>. QED BY <1>6, <3>1 DEF PollerEnds, IInv, TypeOK, RefreshInv, VisitInv, refresh
  <2>3. RefreshInv'
    BY <1>6, <2>2 DEF PollerEnds, IInv, TypeOK, RefreshInv, Visiting, threads, refresh
  <2>. QED BY <1>6, <2>1, <2>3, PollersOnly DEF PollerEnds
<1>7. CASE Submit(q)
  BY <1>7, ProcessorAssumption
     DEF Submit, IInv, TypeOK, LifeInv, WaitGroupInv, PoolInv, RefreshInv, VisitInv, Visiting, CleanExit,
         threads, flags, map, refresh
<1>. QED BY <1>1, <1>2, <1>3, <1>4, <1>5, <1>6, <1>7 DEF RefreshStep

(* func run and the goroutine that pulls. *)
LEMMA RunStepInv ==
  ASSUME IInv, exit = "no", RunStep \/ RunTick \/ RunQuit \/ PullTick \/ PullAll \/ PullQuit
  PROVE  IInv'
<1>. USE ProcessorAssumption
     DEF IInv, TypeOK, LifeInv, WaitGroupInv, PoolInv, RefreshInv, VisitInv, Visiting, CleanExit,
         threads, flags, map, refresh, work
<1>1. CASE RunStart
  BY <1>1 DEF RunStart, NewTicker
<1>2. CASE RunToken
  BY <1>2 DEF RunToken, ReceiveToken, Periods
<1>3. CASE RunTokenFails
  BY <1>3 DEF RunTokenFails, NewTicker
<1>4. CASE RunRefreshed
  BY <1>4 DEF RunRefreshed, PollersRefreshed, NewTicker
<1>5. CASE RunDone
  BY <1>5 DEF RunDone
<1>6. CASE RunTick
  BY <1>6 DEF RunTick
<1>7. CASE RunQuit
  BY <1>7 DEF RunQuit
<1>8. CASE PullTick \/ PullAll
  BY <1>8 DEF PullTick, PullAll
<1>9. CASE PullQuit
  BY <1>9 DEF PullQuit
<1>. QED BY <1>1, <1>2, <1>3, <1>4, <1>5, <1>6, <1>7, <1>8, <1>9 DEF RunStep

(* main with Stop, and the jobs with their senders. *)
LEMMA StopStepInv ==
  ASSUME IInv, exit = "no", Signal \/ StopStep \/ FinishJob \/ SendResult
  PROVE  IInv'
<1>. USE ProcessorAssumption
     DEF IInv, TypeOK, LifeInv, WaitGroupInv, PoolInv, RefreshInv, VisitInv, Visiting, CleanExit,
         threads, flags, map, refresh, work
<1>1. CASE Signal
  BY <1>1 DEF Signal
<1>2. CASE StopFails
  BY <1>2 DEF StopFails
<1>3. CASE Stop
  BY <1>3 DEF Stop, CanLock
<1>4. CASE PoolStop
  BY <1>4 DEF PoolStop, AllDone
<1>5. CASE PoolStopped
  BY <1>5 DEF PoolStopped
<1>6. CASE RemoveAll
  <2>1. TypeOK'
    BY <1>6 DEF RemoveAll
  <2>2. LifeInv' /\ WaitGroupInv' /\ RefreshInv' /\ CleanExit'
    BY <1>6 DEF RemoveAll
  <2>3. PoolInv'
    BY <1>6 DEF RemoveAll
  <2>. QED BY <2>1, <2>2, <2>3 DEF IInv
<1>7. CASE Exit
  BY <1>7 DEF Exit
<1>8. CASE FinishJob
  BY <1>8 DEF FinishJob
<1>9. CASE SendResult
  BY <1>9 DEF SendResult
<1>. QED BY <1>1, <1>2, <1>3, <1>4, <1>5, <1>6, <1>7, <1>8, <1>9 DEF StopStep

\* A step that changes nothing.
LEMMA StutterInv == ASSUME IInv, UNCHANGED vars PROVE IInv'
BY DEF IInv, TypeOK, LifeInv, WaitGroupInv, PoolInv, RefreshInv, VisitInv, Visiting, CleanExit,
       vars, threads, flags, map, refresh, work

\* Every step of the process.
LEMMA NextInv == ASSUME IInv, [Next]_vars PROVE IInv'
BY StartStepInv, PollerStepInv, RunStepInv, StopStepInv, StutterInv DEF Next

(* Every step of the service: it creates the process, sends it the signal, or *)
(* leaves it alone.                                                           *)
LEMMA ServiceNextInv == ASSUME IInv, [ServiceNext]_allVars PROVE IInv'
<1>1. CASE RunnerCreates
  BY <1>1 DEF RunnerCreates, IInv, TypeOK, LifeInv, WaitGroupInv, PoolInv, RefreshInv, VisitInv,
              Visiting, CleanExit, threads, flags, map, refresh, work
<1>2. CASE StopCtrlC
  BY <1>2 DEF StopCtrlC, IInv, TypeOK, LifeInv, WaitGroupInv, PoolInv, RefreshInv, VisitInv,
              Visiting, CleanExit, threads, flags, map, refresh, work
<1>3. CASE UNCHANGED vars \/ Next
  BY <1>3, NextInv
<1>. QED BY <1>1, <1>2, <1>3
  DEF ServiceNext, allVars, ControlStart, ControlStop, ServiceStep, ServiceStart, RunnerWaits,
      RunnerWaited, RunnerStops, RunnerFails, ServiceStop, StopEnded, StopCtrlCFails, StopPanics

-----------------------------------------------------------------------------
\* The checked invariants follow.
LEMMA InvImplies == ASSUME IInv PROVE PollersMatchToken /\ OrderlyStop
<1>1. PollersMatchToken
  <2>1. CASE Visiting
    BY <2>1 DEF IInv, TypeOK, LifeInv, RefreshInv, VisitInv, Visiting, PollersMatchToken
  <2>2. CASE ~Visiting
    BY <2>2 DEF IInv, TypeOK, LifeInv, RefreshInv, Visiting, PollersMatchToken
  <2>. QED BY <2>1, <2>2
<1>2. OrderlyStop
  BY DEF IInv, TypeOK, LifeInv, WaitGroupInv, PoolInv, RefreshInv, OrderlyStop
<1>. QED BY <1>1, <1>2

\* The inductive invariant holds in every reachable state of the process ...
THEOREM ProcessorInvariant == Spec => []IInv
<1>1. Init => IInv
  BY InvInit DEF Init
<1>. QED BY <1>1, NextInv, PTL DEF Spec

\* ... and of the process inside the service.
THEOREM ServiceInvariant == ServiceSpec => []IInv
<1>1. ServiceInit => IInv
  BY InvInit DEF ServiceInit
<1>. QED BY <1>1, ServiceNextInv, PTL DEF ServiceSpec

\* The processor's variables keep their types, whoever runs it.
THEOREM ProcessorTypes == (Spec => []TypeOK) /\ (ServiceSpec => []TypeOK)
BY ProcessorInvariant, ServiceInvariant, PTL DEF IInv

(* Whatever tokens list and whichever pollers cannot be added, between two    *)
(* refreshes a poller runs for exactly the queues of the last token, and no   *)
(* poller runs that the processor has lost sight of.                          *)
THEOREM ProcessorPollers == (Spec => []PollersMatchToken) /\ (ServiceSpec => []PollersMatchToken)
BY ProcessorInvariant, ServiceInvariant, InvImplies, PTL

(* Whenever the signal comes, the pool is stopped after the last poller, and  *)
(* the repositories are there as long as a script runs.                       *)
THEOREM ProcessorOrderlyStop == (Spec => []OrderlyStop) /\ (ServiceSpec => []OrderlyStop)
BY ProcessorInvariant, ServiceInvariant, InvImplies, PTL

\* Exit code 0 means that everything but the senders has ended.
THEOREM ProcessorCleanExit == (Spec => []CleanExit) /\ (ServiceSpec => []CleanExit)
BY ProcessorInvariant, ServiceInvariant, PTL DEF IInv

-----------------------------------------------------------------------------
(* Stop is never stuck *)

\* The goroutine inside refreshPollers: a queue to visit, a poller to stop or that ends, or the end.
RefreshReady ==
  Refreshing /\ \/ \E q \in Queues : q \in todo \/ q \in closing
                \/ todo = {} /\ closing = {} /\ \E q \in Queues : q \in pollerKeys
                \/ todo = {} /\ closing = {} /\ pollerKeys = {}

\* func run, other than by a tick.
RunReady ==
  \/ runPc \in {"start", "token"} \/ (runPc = "select" /\ quit)
  \/ runPc = "stopping" /\ \/ \E q \in Queues : q \in closing
                           \/ closing = {} /\ \E q \in Queues : q \in pollers \cap running
                           \/ closing = {} /\ pollers \cap running = {}

PullReady == pullPc = "pull" \/ (pullPc = "select" /\ quit)

StartReady == (startPc = "new" /\ CanLock /\ ~isRunning) \/ startPc \in {"token", "download", "pool"}

StopReady ==
  \/ stopPc = "signal" /\ CanLock
  \/ stopPc = "wait" /\ AllDone
  \/ stopPc = "pool" /\ jobs = 0
  \/ stopPc \in {"remove", "returned"}

(* From the signal to the end of the process somebody can go on, and not just *)
(* because a ticker fires: whoever Stop waits for - Start, which holds        *)
(* startStopMu, func run, the goroutine that pulls, a poller, a job - waits   *)
(* for nobody who waits for Stop.                                             *)
StopGoesOn ==
  exit = "no" /\ stopPc # "off" =>
    StopReady \/ StartReady \/ RefreshReady \/ RunReady \/ PullReady \/ jobs > 0

LEMMA InvGoesOn == IInv => StopGoesOn
<1>. SUFFICES ASSUME IInv, exit = "no", stopPc # "off"
     PROVE  StopReady \/ StartReady \/ RefreshReady \/ RunReady \/ PullReady \/ jobs > 0
  BY DEF StopGoesOn
<1>. USE DEF IInv, TypeOK
<1>1. todo \subseteq Queues /\ closing \subseteq Queues /\ pollerKeys \subseteq Queues /\ pollers \subseteq Queues
  OBVIOUS
<1>2. Refreshing => RefreshReady
  BY <1>1 DEF RefreshReady
<1>3. runPc = "stopping" => RunReady
  BY <1>1 DEF RunReady
<1>4. CASE stopPc = "signal"
  <2>1. startPc = "refresh" => Refreshing
    BY DEF Refreshing
  <2>2. CanLock => StopReady
    BY <1>4 DEF StopReady
  <2>3. startPc \in {"new", "returned"} => CanLock
    BY <1>4 DEF CanLock
  <2>4. startPc \in {"token", "download", "pool"} => StartReady
    BY DEF StartReady
  <2>5. startPc \in {"new", "token", "download", "pool", "refresh", "returned"}
    OBVIOUS
  <2>. QED BY <1>2, <2>1, <2>2, <2>3, <2>4, <2>5
<1>5. CASE stopPc = "wait"
  <2>1. quit /\ startPc = "returned" /\ runPc # "off"
    BY <1>5 DEF LifeInv
  <2>2. CASE AllDone
    BY <1>5, <2>2 DEF StopReady
  <2>3. CASE ~AllDone
    <3>1. runPc # "done" \/ pullPc \in {"select", "pull"}
      BY <2>1, <2>3 DEF AllDone, WaitGroupInv
    <3>2. runPc = "refresh" => Refreshing
      BY DEF Refreshing
    <3>. QED BY <1>2, <1>3, <2>1, <3>1, <3>2 DEF RunReady, PullReady
  <2>. QED BY <2>2, <2>3
<1>6. CASE stopPc \in {"pool", "remove", "returned"}
  BY <1>6 DEF StopReady
<1>. QED BY <1>4, <1>5, <1>6

(* main, the processor and the goroutines that it starts never all wait for   *)
(* each other while JEC is being stopped, as a program or as a service.       *)
THEOREM ProcessorStopGoesOn == (Spec => []StopGoesOn) /\ (ServiceSpec => []StopGoesOn)
BY ProcessorInvariant, ServiceInvariant, InvGoesOn, PTL

-----------------------------------------------------------------------------
(* The service and its process *)

(* What run of the Program knows of the process is true, and a Stop of the    *)
(* service that has returned, all its Windows calls having succeeded, has     *)
(* found JEC ended or has sent it the signal.                                 *)
ServiceInv ==
  /\ runnerPc \in {"off", "files", "created", "wait", "noProcess", "ended", "done"}
  /\ service \in {"off", "starting"} => runnerPc = "off"
  /\ runnerPc \in {"off", "files", "noProcess"} => exit = "off"
  /\ runnerPc \in {"created", "wait"} => exit # "off"
  /\ runnerPc = "ended" => exit \notin {"off", "no"}
  /\ runnerPc = "done" => exit # "no"
  /\ service = "stopped" /\ ctrlC # "failed" => exit \notin {"off", "no"} \/ stopPc # "off"

(* JEC is not forgotten: when the service has stopped (and no Windows call    *)
(* has failed) JEC has ended or is stopping and can go on, and when JEC has   *)
(* ended while the service runs, run of the Program has yet to notice or has  *)
(* made its request.  This is JecFollowsService but for fairness.             *)
NotForgotten ==
  /\ service = "stopped" /\ ctrlC # "failed" =>
       exit \notin {"off", "no"} \/ (stopPc # "off" /\ StopGoesOn)
  /\ exit \notin {"off", "no"} /\ service = "running" => runnerPc \in {"created", "wait", "ended", "done"}

LEMMA StopPcStays == IInv /\ Next => \/ exit # "no" /\ UNCHANGED vars
                                     \/ exit = "no" /\ exit' # "off" /\ (stopPc # "off" => stopPc' # "off")
<1>. SUFFICES ASSUME IInv, exit = "no", Next PROVE exit' # "off" /\ (stopPc # "off" => stopPc' # "off")
  BY DEF Next
<1>. USE DEF IInv, TypeOK, threads, flags, map, refresh, work
<1>1. CASE StartStep
  BY <1>1 DEF StartStep, StartCall, StartToken, StartFails, Download, PoolStart, StartReturn
<1>2. CASE RunStep \/ RunTick \/ RunQuit
  BY <1>2 DEF RunStep, RunStart, RunToken, RunTokenFails, RunRefreshed, RunDone, RunTick, RunQuit, NewTicker
<1>3. CASE PullTick \/ PullAll \/ PullQuit \/ Signal \/ FinishJob \/ SendResult
  BY <1>3 DEF PullTick, PullAll, PullQuit, Signal, FinishJob, SendResult
<1>4. CASE StopStep
  BY <1>4 DEF StopStep, StopFails, Stop, PoolStop, PoolStopped, RemoveAll, Exit
<1>5. ASSUME NEW q \in Queues, RefreshStep(q) \/ StopPoller(q) \/ PollerEnds(q) \/ Submit(q)
      PROVE  exit' # "off" /\ (stopPc # "off" => stopPc' # "off")
  BY <1>5 DEF RefreshStep, RefreshPoller, AddPoller, AddPollerFails, RemovePoller, StopPoller, PollerEnds, Submit
<1>. QED BY <1>1, <1>2, <1>3, <1>4, <1>5 DEF Next

LEMMA ServiceStepInv == IInv /\ ServiceInv /\ [ServiceNext]_allVars => ServiceInv'
<1>. SUFFICES ASSUME IInv, ServiceInv, [ServiceNext]_allVars PROVE ServiceInv'
  OBVIOUS
<1>1. CASE Next /\ UNCHANGED serviceVars
  <2>1. CASE exit # "no" /\ UNCHANGED vars
    <3>1. exit' = exit /\ stopPc' = stopPc
      BY <2>1 DEF vars, threads
    <3>. QED BY <1>1, <3>1 DEF ServiceInv, serviceVars
  <2>2. CASE exit = "no" /\ exit' # "off" /\ (stopPc # "off" => stopPc' # "off")
    BY <1>1, <2>2 DEF ServiceInv, serviceVars
  <2>. QED BY <1>1, <2>1, <2>2, StopPcStays
<1>2. CASE RunnerCreates
  BY <1>2 DEF RunnerCreates, ServiceInv
<1>3. CASE StopCtrlC
  <2>1. exit' = exit /\ service' = "stopped" /\ runnerPc' = runnerPc /\ runnerPc = "wait"
        /\ stopPc' = IF stopPc = "off" /\ exit = "no" THEN "signal" ELSE stopPc
    BY <1>3 DEF StopCtrlC
  <2>. QED BY <2>1 DEF ServiceInv
<1>4. ASSUME exit' = exit, stopPc' = stopPc,
             \/ ControlStart \/ ControlStop \/ ServiceStart \/ RunnerWaits \/ RunnerWaited \/ RunnerStops
             \/ RunnerFails \/ StopEnded \/ StopCtrlCFails \/ StopPanics \/ UNCHANGED allVars
      PROVE  ServiceInv'
  <2>1. CASE StopEnded
    BY <1>4, <2>1 DEF ServiceInv, StopEnded, ProcessEnded
  <2>2. CASE RunnerWaited \/ RunnerStops
    BY <1>4, <2>2 DEF ServiceInv, RunnerWaited, RunnerStops
  <2>3. CASE ControlStart \/ ControlStop \/ ServiceStart \/ RunnerWaits \/ RunnerFails \/ StopCtrlCFails
             \/ StopPanics \/ UNCHANGED allVars
    BY <1>4, <2>3 DEF ServiceInv, ControlStart, ControlStop, ServiceStart, RunnerWaits, RunnerFails,
                      StopCtrlCFails, StopPanics, allVars, serviceVars
  <2>. QED BY <1>4, <2>1, <2>2, <2>3
<1>5. ASSUME \/ ControlStart \/ ControlStop \/ ServiceStart \/ RunnerWaits \/ RunnerWaited \/ RunnerStops
             \/ RunnerFails \/ StopEnded \/ StopCtrlCFails \/ StopPanics \/ UNCHANGED allVars
      PROVE  exit' = exit /\ stopPc' = stopPc
  BY <1>5 DEF ControlStart, ControlStop, ServiceStart, RunnerWaits, RunnerWaited, RunnerStops, RunnerFails, StopEnded,
         StopCtrlCFails, StopPanics, allVars, vars, threads
<1>. QED BY <1>1, <1>2, <1>3, <1>4, <1>5 DEF ServiceNext, ServiceStep, ServiceStop

(* Whenever Stop of the service comes and in whatever state it finds JEC,     *)
(* neither outlives the other unnoticed.                                      *)
THEOREM ServiceNotForgotten == ServiceSpec => []NotForgotten
<1>1. ServiceInit => ServiceInv
  BY DEF ServiceInit, ServiceInv
<1>2. IInv /\ ServiceInv => NotForgotten
  <2>. SUFFICES ASSUME IInv, ServiceInv PROVE NotForgotten
    OBVIOUS
  <2>1. StopGoesOn
    BY InvGoesOn
  <2>. QED BY <2>1 DEF NotForgotten, ServiceInv
<1>. QED BY <1>1, <1>2, ServiceInvariant, ServiceStepInv, PTL DEF ServiceSpec
=============================================================================
