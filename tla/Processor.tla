------------------------------- MODULE Processor -------------------------------
(***************************************************************************)
(* The queue processor and the main program: src/queue/processor.go and    *)
(* src/main/main.go.  Goroutines: main (waits for a signal, calls Stop,    *)
(* exits), the one that main starts for Start, func run (refreshes tokens, *)
(* adds and removes pollers), startPullingRepositories, the pollers, the   *)
(* jobs of the worker pool and the senders of their results.               *)
(*                                                                         *)
(* Pollers and pool appear as what Poller and JobService promise: a poller *)
(* that is told to stop ends after a while and may submit until then; Stop *)
(* of the pool waits for its jobs.  Repositories are cloned, pulled and    *)
(* removed as a whole.  receiveToken succeeds or fails (Retryer).          *)
(*                                                                         *)
(* Definitions marked "Mutant" are explained in WorkerPool.                *)
(***************************************************************************)
EXTENDS Integers, FiniteSets

CONSTANTS
  Queues,               \* queues that a token may list
  MaxJobs               \* bound: jobs in the pool at once, and results unsent

ASSUME ProcessorAssumption == MaxJobs \in Nat \ {0}

VARIABLES
  gitActions,           \* some action has a git source
  startPc,              \* Start: "new", "token", "download", "pool", "refresh", "returned"
  stopPc,               \* main: "off", "signal", "wait", "pool", "remove", "returned"
  runPc,                \* func run: "off", "start", "select", "token", "refresh", "stopping", "done"
  pullPc,               \* startPullingRepositories: "off", "select", "pull", "done"
  isRunning, quit, isRunningWg,
  pollers,              \* keys of the map of pollers
  running,              \* pollers whose goroutine lives
  closing,              \* the poller whose Stop is under way
  token,                \* queues of the last token received
  tokenPeriods,         \* which of its refresh periods are not positive
  zeroPeriods,          \* which of the processor's periods are not
  todo, pollerKeys,     \* refreshPollers: queues to visit, pollers not visited
  notAdded,             \* history: queues of the last token that addPoller failed for
  pool,                 \* "new", "open", "draining", "closed"
  jobs, results,        \* jobs in the pool; results being sent
  repositories,         \* "none", "cloned", "removed"
  exit                  \* "off" (not started, see JecService), "no", "0" (os.Exit), "1" (logrus.Fatalln), "2" (a panic)

threads == <<startPc, stopPc, runPc, pullPc>>
flags   == <<isRunning, quit, isRunningWg>>
map     == <<pollers, running, closing>>
refresh == <<token, tokenPeriods, todo, pollerKeys, notAdded>>
work    == <<pool, jobs, results, repositories>>
vars    == <<gitActions, threads, flags, map, refresh, zeroPeriods, work, exit>>

-----------------------------------------------------------------------------
(* NewProcessor *)

NewProcessor ==
  /\ gitActions \in BOOLEAN
  /\ startPc = "new" /\ stopPc = "off" /\ runPc = "off" /\ pullPc = "off"
  /\ isRunning = FALSE /\ quit = FALSE /\ isRunningWg = 0
  /\ pollers = {} /\ running = {} /\ closing = {}
  /\ token = {} /\ tokenPeriods = {} /\ zeroPeriods = {}
  /\ todo = {} /\ pollerKeys = {} /\ notAdded = {}
  /\ pool = "new" /\ jobs = 0 /\ results = 0 /\ repositories = "none"

Init == NewProcessor /\ exit = "no"

\* startStopMu is free.
CanLock == startPc \in {"new", "returned"} /\ stopPc \in {"off", "signal", "returned"}

-----------------------------------------------------------------------------
(* Start, in a goroutine of main *)

StartCall ==
  /\ startPc = "new" /\ CanLock /\ ~isRunning
  /\ startPc' = "token"
  /\ UNCHANGED <<gitActions, stopPc, runPc, pullPc, flags, map, refresh, zeroPeriods, work, exit>>

Periods == {"success", "error"}

\* refreshPollers will visit the queues of t.  The first one has the periods.
ReceiveToken(t) ==
  /\ token' = t /\ todo' = t /\ pollerKeys' = pollers /\ notAdded' = {}
  /\ tokenPeriods' \in IF t # {} THEN SUBSET Periods ELSE {{}}

StartToken ==
  /\ startPc = "token" /\ startPc' = "download"
  /\ \E t \in SUBSET Queues : ReceiveToken(t)
  /\ UNCHANGED <<gitActions, stopPc, runPc, pullPc, flags, map, zeroPeriods, work, exit>>

\* receiveToken or DownloadAll fails, Start returns the error, main ends.
StartFails ==
  /\ startPc = "token" \/ (startPc = "download" /\ gitActions)
  /\ exit' = "1"
  /\ UNCHANGED <<gitActions, threads, flags, map, refresh, zeroPeriods, work>>

\* DownloadAll; with repositories, a goroutine that pulls them.
Download ==
  /\ startPc = "download" /\ startPc' = "pool"
  /\ repositories' = IF gitActions THEN "cloned" ELSE repositories
  /\ pullPc' = IF gitActions THEN "select" ELSE pullPc
  /\ isRunningWg' = isRunningWg + IF gitActions THEN 1 ELSE 0
  /\ UNCHANGED <<gitActions, stopPc, runPc, isRunning, quit, map, refresh, zeroPeriods, pool, jobs, results, exit>>

PoolStart ==
  /\ startPc = "pool" /\ startPc' = "refresh" /\ pool' = "open"
  /\ UNCHANGED <<gitActions, stopPc, runPc, pullPc, flags, map, refresh, zeroPeriods, jobs, results, repositories, exit>>

\* The last lines of refreshPollers.
PollersRefreshed ==
  /\ todo = {} /\ pollerKeys = {} /\ closing = {}
  /\ zeroPeriods' = IF token # {} THEN tokenPeriods ELSE zeroPeriods
  /\ tokenPeriods' = {}
  /\ UNCHANGED <<token, todo, pollerKeys, notAdded>>

\* After refreshPollers: func run, and Start returns.
StartReturn ==
  /\ startPc = "refresh" /\ PollersRefreshed
  /\ startPc' = "returned" /\ runPc' = "start"
  /\ isRunning' = TRUE /\ isRunningWg' = isRunningWg + 1
  /\ UNCHANGED <<gitActions, stopPc, pullPc, quit, map, work, exit>>

-----------------------------------------------------------------------------
(* refreshPollers, called by Start and by func run *)

Refreshing == startPc = "refresh" \/ runPc = "refresh"

\* Mutant: a poller that is listed stays among those to remove.
RefreshPollerKept(q) ==
  /\ Refreshing /\ q \in todo \cap pollers
  /\ todo' = todo \ {q}
  /\ UNCHANGED <<gitActions, threads, flags, map, token, tokenPeriods, pollerKeys, notAdded, zeroPeriods, work, exit>>

\* A queue that has a poller, whose client is refreshed, if the token says so.
RefreshPoller(q) ==
  /\ Refreshing /\ q \in todo \cap pollers
  /\ todo' = todo \ {q} /\ pollerKeys' = pollerKeys \ {q}
  /\ UNCHANGED <<gitActions, threads, flags, map, token, tokenPeriods, notAdded, zeroPeriods, work, exit>>

AddPoller(q) ==
  /\ Refreshing /\ q \in todo \ pollers
  /\ todo' = todo \ {q} /\ pollers' = pollers \cup {q} /\ running' = running \cup {q}
  /\ UNCHANGED <<gitActions, threads, flags, closing, token, tokenPeriods, pollerKeys, notAdded, zeroPeriods, work, exit>>

\* NewSqsProvider fails.
AddPollerFails(q) ==
  /\ Refreshing /\ q \in todo \ pollers
  /\ todo' = todo \ {q} /\ notAdded' = notAdded \cup {q}
  /\ UNCHANGED <<gitActions, threads, flags, map, token, tokenPeriods, pollerKeys, zeroPeriods, work, exit>>

\* removePoller(queueUrl).Stop(), which waits for the poller.
RemovePoller(q) ==
  /\ Refreshing /\ todo = {} /\ closing = {} /\ q \in pollerKeys
  /\ pollerKeys' = pollerKeys \ {q} /\ pollers' = pollers \ {q} /\ closing' = {q}
  /\ UNCHANGED <<gitActions, threads, flags, running, token, tokenPeriods, todo, notAdded, zeroPeriods, work, exit>>

\* The goroutine of a poller ends and its Stop returns.
PollerEnds(q) ==
  /\ q \in closing
  /\ running' = running \ {q} /\ closing' = {}
  /\ UNCHANGED <<gitActions, threads, flags, pollers, refresh, zeroPeriods, work, exit>>

-----------------------------------------------------------------------------
(* func run *)

\* time.NewTicker, which panics if the period is not positive.
NewTicker(period) ==
  IF period \in zeroPeriods'
  THEN exit' = "2" /\ UNCHANGED runPc
  ELSE runPc' = "select" /\ UNCHANGED exit

RunStart ==
  /\ runPc = "start" /\ UNCHANGED zeroPeriods /\ NewTicker("success")
  /\ UNCHANGED <<gitActions, startPc, stopPc, pullPc, flags, map, refresh, work>>

RunTick ==
  /\ runPc = "select" /\ runPc' = "token"
  /\ UNCHANGED <<gitActions, startPc, stopPc, pullPc, flags, map, refresh, zeroPeriods, work, exit>>

RunToken ==
  /\ runPc = "token" /\ runPc' = "refresh"
  /\ \E t \in SUBSET Queues : ReceiveToken(t)
  /\ UNCHANGED <<gitActions, startPc, stopPc, pullPc, flags, map, zeroPeriods, work, exit>>

RunTokenFails ==
  /\ runPc = "token" /\ UNCHANGED zeroPeriods /\ NewTicker("error")
  /\ UNCHANGED <<gitActions, startPc, stopPc, pullPc, flags, map, refresh, work>>

\* Mutant: the next token is asked for without a look at quit.
RunRefreshedAgain ==
  /\ runPc = "refresh" /\ PollersRefreshed /\ runPc' = "token"
  /\ UNCHANGED <<gitActions, startPc, stopPc, pullPc, flags, map, work, exit>>

RunRefreshed ==
  /\ runPc = "refresh" /\ PollersRefreshed /\ NewTicker("success")
  /\ UNCHANGED <<gitActions, startPc, stopPc, pullPc, flags, map, work>>

RunQuit ==
  /\ runPc = "select" /\ quit /\ runPc' = "stopping"
  /\ UNCHANGED <<gitActions, startPc, stopPc, pullPc, flags, map, refresh, zeroPeriods, work, exit>>

\* Mutant: a poller may be stopped a second time.
StopPollerAgain(q) ==
  /\ runPc = "stopping" /\ q \in pollers /\ closing = {}
  /\ closing' = {q}
  /\ UNCHANGED <<gitActions, threads, flags, pollers, running, refresh, zeroPeriods, work, exit>>

StopPoller(q) ==
  /\ runPc = "stopping" /\ q \in pollers \cap running /\ closing = {}
  /\ closing' = {q}
  /\ UNCHANGED <<gitActions, threads, flags, pollers, running, refresh, zeroPeriods, work, exit>>

RunDone ==
  /\ runPc = "stopping" /\ pollers \cap running = {} /\ closing = {}
  /\ runPc' = "done" /\ isRunningWg' = isRunningWg - 1
  /\ UNCHANGED <<gitActions, startPc, stopPc, pullPc, isRunning, quit, map, refresh, zeroPeriods, work, exit>>

-----------------------------------------------------------------------------
(* startPullingRepositories *)

PullTick ==
  /\ pullPc = "select" /\ pullPc' = "pull"
  /\ UNCHANGED <<gitActions, startPc, stopPc, runPc, flags, map, refresh, zeroPeriods, work, exit>>

PullAll ==
  /\ pullPc = "pull" /\ pullPc' = "select"
  /\ UNCHANGED <<gitActions, startPc, stopPc, runPc, flags, map, refresh, zeroPeriods, work, exit>>

PullQuit ==
  /\ pullPc = "select" /\ quit
  /\ pullPc' = "done" /\ isRunningWg' = isRunningWg - 1
  /\ UNCHANGED <<gitActions, startPc, stopPc, runPc, isRunning, quit, map, refresh, zeroPeriods, work, exit>>

-----------------------------------------------------------------------------
(* Stop, in main *)

Signal ==
  /\ stopPc = "off" /\ stopPc' = "signal"
  /\ UNCHANGED <<gitActions, startPc, runPc, pullPc, flags, map, refresh, zeroPeriods, work, exit>>

\* Stop of a processor that has not started, or is not running.
StopFails ==
  /\ stopPc = "signal" /\ CanLock /\ ~isRunning
  /\ exit' = "1"
  /\ UNCHANGED <<gitActions, threads, flags, map, refresh, zeroPeriods, work>>

Stop ==
  /\ stopPc = "signal" /\ CanLock /\ isRunning
  /\ stopPc' = "wait" /\ quit' = TRUE
  /\ UNCHANGED <<gitActions, startPc, runPc, pullPc, isRunning, isRunningWg, map, refresh, zeroPeriods, work, exit>>

\* Mutant: the goroutines are not awaited.
AllDoneAtOnce == TRUE

AllDone == isRunningWg = 0

\* isRunningWg.Wait() returns; workerPool.Stop() begins ...
PoolStop ==
  /\ stopPc = "wait" /\ AllDone
  /\ stopPc' = "pool" /\ pool' = "draining"
  /\ UNCHANGED <<gitActions, startPc, runPc, pullPc, flags, map, refresh, zeroPeriods, jobs, results, repositories, exit>>

\* ... and returns.
PoolStopped ==
  /\ stopPc = "pool" /\ jobs = 0
  /\ stopPc' = "remove" /\ pool' = "closed"
  /\ UNCHANGED <<gitActions, startPc, runPc, pullPc, flags, map, refresh, zeroPeriods, jobs, results, repositories, exit>>

\* RemoveAll, which logs that a directory could not be removed, and Stop returns.
RemoveAll ==
  /\ stopPc = "remove" /\ stopPc' = "returned"
  /\ repositories' \in {repositories} \cup IF gitActions THEN {"removed"} ELSE {}
  /\ isRunning' = FALSE
  /\ UNCHANGED <<gitActions, startPc, runPc, pullPc, quit, isRunningWg, map, refresh, zeroPeriods, pool, jobs, results, exit>>

Exit ==
  /\ stopPc = "returned" /\ exit' = "0"
  /\ UNCHANGED <<gitActions, threads, flags, map, refresh, zeroPeriods, work>>

-----------------------------------------------------------------------------
(* Pollers, jobs and senders *)

Submit(q) ==
  /\ q \in running /\ pool = "open" /\ jobs < MaxJobs
  /\ jobs' = jobs + 1
  /\ UNCHANGED <<gitActions, threads, flags, map, refresh, zeroPeriods, pool, results, repositories, exit>>

\* Execute returns, with a result that its own goroutine sends, or without one.
FinishJob ==
  /\ jobs > 0 /\ jobs' = jobs - 1
  /\ results' \in {results, results + 1} /\ results' <= MaxJobs
  /\ UNCHANGED <<gitActions, threads, flags, map, refresh, zeroPeriods, pool, repositories, exit>>

SendResult ==
  /\ results > 0 /\ results' = results - 1
  /\ UNCHANGED <<gitActions, threads, flags, map, refresh, zeroPeriods, pool, jobs, repositories, exit>>

-----------------------------------------------------------------------------
StartStep == StartCall \/ StartToken \/ StartFails \/ Download \/ PoolStart \/ StartReturn

RefreshStep(q) ==
  RefreshPoller(q) \/ AddPoller(q) \/ AddPollerFails(q) \/ RemovePoller(q)

RunStep == RunStart \/ RunToken \/ RunTokenFails \/ RunRefreshed \/ RunDone

StopStep == StopFails \/ Stop \/ PoolStop \/ PoolStopped \/ RemoveAll \/ Exit

\* Nothing happens after the process has ended.
Next ==
  \/ /\ exit = "no"
     /\ \/ StartStep \/ RunStep \/ RunTick \/ RunQuit
        \/ PullTick \/ PullAll \/ PullQuit
        \/ Signal \/ StopStep \/ FinishJob \/ SendResult
        \/ \E q \in Queues : RefreshStep(q) \/ StopPoller(q) \/ PollerEnds(q) \/ Submit(q)
  \/ exit # "no" /\ UNCHANGED vars

(* Goroutines that can run do run; calls, scripts and pollers end.  A select  *)
(* chooses at random, so a closed quit is seen even if the ticker keeps       *)
(* firing.                                                                    *)
Fairness ==
  /\ WF_vars(exit = "no" /\ StartStep) /\ WF_vars(exit = "no" /\ RunStep)
  /\ WF_vars(exit = "no" /\ StopStep) /\ WF_vars(exit = "no" /\ PullAll)
  /\ SF_vars(exit = "no" /\ RunQuit) /\ SF_vars(exit = "no" /\ PullQuit)
  /\ WF_vars(exit = "no" /\ FinishJob) /\ WF_vars(exit = "no" /\ SendResult)
  /\ \A q \in Queues : WF_vars(exit = "no" /\ (RefreshStep(q) \/ StopPoller(q) \/ PollerEnds(q)))

Spec == Init /\ [][Next]_vars

-----------------------------------------------------------------------------
(* Properties *)

\* Every variable has its type; only a poller that runs is being stopped.
TypeOK ==
  /\ gitActions \in BOOLEAN
  /\ startPc \in {"new", "token", "download", "pool", "refresh", "returned"}
  /\ stopPc \in {"off", "signal", "wait", "pool", "remove", "returned"}
  /\ runPc \in {"off", "start", "select", "token", "refresh", "stopping", "done"}
  /\ tokenPeriods \subseteq Periods /\ zeroPeriods \subseteq Periods
  /\ pullPc \in {"off", "select", "pull", "done"}
  /\ isRunning \in BOOLEAN /\ quit \in BOOLEAN /\ isRunningWg \in 0 .. 2
  /\ pollers \subseteq Queues /\ running \subseteq Queues
  /\ closing \subseteq running /\ Cardinality(closing) <= 1
  /\ token \subseteq Queues /\ todo \subseteq token /\ pollerKeys \subseteq Queues
  /\ notAdded \subseteq token
  /\ pool \in {"new", "open", "draining", "closed"}
  /\ jobs \in 0 .. MaxJobs /\ results \in 0 .. MaxJobs
  /\ repositories \in {"none", "cloned", "removed"}
  /\ exit \in {"off", "no", "0", "1", "2"}

(* Between refreshes a poller runs for exactly the queues of the last token,  *)
(* except those that could not be added, and a poller that runs is always     *)
(* known to the processor or on its way out: nobody else would ever stop it.  *)
PollersMatchToken ==
  /\ running \ closing \subseteq pollers
  /\ runPc \in {"start", "select", "token"} => pollers = running /\ pollers = token \ notAdded

(* Stop in the right order: the pool is stopped only when no poller is left   *)
(* to submit, and the repositories are removed only when no script runs.      *)
OrderlyStop ==
  /\ pool \in {"draining", "closed"} => running = {}
  /\ gitActions /\ jobs > 0 => repositories = "cloned"

(* After a signal, whenever it comes, the process ends: without error only    *)
(* when every goroutine but the senders has returned, and by a panic only if  *)
(* a refresh period of a token was not positive.                              *)
StopCompletes ==
  (stopPc # "off") ~> \/ exit = "1"
                      \/ exit = "2" /\ zeroPeriods # {}
                      \/ exit = "0" /\ jobs = 0 /\ running = {} /\ isRunningWg = 0

(* main: "JEC will be stopped gracefully."  Every result of a script that has *)
(* run is sent before the process ends.  Does not hold: Stop does not know of *)
(* the senders.                                                               *)
ResultsSent == exit = "0" => results = 0
=============================================================================
