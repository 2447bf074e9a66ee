# A TLA+ development of JEC

JEC (Jira Edge Connector) is a Go program that runs next to the systems of a
customer of Jira Service Management (JSM). It polls AWS SQS queues for messages,
runs for each message the script that its configuration maps to the message's
action, and sends the script's outcome back to JSM. This directory holds TLA+
modules of its core, the TLC runs that check them and proofs checked by TLAPS.

`PROJECT.json` is the index: components, runs, the source lines of every
definition, hazards, findings and theorems.

## Inventory

| part | state | operations | interacts with |
|---|---|---|---|
| worker pool (`worker_pool/`) | job channel, two counters, wait group, `startStopMu` | Start, Stop, Submit, the workers, keep-alive expiry | called by the pollers and the processor, calls `Job.Execute` |
| poller (`queue/poller.go`), one per queue | quit and wakeUp channels, the batch in hand | Start, Stop, run, poll, wait, terminateMessageVisibility | pool (Submit, NumberOfAvailableWorker), provider |
| job (`queue/job.go`) | state, `executeMutex` | Execute: delete, check owner, handle, send | provider, message handler, result sender |
| message handler (`queue/message.go`) | configured actions, the shared array behind GlobalEnv | Handle, execute | git repositories (read lock), executor |
| SQS provider (`queue/sqs_provider.go`) | client, expired flag, two RW mutexes | ReceiveMessage, DeleteMessage, ChangeMessageVisibility, RefreshClient | AWS; called by poller, workers, processor |
| processor (`queue/processor.go`) | map of pollers, refresh periods, quit | Start, Stop, run, refreshPollers, receiveToken | everything above |
| retryer (`retryer/`), result sender (`runbook/sender.go`) | attempt count | Do; SendResultToJsm | JSM over HTTP |
| executor, callback pipe (`runbook/`) | named pipe, buffer, a flag without a lock | Execute, CreatePipe, Read (a goroutine nobody awaits), ClosePipe | the script; another execution of the same message |
| git repositories (`git/`) | working copies, one RW mutex each | DownloadAll, PullAll, RemoveAll | processor, message handler |
| configuration (`conf/`) | none after the start | Read: from a local file or a clone, validate, complete the paths | main, processor (paths of git actions) |
| main program (`main/`) | exit code | signals, Start, Stop | processor |
| Windows service (`windows_service/`) | `cmd.Process`, `cmd.ProcessState` | Start, run, Stop, start and stop on the command line | service manager; runs JEC as a process |
| utilities (`util/`) | — | Min, file modes, log rotation | poller, git repositories, main |

What is hard here: callers of Submit, workers, keep-alive tickers and Stop share
a channel, counters and a wait group; messages reappear when their visibility
timeout passes, calls fail with or without effect, tokens expire; a batch is
half submitted when the pool stops; a client is replaced while calls are under
way; a result is sent by a goroutine nobody waits for; the reader of a callback
pipe, its script and Execute open one pipe from three sides without a lock; a
script runs from a working copy that is being pulled. `PROJECT.json` lists each
of these under "hazards" at its line, with the properties aimed at it.

## Modules

**WorkerPool** models `worker_pool.go` and `worker.go`. One action per critical
section or channel operation. `startStopMu` is not a variable: a caller whose
`submitPc` is not "idle" is a reader, the owner in "stopLock" is a writer that
waits (and keeps new readers out), in "stopping" the writer that holds it. The
counters are changed only under `numberOfWorkerMu`, so each change is one atomic
step. A channel send has three outcomes: to a worker blocked in its select
(`SubmitHandOff`), into the buffer (`SubmitBuffer`), or the default case. A
worker is "parked" when blocked in its select; "ticked" between the firing of
its ticker and the compare-and-decrement. `accepted` and `executed` are history.

**JobService** is the abstract specification: what a pool promises. Jobs are
accepted only while it is open and below capacity, executed exactly once, and
it closes only when all are done; an accepted job is executed. WorkerPool refines
it (`ImplementsJobService`, mapping `phase`, `pending`, `done`), and Poller is
built on it instead of on the pool's internals.

**Poller** models `poller.go` and the order "delete, then handle" of `job.go`,
several pollers on one pool. The queue service is external: a received message
is hidden under a receipt until its visibility timeout, its termination or its
deletion; a call that reports an error may have had its effect. A Submit to a pool
that is being stopped waits until its Stop returns, as `startStopMu` demands. Adverse events
are counted and bounded by `MaxMishaps`, receives of one message by `MaxReceives`.

**Job** models `job.Execute` with `Handle` as a table of what it returns for each
kind of message, several concurrent callers, and the goroutine that sends the
result and assigns the captured `err`.

**SqsProvider** models the two locks of `sqs_provider.go`. Holding the read lock
is a state of a caller. RefreshClient has two critical sections with a window
between them.

**Retryer** models `DoWithExponentialBackoff`, `NewRequest` and the two callers
(`SendResultToJsm` with a body, `receiveToken` without).

**Processor** models `processor.go` and `main.go`: Start and Stop under
`startStopMu` (held while their program counter is inside), `func run` with
`refreshPollers` one queue at a time, the goroutine that pulls repositories, the
signal and the exits. A poller is a member of `running`, `closing` is the one
whose Stop is awaited; pool, jobs and senders are counts, as JobService and Job
promise them. A token is the set of queues it lists; `notAdded` is history. Of
the refresh periods that a token carries only the sign matters:
`time.NewTicker` panics if a period is not positive (`exit = "2"`), which
happens to the success period at once and to the error period when the next
token cannot be received.

**JecService** composes the Windows service with Processor: `exit` is "off" until
`RunnerCreates`, and `StopCtrlC` is the signal that Processor's main waits for. The
service manager is external: it calls Start and Stop and ends the service when
Stop has returned. `p.cmd.Process` and `p.cmd.ProcessState` are not variables: they
are nil or not according to how far `run` has come. A Stop that comes
before `Run` has assigned `Process` dereferences nil (`StopPanics`); a failing
Windows call in `sendCtrlCEvent` is only logged, and JEC runs on without its service.

**Configuration** gives `conf/` as operators, for nothing else runs while the file
is read: which origins and files are accepted (`Accepted`), what `Read` makes of
an accepted one (`Mappings`), which repositories the processor clones (`GitActions`)
and how the paths of git actions are completed (`AddRepositoryPath`).

**ActionExecution** composes Configuration, the git repositories and the executions
of messages. TLC chooses any origin and any file over the constants; rejected ones
end in `Fatal`. The lock of a repository is not a variable: executions in "locked",
"env" and "running" of a git action are its readers, `pullPc` says whether there
is a writer or one that waits. A hard reset has a state in which the working copy
is `Torn`; the fetch before it has already moved `master`, and a reset may fail. A fetch
may also bring tags only, or fail after it has moved `master`.
GlobalEnv is a slice: the constant `Spare` says whether its array has room behind the last
element (a decoder that does not know the length grows it in larger steps), and `append`
then writes into the array that all executions share.

**CallbackPipe** models `executor.go` and the pipe on Unix. Named pipes are external:
`open` blocks until the other side is open or being opened, a reader sees the end
of the file when the pipe is empty and has no writer, and removing the path leaves the pipe to
those who have it open. The path is made of the id of the message, so Init
has two executions of two messages or of one (a message received twice), with
pipes that an earlier process left or not. `mkfifo` succeeds or fails for a path
as a whole (a directory that is missing or not writable). The script opens,
writes and closes as it likes within `MaxOpens` and `MaxChunks`, or not at all.

**MCPoller**, **MCActionExecution** give constants and symmetry sets for TLC.
**WorkerPoolProofs**, **PollerProofs**, **JobProofs**, **SqsProviderProofs**,
**RetryerProofs**, **ProcessorProofs** (which also covers JecService),
**ActionExecutionProofs** and **CallbackPipeProofs** hold the theorems about the
module they are named after, each with its inductive invariant `IInv`.

Definitions marked "Mutant" are the definition after them with a plausible
mistake. No specification uses them; putting one in place of the original
makes TLC find the property that `PROJECT.json` pairs it with violated, which
shows that the property depends on the code it is about.

## Runs

| run | question | bounds |
|---|---|---|
| pool_service | counters, limits, conservation, channel and wait-group discipline, draining; the pool implements JobService with liveness; Stop returns | 4 jobs, 3 worker identities, max 2, min 1, buffer 1, 2 callers |
| pool_stranded | **violated**: no permanent worker but a buffer | max 2, min 0, buffer 1 |
| poller | at most once per expiry, deleted means handled, a graceful stop leaves nothing hidden, every message is handled, Stop without the ticker | 1 queue, 2 messages (1 foreign), 2 workers, 2 mishaps, 3 receives each |
| job_execute | one execution, its outcome handed over for sending, Execute returns | 3 callers, every kind of message |
| job_error_race | **violated**: the handler's error is reported | 1 caller |
| sqs_provider | flag belongs to the current client, expiry is noticed, no starvation | 1 poller, 2 workers |
| processor | pollers follow the token, order of the shutdown, it ends; the service and JEC end together | JecService: 2 queues, tokens in any combination with any periods, 1 job, a stop of the service or a signal at any moment |
| processor_results | **violated**: results are sent before the process ends | 1 queue, 1 job |
| retryer | attempts, body, outcome, waiting time, an end | the real count of 5; statuses 200, 202, 429, 499, 500, 599, 600 |
| actions | what validation accepts can be executed; one commit under a script | 2 actions of any kind, 2 repositories, 2 executions, 2 commits each, symmetric |
| actions_environment | **violated**: a script has the variables of its own action | 2 local actions, 2 executions, room behind GlobalEnv |
| callback_pipe | what Execute returns as context; who stays blocked | 2 executions of 1 or 2 messages, 2 opens, 1 chunk each, a buffer of 2 chunks |

Why these bounds are enough to be interesting. The pool has one worker identity
more than its maximum, so that an old goroutine can still be leaving while a new
one starts; jobs up to its capacity, and two callers, so that both find the queue
full and one of them is refused. A poller may see any number of available workers
that is not below the free ones, as it does when others submit after it has looked, so
its batch can be larger than what the pool takes. Two receives are the
least for a duplicate; with two mishaps, three receives always leave a message
one more chance. The run has one poller, for the liveness check is what takes its time; the
theorems about the four invariants are for any number of pollers. Two queues let a token keep one poller, drop one and add one.
One poller and two workers suffice for a reader that holds the lock, one
that waits and a writer. Two actions may share a repository, have one each, or
be local, and their type may be left out, "http" or a string that nobody knows; a third commit would only repeat what the second does. A script
that opens the pipe a second time meets a reader that reads, copies, has removed
the path or is gone; a chunk from it and the default message already fill
the buffer, and a chunk of the other execution overflows it.

The pool's fixed mode (minimum not below maximum) is covered by the theorems,
which hold for every configuration; its liveness is not model-checked.

CHECK_DEADLOCK is off for `retryer` and `callback_pipe`: a request ends, and so
do an execution and its script. In CallbackPipe every behaviour is finite, so
`NobodyLeftBlocked` speaks of the states in which no actor of a message can go on; it is
what liveness under weak fairness of every actor would say. `Ready` writes "can go on" out as
the guards of the actions, so that the provers can follow it; TLC finds it equal
to `ENABLED` on the run's instance. The other models
have an explicit step for "everything has stopped" or never stop.

### Fairness

Goroutines that can run do run (weak fairness per goroutine). Scripts end and
HTTP calls end, by their timeout at the latest. A select with several ready
cases chooses at random, so a receive that is ready again and again is taken
(strong fairness in WorkerPool, and of the closed `quit` in Processor). A lock that becomes free lets its waiting
readers in (strong fairness of RLock in SqsProvider: Go's RWMutex does this
before another writer). The network does not answer every call with an error
other than the expired token. In Poller the pool's Stop returns (`StopCompletes` of WorkerPool), the processor refreshes expired
tokens, and the queue makes a message visible again that nobody works on.
No signal has to come, no ticker has to fire and no poller has to submit in Processor.
The service manager passes a stop on that it was asked for, and `run` of the
service goes on (weak fairness in JecService).
Nobody is obliged to start or stop the service, nor to call Submit, Stop or RefreshClient (in SqsProvider), and
`StopCompletes` of Poller does not rely on the poller's ticker. Retryer needs no fairness:
that its loop ends is the action property `RetriesRunOut`, by which each step lowers a natural number.

## Findings

* **A buffered job without a worker** (`pool_stranded`). `MinNumberOfWorker = 0`
  with `QueueSize > 0` is accepted by `New`. `Submit` buffers a job and returns
  true without a worker; only a Submit that finds the buffer full starts one.
  The job waits for ever, and `Stop` returns without executing it.
  `ReliablePool` is the exact condition under which the theorems below hold.
* **The error variable shared with the sender** (`job_error_race`). The goroutine
  at `job.go:86` assigns `err` of `Execute`, which reads it at line 99. The error of
  an action that is not configured can disappear, and a result that could not be
  sent can turn a handled message into a failed job. `OutcomeHandedOver`
  shows that `SendResultToJsm` is still called once, with the result of Handle (whether JSM gets
  it, once or twice, is the retryer's matter); the job's state, the
  returned error and the log are what is wrong.
* **Results lost at a graceful stop** (`processor_results`). Stop waits for
  pollers, repositories and workers, not for the goroutines that send results
  (`job.go:86`); `os.Exit(0)` ends them.
* **The environment of another action** (`actions_environment`). `src/README.md:23` says that
  variables can be set "locally on a per script basis". `append(GlobalEnv, ...)` at
  `message.go:141` writes a script's variables into the array that all workers share, when it has
  room; another worker may overwrite them before the script is started.

Observed while modelling, and stated as the exceptions of properties that hold:
* *A call about a message that fails*, a receive included, may have had its effect: a deleted
  message is then not handled, a received one stays hidden (`failedCalls` in `DeletedIsHandled`,
  `GracefulStop` and `EventuallyHandled`).
* *A request that timed out* may have been taken and is sent again (`EffortJustified`).
* *Context lost or cut* (`executor.go`). Execute does not wait for Read, so the
  context may be empty or a part of what the script wrote (`ContextGenuine`).
* *Two executions of one message* share a pipe. Their contexts may mix, and a reader may
  stay blocked for ever; if `mkfifo` could fail for one of them only,
  both scripts could. With a *third* execution even a script may stay blocked, and the
  worker that runs it: a late Read removes a path that it never opened, on which the script waits.
  TLC's simulation found it with three executions, while a proof for any number
  of them was sought. `NobodyLeftBlocked` is therefore about messages with at most two (`Few`),
  the most that one expiry of the visibility timeout can cause.
* *A reset that fails after the fetch* leaves an old or torn working copy until a fetch
  brings something new, for the next one says "already up to date"
  (`notReset` in `OneCommitPerScript`).
* *A refresh period of zero* ends the program with a panic (`StopCompletes`).
* *A stop of the Windows service before JEC is created* panics, and a failed Ctrl-C
  leaves JEC running (`JecFollowsService`).

## Proofs

`WorkerPoolProofs` proves, for every configuration, any finite set of workers and any
sets of jobs and callers:
`PoolTypes`, `PoolCounters`, `PoolLimits`, `PoolNeverSendsOnClosedQueue`,
`PoolNeverAddsDuringWait`, `PoolConservesJobs`, `PoolAvailability`; and under
`ReliablePool`, `PoolDrains` and `PoolImplementsJobService` (`Spec => Service!Spec`).
The assumptions are that the configured numbers are integers, `Workers` is finite
and `None` is not a job.

The inductive invariant `IInv` strengthens the checked invariants with
* `HoldInv`: exactly the workers in "got" and "busy" hold a job, exactly the callers
  inside Submit have one. Without it a step could finish or overwrite a job that was not there;
* `LifecycleInv`: the lock discipline, that is which of `isRunning`, `quit`,
  `jobQueueClosed` and callers inside Submit go together. It carries
  `NoSendOnClosedQueue` and `NoAddDuringWait`;
* `MinInv`: workers fall below the minimum only when the queue is closed *and*
  empty. This is why a job left in the buffer at Stop still has a worker;
* `OfferInv`: a job on its way into the pool is not yet in it.

The refinement step needs two counting arguments, by surjections onto the set of
unfinished jobs: they are no more than buffer plus holders (capacity), and with
no worker left there is none.

`PollerProofs` proves `PollerTypes`, `PollerAtMostOnce`, `PollerDeletedIsHandled` and
`PollerGracefulStop` for any pollers, any finite set of messages (`PollerAssumption`)
and any pool. `AtMostOncePerExpiry` only counts what was handled; the argument has to
count what still may be. A job is *held* by a poller, between receiving a message
and submitting it or giving it back, or by the pool. The invariant is
* `LoopInv`, `DistinctInv`, `HolderInv`: the local variables of poll are empty outside it,
  and a job is held once, in one place, by the poller of its queue, with a receipt
  not from the future. Without them a job could be submitted and given back;
* `LatestInv`: a job that executes has deleted its message unless that was received
  again, and a hidden message is held unless a call failed, which is `GracefulStop`
  once nobody holds anything;
* `CountInv`: for each message, times handled, plus receipts held, plus one
  if anybody could receive it now, is at most one more than its expiries. Every
  step leaves the sum alone or lowers it, except an expiry, which raises both sides.

`JobProofs` proves `JobTypes` and `JobExecutedOnce` for any set of callers, from
`MutexInv` (exactly the owner of `executeMutex` is between Lock and Return) and `StateInv`
(a caller is past the check only in `jobExecuting`, and what was handled
follows the state). `JobHandsOverAtMostOnce` is the safety part of `OutcomeHandedOver`:
`SendResultToJsm` is called at most once, with the result that Handle returned, whatever the
race on `err` does. The call may fail, and the retryer may send its request more than once.

`SqsProviderProofs` proves `FreshClientNotExpired` and `ProviderTypes` for any number of
callers. The invariant adds that an ExpiredToken answer not yet examined is about the
current client, because its caller still holds the read lock.

`RetryerProofs` proves `RetryerEffort`, `RetryerBody` and `RetryerOutcome` for every limit
and every set of statuses. `CountInv` ties `retryCount` to the attempts, `AnswerInv` says
that the variables of the loop are those of the last attempt, `OpenInv` where a
response body is open, `RetriedInv` and `BodyInv` what holds before the next attempt.
`RetryerBackoff` and `RetryerTypes` are for `maxRetryCount = 5`, the value of
`retryer.go:15`: the provers know powers of two only for given numbers, and the general
case is an induction. `WaitInv` is the sum of the sleeps at each point of the loop.

`ProcessorProofs` proves `ProcessorTypes`, `ProcessorPollers`, `ProcessorOrderlyStop` and
`ProcessorCleanExit` for any queues and any number of jobs, for Processor alone and
inside the Windows service (`ServiceSpec`). Whether a step may touch pollers or
pool depends on where Start, Stop, `func run` and the pulling goroutine are: `LifeInv`
says which places go together, `WaitGroupInv` that the wait group counts two of the
goroutines, `PoolInv` that pool and repositories follow Start and Stop.
`VisitInv` is the loop invariant of `refreshPollers`: the pollers settled so far are those
of the queues visited so far. `CleanExit` is the safety part of
`StopCompletes`.

`ActionExecutionProofs` proves `ActionsAcceptedRun` and `ActionsOneCommit`
for any actions, repositories, executions and commits. `PhaseInv`
follows the configuration from validation (`ValidMappings`) through the clones to the
completed paths (`ResolvedMappings`); `LockInv` says that the writer of a repository has
no readers and that a working copy is that of its branch outside a reset; `SeenInv`
is what a running script sees.

`CallbackPipeProofs` proves `PipeContextGenuine` for any executions, any size of the buffer
and any number of opens and chunks. `PipeAssumption` says that the names of pipes are
distinct. `FileInv` and `MessageInv` keep pipes and data with their message. For a
message executed once, `OnePipe` says that Execute, Read and the script
never have two pipes, `MetReader` that nobody has written before Read has opened the
pipe, and `StreamInv` that what Read has got, followed by what is in the pipe, is
everything that the script has written, with the default message behind it only
after the pipe was closed. So no chunk is lost between the script and Read, although
a write to a pipe without a reader would be.

It also proves `PipeNobodyLeftBlocked`, for the same constants. `EndInv` adds to the invariant
* `PlaceInv`, `FreshInv`: where the three actors of an execution can be together, and that
  nobody has opened a pipe before its creation;
* `BlockedInv`: a blocked writer waits on the pipe at the path, which has no reader;
* `PathInv`: what is at the path has a reader or somebody who will still read it, and Read
  removes only what it has read. It is here that a third execution would break the argument;
* `AloneInv`: in a message executed once, Read has yet to open what a writer waits on, and
  ClosePipe what Read waits on.

`PipeProgress` adds that the actors do come to such a state: `Rank`, what is left to do of
an execution, is a natural number, and every step lowers the rank of one and
raises none, or empties a pipe, which only a step that lowers a rank fills again.

**Liveness but for fairness.** The prover does not reach liveness under fairness, but the
part of it that is about the code and not about the scheduler is a safety property: no
state in which everybody waits, and, where nothing can repeat, a variant.
* `JobEndsHandedOver`: every step takes one caller nearer to its return or ends the sending, and
  where nobody can go on every Execute has returned, the job is final and the result
  of Handle was passed to `SendResultToJsm` (`ExecuteReturns`, `OutcomeHandedOver`). `FinalInv`: `jobExecuting` only
  while somebody executes.
* `RetryerEnds`: `Rank` falls with every step (`RetriesRunOut`), and until the caller has its
  answer the conditions after an attempt leave out no case.
* `PoolStopGoesOn`: from the call of `Stop` to its return, `Stop`, `func run`, a caller of
  `Submit` or a worker can go on (`StopCompletes`). `ParkInv`: `func run` is there until it has
  closed the queue, and no worker is blocked while the buffer has a job. The model needs as
  many identities in `Workers` as the maximum, because a `Submit` that starts a worker takes one.
* `PollerStopEnds`: after `close(quit)` every step of a poller lowers `StopRank`, which nobody
  else changes, and until `run` has ended it has a step that needs no ticker, or is in a Submit that waits
  for a pool that is being stopped (`StopCompletes` of Poller). `RunInv`: `poll` receives only when a worker is available, so that a batch
  can be non-empty. That `Submit` answers for every job of the batch needs `HolderInv`.
* `ProcessorStopGoesOn`: from the signal to the end of the process somebody can go on, without
  counting on a ticker, for Processor and inside the service.
* `ServiceNotForgotten`: when the service has stopped, JEC has ended or is stopping and can go
  on, and a JEC that has ended is noticed (`JecFollowsService`). `ServiceInv`: what `run` of the
  service knows of the process is true.

For the pool, the processor and the service there is no variant, because tickers,
refreshes and new jobs can come again and again; that the steps towards the end are
taken in spite of them is fairness. "Can go on" is written in the guards of the actions,
compared with `ENABLED` by TLC on the runs' instances.

Only model-checked:
* liveness under fairness, which is outside the prover's reach: `StopCompletes` of WorkerPool,
  Poller and Processor, `ExecuteReturns`, `OutcomeHandedOver` and `JecFollowsService` (the
  theorems above are their other half), `EventuallyHandled` of
  Poller, `ExpiryNoticed` and `RefreshCompletes` of SqsProvider, and the liveness part of
  `ImplementsJobService`;
* `BackoffBudget` for limits other than 5 (TLC checks 5 as well).

## Not modelled

* The pipe on Windows (`callback_context_handler_windows.go`): its blocking rules are
  those of another system and of a library.
* A script that creates a regular file at the path of a pipe that is gone (`O_CREAT`).
* What a script is called with: arguments, interpreter, http payload; the kinds of
  failure of `cmd.Run`, which are one status here.
* A panic other than those named above, which ends the program; a
  crash, after which nothing of JEC's state remains (messages reappear or, if
  deleted, are lost: `DeletedIsHandled` delimits that window).
* A second Start of a processor that was stopped: no caller does that.
* `PullMaster` of `git/pull.go`, which nothing calls.
* Installing and removing the Windows service, logging, metrics, and the utilities
  (file modes, log rotation), which keep no state.

## Plan

1. *done*: WorkerPool, JobService, Poller, Job, SqsProvider, Retryer, Processor, first
   proofs.
2. *done*: refresh periods, JecService, Configuration, ActionExecution, CallbackPipe.
3. *done*: every invariant that a run checks is a theorem.
4. *done*: the part of the liveness properties that does not rest on fairness.
5. Left: the same for `EventuallyHandled` and for SqsProvider (whose liveness rests almost
   entirely on the fairness of the lock and the network), and a refinement that would replace the
   abstract pool in Poller by WorkerPool itself.
