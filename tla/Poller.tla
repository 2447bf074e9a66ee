-------------------------------- MODULE Poller --------------------------------
(***************************************************************************)
(* The pollers of JEC and the life of a message: src/queue/poller.go, and  *)
(* of src/queue/job.go the order "delete, then handle" (Job.tla has the    *)
(* rest of it).  One poller serves one queue; all of them submit to one    *)
(* worker pool, here JobService, which WorkerPool is shown to implement.   *)
(*                                                                         *)
(* The queue service (AWS SQS) is external.  A received message is hidden  *)
(* under a receipt until its visibility timeout expires, its visibility is *)
(* terminated or it is deleted.  A delete under an old receipt reports     *)
(* success and may or may not delete; a call that reports an error may     *)
(* have had its effect (the response was lost).                            *)
(*                                                                         *)
(* Adverse events (a call that fails, a visibility timeout of a message    *)
(* still being worked on, a refusal by a pool that has room) are bounded   *)
(* by MaxMishaps.  The owner may stop pollers and pool in any order:       *)
(* queue/processor.go stops pollers first, and a poller that finds the     *)
(* pool stopped gives its messages back.                                   *)
(*                                                                         *)
(* Definitions marked "Mutant" are explained in WorkerPool.                *)
(***************************************************************************)
EXTENDS Integers, Sequences, FiniteSets, SequencesExt

CONSTANTS
  Pollers,              \* one per queue
  Messages,
  ForeignMessages,      \* messages whose ownerId and channelId are not ours
  QueueOf,              \* the poller whose queue holds a message
  MaxNumberOfWorker, Capacity,   \* of the pool
  MaxNumberOfMessages,  \* PollerConf.MaxNumberOfMessages, at least 1
  MaxReceives,          \* bound: times one message is received
  MaxMishaps            \* bound: adverse events

ASSUME PollerAssumption ==
  /\ IsFiniteSet(Messages) /\ ForeignMessages \subseteq Messages
  /\ QueueOf \in [Messages -> Pollers]
  /\ MaxNumberOfWorker \in Nat \ {0} /\ Capacity \in Nat \ {0}
  /\ MaxNumberOfMessages \in Nat \ {0}
  /\ MaxReceives \in Nat \ {0} /\ MaxMishaps \in Nat

\* newJob: one job for every time a message is received, named by its receipt.
Jobs == Messages \X (1 .. MaxReceives)
MessageOf(j) == j[1]

VARIABLES
  phase, pending, done,   \* the pool, see JobService
  executing,              \* jobs whose message Execute has deleted
  visibility,             \* of a message: "visible", "hidden", "deleted"
  receipt,                \* number of the latest receive of a message
  isTokenExpired,         \* of a poller's queueProvider
  life,                   \* of a poller: "new", "running", "stopping", "stopped"
  pc,                     \* of func run, see RunStates
  maxMessages,            \* poll: maxNumberOfMessages
  messages,               \* poll: the jobs of the messages received
  index,                  \* poll: the loop variable i, from 1
  toTerminate,            \* terminateMessageVisibility: what is left to do
  handled,                \* history: times Handle has run for a message
  expiries,               \* history: visibility timeouts of a message still worked on
  failedCalls,            \* history: messages that a failed call was about
  mishaps

pool    == <<phase, pending, done, executing>>
queues  == <<visibility, receipt>>
calls   == <<isTokenExpired, failedCalls, mishaps>>
run     == <<life, pc>>
locals  == <<maxMessages, messages, index, toTerminate>>
counts  == <<handled, expiries>>
vars == <<pool, queues, calls, run, locals, counts>>

(* "top": the select of run.  "receive": the call is under way.  "submit":    *)
(* in the loop of poll.  "giveBack": terminating one message of the loop.     *)
(* "giveUp": terminating the rest of them.  "wait": in wait.                  *)
RunStates == {"off", "top", "receive", "submit", "giveBack", "giveUp", "wait", "done"}

Pool == INSTANCE JobService

quit(p) == life[p] # "running"

Mishap == mishaps < MaxMishaps /\ mishaps' = mishaps + 1

\* A call to the queue of p fails, with or without an ExpiredToken error.
CallFails(p, ms) ==
  /\ Mishap
  /\ \E expired \in BOOLEAN : isTokenExpired' = [isTokenExpired EXCEPT ![p] = @ \/ expired]
  /\ failedCalls' = failedCalls \cup ms

\* The jobs that a poller has received and neither submitted nor given back.
InHand(p) == ToSet(SubSeq(messages[p], index[p], Len(messages[p]))) \cup ToSet(toTerminate[p])

-----------------------------------------------------------------------------
Init ==
  /\ phase = "new" /\ pending = {} /\ done = {} /\ executing = {}
  /\ visibility = [m \in Messages |-> "visible"] /\ receipt = [m \in Messages |-> 0]
  /\ isTokenExpired = [p \in Pollers |-> FALSE]
  /\ life = [p \in Pollers |-> "new"] /\ pc = [p \in Pollers |-> "off"]
  /\ maxMessages = [p \in Pollers |-> 0] /\ messages = [p \in Pollers |-> <<>>]
  /\ index = [p \in Pollers |-> 1] /\ toTerminate = [p \in Pollers |-> <<>>]
  /\ handled = [m \in Messages |-> 0] /\ expiries = [m \in Messages |-> 0]
  /\ failedCalls = {} /\ mishaps = 0

-----------------------------------------------------------------------------
(* The owner *)

PoolStart ==
  /\ Pool!Open
  /\ UNCHANGED <<executing, queues, calls, run, locals, counts>>

\* Stop of the pool takes startStopMu, for which Submit then waits ...
PoolStop ==
  /\ Pool!Drain
  /\ UNCHANGED <<executing, queues, calls, run, locals, counts>>

\* ... until every job has been executed and Stop returns.
PoolStopReturn ==
  /\ Pool!Close
  /\ UNCHANGED <<executing, queues, calls, run, locals, counts>>

\* Start: the goroutine of run is created.
Start(p) ==
  /\ life[p] = "new" /\ phase # "new"
  /\ life' = [life EXCEPT ![p] = "running"] /\ pc' = [pc EXCEPT ![p] = "top"]
  /\ UNCHANGED <<pool, queues, calls, locals, counts>>

\* Stop: close(quit) and close(wakeUp).
Stop(p) ==
  /\ life[p] = "running"
  /\ life' = [life EXCEPT ![p] = "stopping"]
  /\ UNCHANGED <<pool, queues, calls, pc, locals, counts>>

\* isRunningWg.Wait() returns.
StopReturn(p) ==
  /\ life[p] = "stopping" /\ pc[p] = "done"
  /\ life' = [life EXCEPT ![p] = "stopped"]
  /\ UNCHANGED <<pool, queues, calls, pc, locals, counts>>

\* Mutant: the flag outlives the token that expired.
RefreshClientKeepsFlag(p) == isTokenExpired[p] /\ UNCHANGED vars

\* RefreshClient (SqsProvider.tla has its steps).
RefreshClient(p) ==
  /\ isTokenExpired[p]
  /\ isTokenExpired' = [isTokenExpired EXCEPT ![p] = FALSE]
  /\ UNCHANGED <<pool, queues, failedCalls, mishaps, run, locals, counts>>

-----------------------------------------------------------------------------
(* The queue service *)

WorkedOn(m) == \E r \in 1 .. MaxReceives :
  \/ <<m, r>> \in pending
  \/ \E p \in Pollers : <<m, r>> \in InHand(p)

\* The visibility timeout of a message passes while somebody works on it ...
Expire(m) ==
  /\ visibility[m] = "hidden" /\ WorkedOn(m) /\ Mishap
  /\ visibility' = [visibility EXCEPT ![m] = "visible"]
  /\ expiries' = [expiries EXCEPT ![m] = @ + 1]
  /\ UNCHANGED <<pool, receipt, isTokenExpired, failedCalls, run, locals, handled>>

\* ... or after a failed call has left it hidden.
ExpireAbandoned(m) ==
  /\ visibility[m] = "hidden" /\ ~WorkedOn(m)
  /\ visibility' = [visibility EXCEPT ![m] = "visible"]
  /\ UNCHANGED <<pool, receipt, calls, run, locals, counts>>

-----------------------------------------------------------------------------
(* run, poll, wait *)

Goto(p, label) ==
  /\ pc' = [pc EXCEPT ![p] = label]
  /\ UNCHANGED <<pool, queues, calls, life, locals, counts>>

RunQuit(p) == pc[p] = "top" /\ quit(p) /\ Goto(p, "done")

RunExpired(p) == pc[p] = "top" /\ ~quit(p) /\ isTokenExpired[p] /\ Goto(p, "wait")

(* NumberOfAvailableWorker: every worker but the busy ones, who hold          *)
(* different unfinished jobs (AvailabilityHonest of WorkerPool).              *)
AvailableWorkerCounts ==
  {n \in 0 .. MaxNumberOfWorker : n >= MaxNumberOfWorker - Cardinality(pending)}

\* poll asks for at most as many messages as there are workers for them.
RunPoll(p) ==
  /\ pc[p] = "top" /\ ~quit(p) /\ ~isTokenExpired[p]
  /\ \E n \in AvailableWorkerCounts :
       /\ pc' = [pc EXCEPT ![p] = IF n > 0 THEN "receive" ELSE "wait"]
       /\ maxMessages' = [maxMessages EXCEPT ![p] =
            IF n < MaxNumberOfMessages THEN n ELSE MaxNumberOfMessages]
  /\ UNCHANGED <<pool, queues, calls, life, messages, index, toTerminate, counts>>

\* poll returns to run and its local variables are gone.
PollReturn(p, shouldWait) ==
  /\ pc' = [pc EXCEPT ![p] = IF shouldWait THEN "wait" ELSE "top"]
  /\ maxMessages' = [maxMessages EXCEPT ![p] = 0]
  /\ messages' = [messages EXCEPT ![p] = <<>>] /\ index' = [index EXCEPT ![p] = 1]

Visible(p) ==
  {m \in Messages : QueueOf[m] = p /\ visibility[m] = "visible" /\ receipt[m] < MaxReceives}

\* The queue hides the messages ms under new receipts.
Hide(ms) ==
  /\ receipt' = [m \in Messages |-> receipt[m] + IF m \in ms THEN 1 ELSE 0]
  /\ visibility' = [m \in Messages |-> IF m \in ms THEN "hidden" ELSE visibility[m]]

Batches(p) == {ms \in SUBSET Visible(p) : Cardinality(ms) <= maxMessages[p]}

\* Mutant: a message is gone from the queue as soon as it is received.
ReceiveAndDelete(p) ==
  /\ pc[p] = "receive"
  /\ \E ms \in Batches(p) \ {{}} :
       /\ receipt' = [m \in Messages |-> receipt[m] + IF m \in ms THEN 1 ELSE 0]
       /\ visibility' = [m \in Messages |-> IF m \in ms THEN "deleted" ELSE visibility[m]]
       /\ \E js \in SetToSeqs({<<m, receipt[m] + 1>> : m \in ms}) :
            messages' = [messages EXCEPT ![p] = js]
  /\ pc' = [pc EXCEPT ![p] = "submit"]
  /\ UNCHANGED <<pool, calls, life, maxMessages, index, toTerminate, counts>>

ReceiveMessage(p) ==
  /\ pc[p] = "receive"
  /\ \E ms \in Batches(p) \ {{}} :
       /\ Hide(ms)
       /\ \E js \in SetToSeqs({<<m, receipt[m] + 1>> : m \in ms}) :
            messages' = [messages EXCEPT ![p] = js]
  /\ pc' = [pc EXCEPT ![p] = "submit"]
  /\ UNCHANGED <<pool, calls, life, maxMessages, index, toTerminate, counts>>

\* The long poll ends without a message.
ReceiveNothing(p) ==
  /\ pc[p] = "receive" /\ Visible(p) = {}
  /\ PollReturn(p, TRUE)
  /\ UNCHANGED <<pool, queues, calls, life, toTerminate, counts>>

ReceiveFails(p) ==
  /\ pc[p] = "receive"
  /\ \E ms \in Batches(p) : Hide(ms) /\ CallFails(p, ms)
  /\ PollReturn(p, TRUE)
  /\ UNCHANGED <<pool, life, toTerminate, counts>>

Submitting(p) == pc[p] = "submit" /\ index[p] <= Len(messages[p])

SubmitAccepted(p) ==
  /\ Submitting(p) /\ Pool!Accept(messages[p][index[p]])
  /\ index' = [index EXCEPT ![p] = @ + 1]
  /\ UNCHANGED <<executing, queues, calls, run, maxMessages, messages, toTerminate, counts>>

\* !isSubmitted: terminateMessageVisibility(js), and the loop goes on.
GiveBack(p, js) ==
  /\ Submitting(p) /\ phase = "open"
  /\ \/ Cardinality(pending) >= Capacity /\ UNCHANGED mishaps
     \/ Mishap
  /\ toTerminate' = [toTerminate EXCEPT ![p] = js]
  /\ pc' = [pc EXCEPT ![p] = "giveBack"]
  /\ index' = [index EXCEPT ![p] = @ + 1]
  /\ UNCHANGED <<pool, queues, isTokenExpired, failedCalls, life, maxMessages, messages, counts>>

\* Mutant: messages[: i+1], which includes the ones that the pool took.
SubmitRefusedPrefix(p) == GiveBack(p, SubSeq(messages[p], 1, index[p]))

\* terminateMessageVisibility(messages[i : i+1]).
SubmitRefused(p) == GiveBack(p, SubSeq(messages[p], index[p], index[p]))

\* terminateMessageVisibility(js), after which poll returns true.
GiveUp(p, js) ==
  /\ Submitting(p) /\ phase \in {"new", "closed"}
  /\ toTerminate' = [toTerminate EXCEPT ![p] = js]
  /\ pc' = [pc EXCEPT ![p] = "giveUp"]
  /\ UNCHANGED <<pool, queues, calls, life, maxMessages, messages, index, counts>>

\* Mutant: only the message at hand.
SubmitErrorOne(p) == GiveUp(p, <<messages[p][index[p]]>>)

\* Submit returns an error: terminateMessageVisibility(messages[i:]).
SubmitError(p) == GiveUp(p, SubSeq(messages[p], index[p], Len(messages[p])))

\* ChangeMessageVisibility(message, 0): without effect if received again since.
Shown(j) ==
  LET m == MessageOf(j) IN
    [visibility EXCEPT ![m] = IF @ = "hidden" /\ j = <<m, receipt[m]>> THEN "visible" ELSE @]

\* The call succeeds, or reports an error that is logged.
Terminate(p) ==
  /\ pc[p] \in {"giveBack", "giveUp"} /\ toTerminate[p] # <<>>
  /\ LET j == Head(toTerminate[p]) IN
       \/ visibility' = Shown(j) /\ UNCHANGED calls
       \/ visibility' \in {visibility, Shown(j)} /\ CallFails(p, {MessageOf(j)})
  /\ toTerminate' = [toTerminate EXCEPT ![p] = Tail(@)]
  /\ UNCHANGED <<pool, receipt, run, maxMessages, messages, index, counts>>

\* Every message is through: on with the loop, or poll returns true.
TerminateReturn(p) ==
  /\ toTerminate[p] = <<>>
  /\ \/ /\ pc[p] = "giveBack" /\ pc' = [pc EXCEPT ![p] = "submit"]
        /\ UNCHANGED <<maxMessages, messages, index>>
     \/ pc[p] = "giveUp" /\ PollReturn(p, TRUE)
  /\ UNCHANGED <<pool, queues, calls, life, toTerminate, counts>>

\* The loop ends and poll returns false.
SubmitReturn(p) ==
  /\ pc[p] = "submit" /\ ~Submitting(p)
  /\ PollReturn(p, FALSE)
  /\ UNCHANGED <<pool, queues, calls, life, toTerminate, counts>>

\* Mutant: Stop does not close wakeUp.
WaitUninterrupted(p) == FALSE

\* wait: interrupted by wakeUp, which Stop closes ...
WaitInterrupted(p) == pc[p] = "wait" /\ quit(p) /\ Goto(p, "top")

\* ... or ended by the ticker.
WaitTick(p) == pc[p] = "wait" /\ Goto(p, "top")

-----------------------------------------------------------------------------
(* job.Execute, by a worker of the pool *)

\* DeleteMessage succeeds.
ExecuteDelete(j) ==
  /\ j \in pending \ executing
  /\ executing' = executing \cup {j}
  /\ \/ visibility' = [visibility EXCEPT ![MessageOf(j)] = "deleted"]
     \/ j # <<MessageOf(j), receipt[MessageOf(j)]>> /\ UNCHANGED visibility
  /\ UNCHANGED <<phase, pending, done, receipt, calls, run, locals, counts>>

\* DeleteMessage fails: Execute returns an error.
ExecuteDeleteFails(j) ==
  /\ j \in pending \ executing
  /\ CallFails(QueueOf[MessageOf(j)], {MessageOf(j)})
  /\ \/ visibility' = [visibility EXCEPT ![MessageOf(j)] = "deleted"]
     \/ UNCHANGED visibility
  /\ Pool!Finish(j)
  /\ UNCHANGED <<executing, receipt, run, locals, counts>>

\* Mutant: the job may be executed again after it has returned.
ExecuteHandleAgain(j) ==
  /\ j \in executing
  /\ Pool!Finish(j) /\ executing' = executing
  /\ handled' = [handled EXCEPT ![MessageOf(j)] =
                   IF MessageOf(j) \in ForeignMessages THEN @ ELSE @ + 1]
  /\ UNCHANGED <<queues, calls, run, locals, expiries>>

\* The owner check, Handle, and the return of Execute.
ExecuteHandle(j) ==
  /\ j \in executing
  /\ Pool!Finish(j) /\ executing' = executing \ {j}
  /\ handled' = [handled EXCEPT ![MessageOf(j)] =
                   IF MessageOf(j) \in ForeignMessages THEN @ ELSE @ + 1]
  /\ UNCHANGED <<queues, calls, run, locals, expiries>>

-----------------------------------------------------------------------------
PollerStep(p) ==
  \/ RunQuit(p) \/ RunExpired(p) \/ RunPoll(p)
  \/ ReceiveMessage(p) \/ ReceiveNothing(p) \/ ReceiveFails(p)
  \/ SubmitAccepted(p) \/ SubmitRefused(p) \/ SubmitError(p) \/ SubmitReturn(p)
  \/ Terminate(p) \/ TerminateReturn(p) \/ WaitInterrupted(p)

Execute(j) == ExecuteDelete(j) \/ ExecuteDeleteFails(j) \/ ExecuteHandle(j)

AllStopped == phase = "closed" /\ \A p \in Pollers : life[p] = "stopped"

\* The pool and the pollers are gone.
Stopped == AllStopped /\ UNCHANGED vars

Next ==
  \/ PoolStart \/ PoolStop \/ PoolStopReturn \/ Stopped
  \/ \E p \in Pollers : \/ Start(p) \/ Stop(p) \/ StopReturn(p) \/ RefreshClient(p)
                        \/ PollerStep(p) \/ WaitTick(p)
  \/ \E m \in Messages : Expire(m) \/ ExpireAbandoned(m)
  \/ \E j \in Jobs : Execute(j)

(* Goroutines run and scripts end, and with them Stop of the pool; the        *)
(* processor starts the pool and the pollers and refreshes tokens; a message  *)
(* that nobody works on reappears.                                            *)
(* The ticker of wait is relied on only until Stop is called.                 *)
Fairness ==
  /\ WF_vars(PoolStart) /\ WF_vars(PoolStopReturn)
  /\ \A p \in Pollers :
       /\ WF_vars(Start(p)) /\ WF_vars(StopReturn(p)) /\ WF_vars(RefreshClient(p))
       /\ WF_vars(PollerStep(p)) /\ WF_vars(~quit(p) /\ WaitTick(p))
  /\ \A m \in Messages : WF_vars(ExpireAbandoned(m))
  /\ \A j \in Jobs : WF_vars(Execute(j))

Spec == Init /\ [][Next]_vars
FairSpec == Spec /\ Fairness

-----------------------------------------------------------------------------
(* Properties *)

\* Every variable has its type.
TypeOK ==
  /\ phase \in {"new", "open", "draining", "closed"}
  /\ pending \subseteq Jobs /\ done \subseteq Jobs /\ executing \subseteq pending
  /\ visibility \in [Messages -> {"visible", "hidden", "deleted"}]
  /\ receipt \in [Messages -> 0 .. MaxReceives]
  /\ isTokenExpired \in [Pollers -> BOOLEAN]
  /\ life \in [Pollers -> {"new", "running", "stopping", "stopped"}]
  /\ pc \in [Pollers -> RunStates]
  /\ maxMessages \in [Pollers -> 0 .. MaxNumberOfMessages]
  /\ messages \in [Pollers -> Seq(Jobs)] /\ toTerminate \in [Pollers -> Seq(Jobs)]
  /\ index \in [Pollers -> Nat \ {0}]
  /\ handled \in [Messages -> Nat] /\ expiries \in [Messages -> Nat]
  /\ failedCalls \subseteq Messages /\ mishaps \in 0 .. MaxMishaps

(* The action of a message runs at most once, and once more for each time     *)
(* its visibility timeout passed while its job was queued: a message that the *)
(* pool took is never given back to the queue.                                *)
AtMostOncePerExpiry == \A m \in Messages : handled[m] <= 1 + expiries[m]

(* A message leaves the queue only for a job that goes on to handle it.       *)
(* Exempt is every message that some call failed for: a delete that reported  *)
(* an error after its effect loses the message, and failedCalls does not tell *)
(* it from a receive or a change of visibility that failed.                   *)
DeletedIsHandled == \A m \in Messages :
  visibility[m] = "deleted" =>
    \/ handled[m] > 0 \/ m \in ForeignMessages \/ m \in failedCalls
    \/ \E j \in executing : MessageOf(j) = m

(* After a graceful stop no message is left hidden, unless a call about it    *)
(* failed - to give it back, to delete it, or to receive it, when the queue   *)
(* hid it and the response was lost: terminateMessageVisibility covers        *)
(* everything that was received and that the pool did not take.               *)
GracefulStop ==
  AllStopped => \A m \in Messages : visibility[m] = "hidden" => m \in failedCalls

(* Stop of a poller returns, without help from the ticker of wait.            *)
StopCompletes == \A p \in Pollers : life[p] = "stopping" ~> life[p] = "stopped"

(* Unless the system is stopped, every message of ours is received until it   *)
(* is handled (in the model MaxReceives times at most, for a full pool may    *)
(* refuse it any number of times), despite failed calls, expired tokens,      *)
(* refusals and timeouts.  Exempt is a message that is gone after a call      *)
(* about it failed: a delete may have reported an error after its effect.     *)
EventuallyHandled == \A m \in Messages \ ForeignMessages :
  <>(\/ handled[m] > 0
     \/ visibility[m] = "deleted" /\ m \in failedCalls
     \/ receipt[m] = MaxReceives
     \/ phase \in {"draining", "closed"}
     \/ life[QueueOf[m]] \in {"stopping", "stopped"})
=============================================================================
