---------------------------------- MODULE Job ----------------------------------
(***************************************************************************)
(* One job: Execute of src/queue/job.go with Handle of src/queue/message.go *)
(* inside it, called by several goroutines, and the goroutine that sends   *)
(* the result.  Execute holds executeMutex from its first to its last      *)
(* line.  The sender assigns the variable err that Execute declared and    *)
(* reads once more (a data race; the read yields the old or the new value).*)
(*                                                                         *)
(* Definitions marked "Mutant" are explained in WorkerPool.                *)
(***************************************************************************)
EXTENDS Naturals, Sequences

CONSTANTS
  Callers,        \* goroutines that call Execute
  NoCaller

ASSUME CallersAssumption == NoCaller \notin Callers

(* What Handle can meet, in the order it looks: a body that does not parse or *)
(* names no action, an action that is not configured or of another type, a    *)
(* source it cannot run, a script that fails, a script that succeeds but      *)
(* whose output is not the HTTP response asked for, one that succeeds.        *)
(* "foreign" fails the owner check of Execute before Handle is called.        *)
Kinds == {"foreign", "malformed", "unmapped", "noSource", "scriptFails", "badResponse", "ok"}

\* The pair that Handle returns: a result to send ("none" is nil) and an error.
Handle(kind) ==
  CASE kind \in {"malformed", "noSource"}        -> [result |-> "none",    err |-> TRUE]
    [] kind = "unmapped"                         -> [result |-> "failure", err |-> TRUE]
    [] kind \in {"scriptFails", "badResponse"}   -> [result |-> "failure", err |-> FALSE]
    [] kind = "ok"                               -> [result |-> "success", err |-> FALSE]

VARIABLES
  kind,           \* of the message
  state,          \* "jobInitial", "jobExecuting", "jobFinished", "jobError"
  executeMutex,   \* the caller inside Execute, or NoCaller
  pc,             \* of a caller: "idle", "locked", "deleted", "handled", "returned"
  returned,       \* what Execute returned to a caller: "none", "nil", "error"
  err,            \* the captured variable: TRUE when it holds an error
  result,
  sender,         \* the goroutine of the send: "off", "sending", "done"
  handled,        \* history: calls of Handle
  handedOver      \* history: results that SendResultToJsm was called with

vars == <<kind, state, executeMutex, pc, returned, err, result, sender, handled, handedOver>>

Init ==
  /\ kind \in Kinds
  /\ state = "jobInitial" /\ executeMutex = NoCaller
  /\ pc = [c \in Callers |-> "idle"] /\ returned = [c \in Callers |-> "none"]
  /\ err = FALSE /\ result = "none" /\ sender = "off" /\ handled = 0 /\ handedOver = <<>>

Lock(c) ==
  /\ pc[c] = "idle" /\ executeMutex = NoCaller
  /\ executeMutex' = c /\ pc' = [pc EXCEPT ![c] = "locked"]
  /\ UNCHANGED <<kind, state, returned, err, result, sender, handled, handedOver>>

\* Execute returns and unlocks.
Return(c, newState, value) ==
  /\ state' = newState
  /\ returned' = [returned EXCEPT ![c] = value]
  /\ executeMutex' = NoCaller /\ pc' = [pc EXCEPT ![c] = "returned"]

AlreadyExecuted(c) ==
  /\ pc[c] = "locked" /\ state # "jobInitial"
  /\ Return(c, state, "error")
  /\ UNCHANGED <<kind, err, result, sender, handled, handedOver>>

\* Mutant: a job that failed may be executed again.
DeleteAfterError(c) ==
  /\ pc[c] = "locked" /\ state \in {"jobInitial", "jobError"}
  /\ state' = "jobExecuting" /\ pc' = [pc EXCEPT ![c] = "deleted"]
  /\ UNCHANGED <<kind, executeMutex, returned, err, result, sender, handled, handedOver>>

\* DeleteMessage succeeds.
DeleteMessage(c) ==
  /\ pc[c] = "locked" /\ state = "jobInitial"
  /\ state' = "jobExecuting" /\ pc' = [pc EXCEPT ![c] = "deleted"]
  /\ UNCHANGED <<kind, executeMutex, returned, err, result, sender, handled, handedOver>>

\* Mutant: the early return keeps executeMutex locked.
DeleteMessageFailsLocked(c) ==
  /\ pc[c] = "locked" /\ state = "jobInitial"
  /\ state' = "jobError" /\ returned' = [returned EXCEPT ![c] = "error"]
  /\ pc' = [pc EXCEPT ![c] = "returned"]
  /\ UNCHANGED <<kind, executeMutex, err, result, sender, handled, handedOver>>

DeleteMessageFails(c) ==
  /\ pc[c] = "locked" /\ state = "jobInitial"
  /\ Return(c, "jobError", "error")
  /\ UNCHANGED <<kind, err, result, sender, handled, handedOver>>

ForeignMessage(c) ==
  /\ pc[c] = "deleted" /\ kind = "foreign"
  /\ Return(c, "jobError", "error")
  /\ UNCHANGED <<kind, err, result, sender, handled, handedOver>>

\* Mutant: no result, no goroutine, when Handle also returned an error.
HandleMessageSilently(c) ==
  /\ pc[c] = "deleted" /\ kind # "foreign"
  /\ handled' = handled + 1
  /\ result' = Handle(kind).result /\ err' = Handle(kind).err
  /\ sender' = IF result' # "none" /\ ~err' THEN "sending" ELSE "off"
  /\ pc' = [pc EXCEPT ![c] = "handled"]
  /\ UNCHANGED <<kind, state, executeMutex, returned, handedOver>>

\* Mutant: a goroutine for a nil result too.
HandleMessageSendsNil(c) ==
  /\ pc[c] = "deleted" /\ kind # "foreign"
  /\ handled' = handled + 1
  /\ result' = Handle(kind).result /\ err' = Handle(kind).err
  /\ sender' = "sending" /\ pc' = [pc EXCEPT ![c] = "handled"]
  /\ UNCHANGED <<kind, state, executeMutex, returned, handedOver>>

\* Handle, and the goroutine for its result.
HandleMessage(c) ==
  /\ pc[c] = "deleted" /\ kind # "foreign"
  /\ handled' = handled + 1
  /\ result' = Handle(kind).result /\ err' = Handle(kind).err
  /\ sender' = IF result' # "none" THEN "sending" ELSE "off"
  /\ pc' = [pc EXCEPT ![c] = "handled"]
  /\ UNCHANGED <<kind, state, executeMutex, returned, handedOver>>

\* if err != nil, read while the goroutine may already have assigned it.
CheckError(c) ==
  /\ pc[c] = "handled"
  /\ IF err THEN Return(c, "jobError", "error") ELSE Return(c, "jobFinished", "nil")
  /\ UNCHANGED <<kind, err, result, sender, handled, handedOver>>

\* err = SendResultToJsm(result), called and returned: without an error, or with
\* one, after which nobody calls it again.  What JSM gets is Retryer's matter.
SendResult ==
  /\ sender = "sending"
  /\ handedOver' = Append(handedOver, result) /\ err' \in BOOLEAN /\ sender' = "done"
  /\ UNCHANGED <<kind, state, executeMutex, pc, returned, result, handled>>

Execute(c) ==
  \/ Lock(c) \/ AlreadyExecuted(c) \/ DeleteMessage(c) \/ DeleteMessageFails(c)
  \/ ForeignMessage(c) \/ HandleMessage(c) \/ CheckError(c)

Finished ==
  /\ \A c \in Callers : pc[c] = "returned"
  /\ sender # "sending" /\ UNCHANGED vars

Next == (\E c \in Callers : Execute(c)) \/ SendResult \/ Finished

\* Goroutines that can run do run; scripts and HTTP calls end.
Fairness == (\A c \in Callers : WF_vars(Execute(c))) /\ WF_vars(SendResult)

Spec == Init /\ [][Next]_vars
FairSpec == Spec /\ Fairness

-----------------------------------------------------------------------------
(* Properties *)

\* Every variable has its type.
TypeOK ==
  /\ kind \in Kinds
  /\ state \in {"jobInitial", "jobExecuting", "jobFinished", "jobError"}
  /\ executeMutex \in Callers \cup {NoCaller}
  /\ pc \in [Callers -> {"idle", "locked", "deleted", "handled", "returned"}]
  /\ returned \in [Callers -> {"none", "nil", "error"}]
  /\ err \in BOOLEAN /\ result \in {"none", "failure", "success"}
  /\ sender \in {"off", "sending", "done"}
  /\ handled \in Nat /\ handedOver \in Seq({"failure", "success"})

(* However many goroutines call Execute, the script runs at most once, never  *)
(* for a message of another owner, and at most one caller is told that it     *)
(* succeeded - the one in whose call the script ran.                          *)
ExecutedOnce ==
  /\ handled <= 1 /\ (kind = "foreign" => handled = 0)
  /\ \A c, d \in Callers : returned[c] = "nil" /\ returned[d] = "nil" => c = d
  /\ \A c \in Callers : returned[c] = "nil" => handled = 1 /\ state = "jobFinished"

(* Once a message has been handled, SendResultToJsm is called with the result *)
(* that Handle made of it, if it made one, and called once: also for failures *)
(* that Handle returns both as a result and as an error, and whatever Execute *)
(* itself returns.  The call may still fail, or end with the process.         *)
OutcomeHandedOver ==
  \A k \in Kinds \ {"foreign"} :
    (kind = k /\ handled = 1)
       ~> (sender # "sending" /\ handedOver = SelectSeq(<<Handle(k).result>>, LAMBDA r : r # "none"))

(* Execute always comes to an end and leaves the job in a final state.        *)
ExecuteReturns ==
  \A c \in Callers : <>(returned[c] # "none" /\ state \in {"jobFinished", "jobError"})

(* An error of Handle ends in jobError and in an error for the caller         *)
(* (TestExecuteWithProcessError).  Does not hold: see SendResult.             *)
HandlerErrorReported ==
  \A c \in Callers : returned[c] = "nil" => kind # "foreign" /\ ~Handle(kind).err
=============================================================================
