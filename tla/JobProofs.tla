------------------------------- MODULE JobProofs -------------------------------
(***************************************************************************)
(* Theorems about Job for any number of goroutines that call Execute.      *)
(* ExecutedOnce is not inductive: nothing in it says that only the owner   *)
(* of executeMutex can be past the check of the state, nor that the state  *)
(* never becomes jobInitial again.                                         *)
(***************************************************************************)
EXTENDS Job, SequenceTheorems, TLAPS

\* Exactly the owner of executeMutex is between Lock and Return.
MutexInv == \A c \in Callers :
  pc[c] \in {"locked", "deleted", "handled"} <=> executeMutex = c

(* The state says how far the execution has come: a caller is past the check  *)
(* of the state exactly in jobExecuting, before which nothing was handled,    *)
(* and only jobFinished lets a caller be told of success.                     *)
StateInv ==
  /\ state = "jobInitial" => handled = 0
  /\ \A c \in Callers :
       /\ pc[c] \in {"deleted", "handled"} => state = "jobExecuting"
       /\ pc[c] = "deleted" => handled = 0
       /\ pc[c] = "handled" => handled = 1
       /\ returned[c] # "none" => pc[c] = "returned"

IInv == TypeOK /\ MutexInv /\ StateInv /\ ExecutedOnce

(* What the sender has done, in terms of what Handle returned.                *)
SenderInv ==
  /\ handled = 0 => sender = "off"
  /\ handled = 1 => /\ result = Handle(kind).result
                    /\ sender = "off" <=> result = "none"
  /\ handedOver = IF sender = "done" THEN <<result>> ELSE <<>>

(* A job calls SendResultToJsm (job.go:89) at most once, whether or not the   *)
(* call succeeds, never with a nil result, and with no other than the one     *)
(* that Handle returned for this message.  How often the retryer then sends   *)
(* the request, and whether JSM gets it, is not said here.                    *)
HandedOverAtMostOnce == handedOver # <<>> => handled = 1 /\ handedOver = <<Handle(kind).result>>

-----------------------------------------------------------------------------
\* What Handle returns for a message that passed the owner check.
LEMMA HandleType ==
  ASSUME NEW k \in Kinds, k # "foreign"
  PROVE  Handle(k).result \in {"none", "failure", "success"} /\ Handle(k).err \in BOOLEAN
BY DEF Kinds, Handle

\* newJob establishes the invariant.
LEMMA InvInit == Init => IInv /\ SenderInv
<1>. SUFFICES ASSUME Init PROVE IInv /\ SenderInv
  OBVIOUS
<1>1. handedOver \in Seq({"failure", "success"})
  BY DEF Init
<1>2. err \in BOOLEAN
  BY DEF Init
<1>3. TypeOK
  BY <1>1, <1>2 DEF Init, TypeOK
<1>4. MutexInv /\ StateInv /\ ExecutedOnce /\ SenderInv
  BY CallersAssumption DEF Init, MutexInv, StateInv, ExecutedOnce, SenderInv
<1>. QED BY <1>3, <1>4 DEF IInv

(* The steps of one caller.  Those before the handler and the early returns   *)
(* leave the history alone, so only HandleMessage and CheckError matter to    *)
(* ExecutedOnce.                                                              *)
LEMMA ExecuteStep ==
  ASSUME IInv, NEW c \in Callers, Execute(c)
  PROVE  IInv'
<1>. USE CallersAssumption DEF IInv, TypeOK, MutexInv, StateInv, ExecutedOnce
<1>1. CASE Lock(c)
  BY <1>1 DEF Lock
<1>2. CASE AlreadyExecuted(c)
  BY <1>2 DEF AlreadyExecuted, Return
<1>3. CASE DeleteMessage(c)
  BY <1>3 DEF DeleteMessage
<1>4. CASE DeleteMessageFails(c)
  BY <1>4 DEF DeleteMessageFails, Return
<1>5. CASE ForeignMessage(c)
  BY <1>5 DEF ForeignMessage, Return
<1>6. CASE HandleMessage(c)
  BY <1>6, HandleType DEF HandleMessage
<1>7. CASE CheckError(c)
  BY <1>7 DEF CheckError, Return
<1>. QED BY <1>1, <1>2, <1>3, <1>4, <1>5, <1>6, <1>7 DEF Execute

\* The sender, the end, and steps of others.
LEMMA OtherStep ==
  ASSUME IInv, SenderInv, SendResult \/ Finished \/ UNCHANGED vars
  PROVE  IInv'
<1>. USE DEF IInv, TypeOK, MutexInv, StateInv, ExecutedOnce
<1>1. CASE SendResult
  <2>1. result \in {"failure", "success"}
    BY <1>1 DEF SendResult, SenderInv
  <2>. QED BY <1>1, <2>1 DEF SendResult
<1>2. CASE Finished \/ UNCHANGED vars
  BY <1>2 DEF Finished, vars
<1>. QED BY <1>1, <1>2

\* Every step keeps what the sender has done in line with the handler.
LEMMA SenderStep ==
  ASSUME IInv, SenderInv, [Next]_vars
  PROVE  SenderInv'
<1>. USE DEF IInv, TypeOK, StateInv, ExecutedOnce, SenderInv
<1>1. ASSUME NEW c \in Callers, HandleMessage(c) PROVE SenderInv'
  BY <1>1, HandleType DEF HandleMessage
<1>2. ASSUME NEW c \in Callers, Execute(c), ~HandleMessage(c) PROVE SenderInv'
  BY <1>2 DEF Execute, Lock, AlreadyExecuted, DeleteMessage, DeleteMessageFails,
              ForeignMessage, CheckError, Return
<1>3. CASE SendResult
  BY <1>3 DEF SendResult
<1>4. CASE Finished \/ UNCHANGED vars
  BY <1>4 DEF Finished, vars
<1>. QED BY <1>1, <1>2, <1>3, <1>4 DEF Next

\* The inductive invariant holds in every reachable state.
THEOREM JobInvariant == Spec => [](IInv /\ SenderInv)
<1>1. IInv /\ SenderInv /\ [Next]_vars => IInv' /\ SenderInv'
  BY ExecuteStep, OtherStep, SenderStep DEF Next
<1>. QED BY InvInit, <1>1, PTL DEF Spec

\* The variables of job, of its callers and of the sender keep their types.
THEOREM JobTypes == Spec => []TypeOK
BY JobInvariant, PTL DEF IInv

(* However many goroutines call Execute, the script runs at most once, never  *)
(* for a foreign message, and one caller at most is told of success.          *)
THEOREM JobExecutedOnce == Spec => []ExecutedOnce
BY JobInvariant, PTL DEF IInv

(* However the sender interleaves with the callers, at most one result is     *)
(* handed to SendResultToJsm, and it is the one that Handle returned.         *)
THEOREM JobHandsOverAtMostOnce == Spec => []HandedOverAtMostOnce
<1>1. IInv /\ SenderInv => HandedOverAtMostOnce
  BY DEF IInv, TypeOK, ExecutedOnce, SenderInv, HandedOverAtMostOnce
<1>. QED BY JobInvariant, <1>1, PTL

-----------------------------------------------------------------------------
(* How Execute comes to an end *)

\* A goroutine waits in Execute only for executeMutex, while another has it.
CallerReady(c) ==
  pc[c] \in {"locked", "deleted", "handled"} \/ (pc[c] = "idle" /\ executeMutex = NoCaller)

(* Where neither a caller nor the sender can go on, every Execute has         *)
(* returned, the job is in a final state, and SendResultToJsm has been called *)
(* with the result of the handler: what ExecuteReturns and OutcomeHandedOver  *)
(* say of such a state.                                                       *)
EndsHandedOver ==
  (\A c \in Callers : ~CallerReady(c)) /\ sender # "sending" =>
    /\ \A c \in Callers : returned[c] # "none" /\ state \in {"jobFinished", "jobError"}
    /\ handedOver = IF handled = 1 /\ Handle(kind).result # "none" THEN <<Handle(kind).result>> ELSE <<>>

\* jobExecuting only while somebody executes, and a caller returns from a final state only.
FinalInv ==
  /\ state = "jobExecuting" => \E c \in Callers : pc[c] \in {"deleted", "handled"}
  /\ \A c \in Callers : pc[c] = "returned" => returned[c] # "none" /\ state \in {"jobFinished", "jobError"}

CallerRank(s) ==
  CASE s = "idle" -> 4 [] s = "locked" -> 3 [] s = "deleted" -> 2 [] s = "handled" -> 1 [] OTHER -> 0

(* A step takes one caller nearer to its return and leaves the others, or it  *)
(* ends the send.                                                             *)
JobProgress ==
  \/ \E c \in Callers : /\ CallerRank(pc'[c]) < CallerRank(pc[c])
                        /\ \A d \in Callers \ {c} : pc'[d] = pc[d]
  \/ pc' = pc /\ sender = "sending" /\ sender' = "done"

LEMMA FinalStep == IInv /\ FinalInv /\ [Next]_vars => FinalInv'
<1>. SUFFICES ASSUME IInv, FinalInv, [Next]_vars PROVE FinalInv'
  OBVIOUS
<1>. USE DEF IInv, TypeOK, MutexInv, StateInv, FinalInv
<1>1. ASSUME NEW c \in Callers, Lock(c) PROVE FinalInv'
  BY <1>1 DEF Lock
<1>2. ASSUME NEW c \in Callers, AlreadyExecuted(c) PROVE FinalInv'
  <2>1. \A d \in Callers : pc[d] \notin {"deleted", "handled"}
    BY <1>2 DEF AlreadyExecuted
  <2>2. state \in {"jobFinished", "jobError"}
    BY <1>2, <2>1 DEF AlreadyExecuted
  <2>. QED BY <1>2, <2>2 DEF AlreadyExecuted, Return
<1>3. ASSUME NEW c \in Callers, DeleteMessage(c) PROVE FinalInv'
  <2>1. \A d \in Callers : pc[d] # "returned"
    BY <1>3 DEF DeleteMessage
  <2>2. pc'[c] = "deleted" /\ \A d \in Callers : pc'[d] # "returned"
    BY <1>3, <2>1 DEF DeleteMessage
  <2>. QED BY <2>2
<1>4. ASSUME NEW c \in Callers, DeleteMessageFails(c) \/ ForeignMessage(c) \/ CheckError(c) PROVE FinalInv'
  <2>1. /\ state' \in {"jobFinished", "jobError"}
        /\ \A d \in Callers : d # c => pc'[d] = pc[d] /\ returned'[d] = returned[d]
        /\ returned'[c] # "none"
    BY <1>4 DEF DeleteMessageFails, ForeignMessage, CheckError, Return
  <2>. QED BY <2>1
<1>5. ASSUME NEW c \in Callers, HandleMessage(c) PROVE FinalInv'
  <2>1. pc'[c] = "handled" /\ \A d \in Callers : d # c => pc'[d] = pc[d]
    BY <1>5 DEF HandleMessage
  <2>. QED BY <1>5, <2>1 DEF HandleMessage
<1>6. CASE SendResult \/ Finished \/ UNCHANGED vars
  BY <1>6 DEF SendResult, Finished, vars
<1>. QED BY <1>1, <1>2, <1>3, <1>4, <1>5, <1>6 DEF Next, Execute

LEMMA CallerRankIs ==
  /\ CallerRank("idle") = 4 /\ CallerRank("locked") = 3 /\ CallerRank("deleted") = 2
  /\ CallerRank("handled") = 1 /\ CallerRank("returned") = 0
BY DEF CallerRank

LEMMA ProgressStep == IInv /\ [Next]_vars => [JobProgress]_vars
<1>. SUFFICES ASSUME IInv, [Next]_vars PROVE [JobProgress]_vars
  OBVIOUS
<1>1. ASSUME NEW c \in Callers, Execute(c) PROVE JobProgress
  <2>1. /\ \/ pc[c] = "idle" /\ pc'[c] = "locked"
           \/ pc[c] = "locked" /\ pc'[c] \in {"deleted", "returned"}
           \/ pc[c] = "deleted" /\ pc'[c] \in {"handled", "returned"}
           \/ pc[c] = "handled" /\ pc'[c] = "returned"
        /\ \A d \in Callers \ {c} : pc'[d] = pc[d]
    BY <1>1 DEF IInv, TypeOK, Execute, Lock, AlreadyExecuted, DeleteMessage, DeleteMessageFails, ForeignMessage,
                HandleMessage, CheckError, Return
  <2>2. CallerRank(pc'[c]) < CallerRank(pc[c])
    BY <2>1, CallerRankIs
  <2>. QED BY <2>1, <2>2 DEF JobProgress
<1>2. CASE SendResult
  BY <1>2 DEF SendResult, JobProgress
<1>3. CASE Finished \/ UNCHANGED vars
  BY <1>3 DEF Finished
<1>. QED BY <1>1, <1>2, <1>3 DEF Next

(* However many goroutines call Execute, they come to where none can go on in *)
(* a bounded number of steps, and there nobody is left waiting for            *)
(* executeMutex, the job is final and SendResultToJsm has been called with    *)
(* its result, if it has one.                                                 *)
THEOREM JobEndsHandedOver == Spec => []EndsHandedOver /\ [][JobProgress]_vars
<1>1. Init => FinalInv
  BY DEF Init, FinalInv
<1>2. IInv /\ FinalInv /\ [Next]_vars => FinalInv' /\ [JobProgress]_vars
  BY FinalStep, ProgressStep
<1>3. IInv /\ SenderInv /\ FinalInv => EndsHandedOver
  <2>. SUFFICES ASSUME IInv, SenderInv, FinalInv, \A c \in Callers : ~CallerReady(c), sender # "sending"
       PROVE  /\ \A c \in Callers : returned[c] # "none" /\ state \in {"jobFinished", "jobError"}
              /\ handedOver = IF handled = 1 /\ Handle(kind).result # "none" THEN <<Handle(kind).result>> ELSE <<>>
    BY DEF EndsHandedOver
  <2>1. executeMutex = NoCaller
    BY DEF CallerReady, IInv, TypeOK, MutexInv
  <2>2. \A c \in Callers : pc[c] = "returned"
    BY <2>1 DEF CallerReady, IInv, TypeOK
  <2>3. handled \in {0, 1}
    BY DEF IInv, TypeOK, ExecutedOnce
  <2>. QED BY <2>2, <2>3 DEF FinalInv, SenderInv, IInv, TypeOK
<1>. QED BY <1>1, <1>2, <1>3, JobInvariant, PTL DEF Spec
=============================================================================
