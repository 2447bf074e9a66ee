----------------------------- MODULE RetryerProofs -----------------------------
(***************************************************************************)
(* Theorems about Retryer for every retry limit and every set of status    *)
(* codes a server may answer; the waiting time for the limit of the code,  *)
(* because the provers know powers of two only for given numbers.          *)
(***************************************************************************)
EXTENDS Retryer, SequenceTheorems, TLAPS

Attempts == [answer : Statuses \cup {0}, failed : {"nil", "timeout", "other"},
             from : {"start", "middle", "end"}]

Last == attempts[Len(attempts)]

(* How many attempts there were, counted by retryCount, and that the loop     *)
(* never passes its limit.                                                    *)
CountInv ==
  /\ pc = "new" => Len(attempts) = 0 /\ retryCount = 0
  /\ pc \in {"seek", "do", "sleep"} => Len(attempts) = retryCount
  /\ pc = "sleep" => retryCount > 0
  /\ pc \in {"examine", "caller"} => Len(attempts) = retryCount + 1
  /\ pc # "done" => retryCount < maxRetryCount
  /\ Len(attempts) <= maxRetryCount

(* answer and failed are those of the last attempt; only an attempt that did  *)
(* not fail has a status.                                                     *)
AnswerInv ==
  /\ Len(attempts) > 0 => Last.answer = answer /\ Last.failed = failed
  /\ failed # "nil" => answer = 0
  /\ pc = "caller" => failed = "nil" /\ ~shouldRetry(answer)

(* Responses that nobody has closed: one, between its arrival and its         *)
(* examination, and in the hands of the caller.                               *)
OpenInv ==
  open = IF pc = "caller" \/ (pc = "examine" /\ failed = "nil") THEN 1 ELSE 0

\* Every attempt was worth repeating, but for the one at hand.
RetriedInv ==
  /\ pc \in {"seek", "do", "sleep"} => \A i \in 1 .. Len(attempts) : MayPass(attempts[i])
  /\ \A i \in 1 .. (Len(attempts) - 1) : MayPass(attempts[i])
  /\ pc = "done" => Len(attempts) \in {0, maxRetryCount} \/ ~MayPass(Last)

\* The body has been rewound before it is sent.
BodyInv == (pc = "do" => position = "start") /\ BodyIntact

IInv ==
  /\ LoopTypeOK /\ CountInv /\ AnswerInv /\ OpenInv /\ RetriedInv /\ BodyInv /\ HonestOutcome

(* The sleeps so far, when maxRetryCount is 5.                                *)
WaitInv ==
  /\ pc \in {"new", "seek", "do", "examine", "caller"} => waited = 100 * (2 ^ retryCount - 1)
  /\ pc = "sleep" => waited = 100 * (2 ^ (retryCount - 1) - 1)
  /\ waited \in 0 .. 1500

-----------------------------------------------------------------------------
\* The statuses 5xx.
LEMMA Hundreds == ASSUME NEW s \in Nat PROVE s \div 100 = 5 <=> s \in 500 .. 599
OBVIOUS

(* shouldRetry says of a response what MayPass says of an attempt that got    *)
(* one: the server errors are the statuses 5xx.                               *)
LEMMA RetryIsTransient ==
  ASSUME NEW a \in Attempts, a.failed # "nil" => a.answer = 0
  PROVE  MayPass(a) <=> a.failed = "timeout" \/ (a.failed = "nil" /\ shouldRetry(a.answer))
<1>1. a.answer \in Statuses \cup {0} /\ a.failed \in {"nil", "timeout", "other"}
  BY DEF Attempts
<1>2. a.answer \in Nat
  <2>1. Statuses \cup {0} \subseteq Nat
    BY RetryAssumption
  <2>. QED BY <1>1, <2>1
<1>3. a.answer \div 100 = 5 <=> a.answer \in 500 .. 599
  BY <1>2, Hundreds
<1>. QED BY <1>1, <1>2, <1>3 DEF MayPass, shouldRetry, retryStatusCodes, Attempts

\* Neither caller waits for a status that is retried, or for none.
LEMMA ExpectedIsFinal ==
  ASSUME LoopTypeOK PROVE Expected # 0 /\ ~shouldRetry(Expected)
BY DEF LoopTypeOK, Expected, shouldRetry, retryStatusCodes

\* Before the first attempt the invariant holds.
LEMMA InvInit == Init => IInv
<1>. SUFFICES ASSUME Init PROVE IInv
  OBVIOUS
<1>1. attempts = <<>> /\ Len(attempts) = 0 /\ attempts \in Seq(Attempts)
  BY DEF Init
<1>2. LoopTypeOK
  BY <1>1, RetryAssumption DEF Init, LoopTypeOK, Attempts
<1>. QED BY <1>1, <1>2, RetryAssumption
  DEF Init, IInv, CountInv, AnswerInv, OpenInv, RetriedInv, BodyInv, BodyIntact, HonestOutcome

\* client.Do: one more attempt, from the start of the body.
LEMMA DoStep ==
  ASSUME IInv, NEW status \in Statuses \cup {0}, NEW error \in {"nil", "timeout", "other"},
         error # "nil" => status = 0, Do(status, error)
  PROVE  IInv'
<1>. DEFINE a == [answer |-> status, failed |-> error, from |-> position]
            n == Len(attempts)
<1>0. position = "start" /\ n = retryCount /\ retryCount < maxRetryCount
  BY DEF IInv, BodyInv, CountInv, Do
<1>1. a \in Attempts /\ attempts \in Seq(Attempts) /\ attempts' = Append(attempts, a)
  BY DEF IInv, LoopTypeOK, Attempts, Do
<1>2. n \in Nat /\ Len(attempts') = n + 1 /\ attempts' \in Seq(Attempts)
  BY <1>1
<1>3. attempts'[n + 1] = a /\ \A i \in 1 .. n : attempts'[i] = attempts[i]
  BY <1>1
<1>4. open = 0 /\ pc = "do" /\ pc' = "examine"
  BY DEF IInv, OpenInv, Do
<1>5. LoopTypeOK'
  <2>1. position' \in {"start", "middle", "end"}
    BY <1>0 DEF Do, IInv, LoopTypeOK
  <2>. QED BY <1>2, <1>4, <2>1 DEF IInv, LoopTypeOK, Do, Attempts
<1>6. CountInv' /\ AnswerInv' /\ OpenInv' /\ HonestOutcome'
  BY <1>0, <1>2, <1>3, <1>4, RetryAssumption
     DEF IInv, LoopTypeOK, CountInv, AnswerInv, OpenInv, HonestOutcome, Do, Last
<1>7. RetriedInv'
  BY <1>2, <1>3, <1>4 DEF IInv, RetriedInv, MayPass
<1>8. BodyInv'
  BY <1>0, <1>2, <1>3, <1>4 DEF IInv, BodyInv, BodyIntact
<1>. QED BY <1>5, <1>6, <1>7, <1>8 DEF IInv

(* Every other step leaves the attempts alone; what it needs to know of the   *)
(* last one is in answer and failed.                                          *)
LEMMA OtherStep ==
  ASSUME IInv,
         \/ NewRequest \/ NewRequestFails \/ Seek \/ ReturnError \/ ReturnResponse
         \/ Retry \/ GiveUp \/ Sleep \/ CallerReturns \/ UNCHANGED vars
  PROVE  IInv'
<1>. DEFINE n == Len(attempts)
<1>1. n \in Nat /\ attempts \in Seq(Attempts)
  BY DEF IInv, LoopTypeOK, Attempts
<1>2. n > 0 => Last \in Attempts /\ (MayPass(Last) <=> Transient)
  BY <1>1, RetryIsTransient DEF IInv, AnswerInv, Last, Transient
<1>3. Expected # 0 /\ ~shouldRetry(Expected)
  BY ExpectedIsFinal DEF IInv
<1>. USE RetryAssumption DEF IInv, LoopTypeOK, CountInv, AnswerInv, OpenInv, RetriedInv, BodyInv,
                             BodyIntact, HonestOutcome, Last
<1>4. CASE NewRequest
  BY <1>4, <1>1 DEF NewRequest, Expected
<1>5. CASE NewRequestFails
  BY <1>5, <1>1 DEF NewRequestFails, Expected
<1>6. CASE Seek
  BY <1>6, <1>1 DEF Seek, Expected
<1>7. CASE ReturnError
  BY <1>7, <1>1, <1>2, <1>3 DEF ReturnError, Transient, Expected
<1>8. CASE ReturnResponse
  BY <1>8, <1>1 DEF ReturnResponse, Expected
<1>9. CASE Retry
  BY <1>9, <1>1, <1>2 DEF Retry, Closed, Expected
<1>10. CASE GiveUp
  BY <1>10, <1>1, <1>2, <1>3 DEF GiveUp, Closed, Transient, Expected
<1>11. CASE Sleep
  BY <1>11, <1>1 DEF Sleep, getWaitTime, Expected
<1>12. CASE CallerReturns
  BY <1>12, <1>1, <1>2, <1>3 DEF CallerReturns, Transient, Expected
<1>13. CASE UNCHANGED vars
  BY <1>13, <1>1 DEF vars, Expected
<1>. QED BY <1>4, <1>5, <1>6, <1>7, <1>8, <1>9, <1>10, <1>11, <1>12, <1>13

\* The inductive invariant holds in every reachable state.
THEOREM RetryerInvariant == Spec => []IInv
<1>1. IInv /\ [Next]_vars => IInv'
  <2>. SUFFICES ASSUME IInv, [Next]_vars PROVE IInv'
    OBVIOUS
  <2>1. CASE DoAnswered \/ DoTimeout \/ DoFails
    BY <2>1, DoStep DEF DoAnswered, DoTimeout, DoFails
  <2>. QED BY <2>1, OtherStep DEF Next
<1>. QED BY InvInit, <1>1, PTL DEF Spec

(* Whatever the server answers, what it has answered for good is not sent     *)
(* again, and the client gives up only after maxRetryCount attempts.          *)
THEOREM RetryerEffort == Spec => []EffortJustified
<1>1. IInv => EffortJustified
  BY RetryAssumption DEF IInv, LoopTypeOK, CountInv, RetriedInv, EffortJustified, Last
<1>. QED BY RetryerInvariant, <1>1, PTL

\* Every attempt sends the body from its start (the Seek of retryer.go:62).
THEOREM RetryerBody == Spec => []BodyIntact
BY RetryerInvariant, PTL DEF IInv, BodyInv

(* The callers report what the server's last word was, and close every        *)
(* response.                                                                  *)
THEOREM RetryerOutcome == Spec => []HonestOutcome
BY RetryerInvariant, PTL DEF IInv

-----------------------------------------------------------------------------
\* The powers of two that five attempts need.
LEMMA Powers == 2 ^ 0 = 1 /\ 2 ^ 1 = 2 /\ 2 ^ 2 = 4 /\ 2 ^ 3 = 8 /\ 2 ^ 4 = 16
OBVIOUS

\* Every step of a client with five attempts keeps to the sum of its sleeps.
LEMMA WaitStep ==
  ASSUME maxRetryCount = 5, IInv, WaitInv, [Next]_vars
  PROVE  WaitInv'
<1>1. retryCount \in 0 .. 5 /\ (pc # "done" => retryCount \in 0 .. 4) /\ waited \in Nat
  BY DEF IInv, LoopTypeOK, CountInv, WaitInv
<1>2. CASE Sleep
  <2>1. retryCount \in 1 .. 4 /\ waited = 100 * (2 ^ (retryCount - 1) - 1)
    BY <1>1, <1>2 DEF Sleep, IInv, CountInv, WaitInv
  <2>2. waited' = waited + 2 ^ (retryCount - 1) * 100 /\ pc' = "seek" /\ retryCount' = retryCount
    BY <1>2 DEF Sleep, getWaitTime
  <2>3. CASE retryCount = 1
    BY <2>1, <2>2, <2>3, Powers DEF WaitInv
  <2>4. CASE retryCount = 2
    BY <2>1, <2>2, <2>4, Powers DEF WaitInv
  <2>5. CASE retryCount = 3
    BY <2>1, <2>2, <2>5, Powers DEF WaitInv
  <2>6. CASE retryCount = 4
    BY <2>1, <2>2, <2>6, Powers DEF WaitInv
  <2>. QED BY <2>1, <2>3, <2>4, <2>5, <2>6
<1>3. CASE Retry
  <2>1. retryCount' = retryCount + 1 /\ (retryCount + 1) - 1 = retryCount
    BY <1>1, <1>3 DEF Retry
  <2>. QED BY <1>3, <2>1 DEF Retry, WaitInv
<1>4. CASE [Next]_vars /\ ~Sleep /\ ~Retry
  <2>1. CASE UNCHANGED vars \/ NewRequest \/ Seek \/ ReturnResponse
    BY <2>1 DEF vars, NewRequest, Seek, ReturnResponse, WaitInv
  <2>2. CASE DoAnswered \/ DoTimeout \/ DoFails
    <3>1. pc = "do" /\ pc' = "examine" /\ UNCHANGED <<retryCount, waited>>
      BY <2>2 DEF DoAnswered, DoTimeout, DoFails, Do
    <3>. QED BY <3>1 DEF WaitInv
  <2>3. CASE NewRequestFails \/ ReturnError \/ GiveUp \/ CallerReturns
    BY <2>3 DEF NewRequestFails, ReturnError, GiveUp, CallerReturns, WaitInv
  <2>. QED BY <1>4, <2>1, <2>2, <2>3 DEF Next
<1>. QED BY <1>2, <1>3, <1>4

\* With the limit of the code the sum of the sleeps is known at every step.
LEMMA WaitInvariant == ASSUME maxRetryCount = 5 PROVE Spec => []WaitInv
<1>1. Init => WaitInv
  BY Powers DEF Init, WaitInv
<1>2. IInv /\ WaitInv /\ [Next]_vars => WaitInv'
  BY WaitStep
<1>. QED BY RetryerInvariant, <1>1, <1>2, PTL DEF Spec

(* With the limit of the code (retryer.go:15) the sleeps of n attempts add up *)
(* to 100 (2^(n-1) - 1) ms, 1.5 s at most.                                    *)
THEOREM RetryerBackoff == maxRetryCount = 5 => (Spec => []BackoffBudget)
<1>. SUFFICES ASSUME maxRetryCount = 5 PROVE Spec => []BackoffBudget
  OBVIOUS
<1>1. IInv /\ WaitInv => BackoffBudget
  <2>1. 5 - 1 = 4
    OBVIOUS
  <2>. QED BY <2>1, Powers DEF IInv, CountInv, WaitInv, BackoffBudget
<1>. QED BY RetryerInvariant, WaitInvariant, <1>1, PTL

(* The state of the loop keeps its types, and at most one response is open.   *)
THEOREM RetryerTypes == maxRetryCount = 5 => (Spec => []TypeOK)
<1>. SUFFICES ASSUME maxRetryCount = 5 PROVE Spec => []TypeOK
  OBVIOUS
<1>1. IInv /\ WaitInv => TypeOK
  BY DEF IInv, TypeOK, WaitInv
<1>. QED BY RetryerInvariant, WaitInvariant, <1>1, PTL

-----------------------------------------------------------------------------
(* How the loop comes to an end *)

\* What is left to do is never less than nothing.
RankNat == Rank \in Nat

\* The conditions after an attempt, in the order of the code, leave out no case.
GoesOn ==
  \/ pc \in {"new", "seek", "do", "sleep", "caller", "done"}
  \/ pc = "examine" /\ \/ failed = "other"
                       \/ failed = "nil" /\ ~shouldRetry(answer)
                       \/ Transient /\ retryCount + 1 < maxRetryCount
                       \/ Transient /\ retryCount + 1 = maxRetryCount

LEMMA PcRankIs ==
  /\ PcRank("new") = 5 /\ PcRank("sleep") = 5 /\ PcRank("seek") = 4 /\ PcRank("do") = 3
  /\ PcRank("examine") = 2 /\ PcRank("caller") = 1 /\ PcRank("done") = 0
BY DEF PcRank

LEMMA RankStep == IInv /\ IInv' /\ [Next]_vars => [Rank' < Rank]_vars
<1>. SUFFICES ASSUME IInv, IInv', Next PROVE Rank' < Rank
  BY DEF vars
<1>1. retryCount \in 0 .. maxRetryCount /\ retryCount' \in 0 .. maxRetryCount /\ maxRetryCount \in Nat
  BY RetryAssumption DEF IInv, LoopTypeOK
<1>2. \/ retryCount' = retryCount /\ \/ pc = "new" /\ pc' \in {"seek", "done"}
                                     \/ pc = "seek" /\ pc' = "do"
                                     \/ pc = "do" /\ pc' = "examine"
                                     \/ pc = "examine" /\ pc' \in {"caller", "done"}
                                     \/ pc = "sleep" /\ pc' = "seek"
                                     \/ pc = "caller" /\ pc' = "done"
      \/ retryCount' = retryCount + 1 /\ pc = "examine" /\ pc' \in {"sleep", "done"}
  BY DEF Next, NewRequest, NewRequestFails, Seek, DoAnswered, DoTimeout, DoFails, Do, ReturnError, ReturnResponse,
         Retry, GiveUp, Sleep, CallerReturns
<1>3. CASE retryCount' = retryCount
  <2>1. PcRank(pc') < PcRank(pc) /\ PcRank(pc') \in Nat /\ PcRank(pc) \in Nat
    BY <1>1, <1>2, <1>3, PcRankIs
  <2>. QED BY <1>1, <1>3, <2>1 DEF Rank
<1>4. CASE retryCount' = retryCount + 1
  <2>1. PcRank(pc') \in 0 .. 5 /\ PcRank(pc) = 2
    BY <1>1, <1>2, <1>4, PcRankIs
  <2>. QED BY <1>1, <1>4, <2>1 DEF Rank
<1>. QED BY <1>2, <1>3, <1>4

(* Whatever the server answers, every step of the loop and of its callers     *)
(* lowers the same natural number, and until the caller has its answer one of *)
(* their branches applies.  So it gets one, if the goroutine is scheduled.    *)
THEOREM RetryerEnds == Spec => RetriesRunOut /\ []GoesOn
<1>1. IInv => RankNat /\ GoesOn
  <2>. SUFFICES ASSUME IInv PROVE RankNat /\ GoesOn
    OBVIOUS
  <2>1. retryCount \in 0 .. maxRetryCount /\ maxRetryCount \in Nat
    BY RetryAssumption DEF IInv, LoopTypeOK
  <2>2. PcRank(pc) \in Nat
    BY PcRankIs DEF IInv, LoopTypeOK
  <2>3. RankNat
    BY <2>1, <2>2 DEF RankNat, Rank
  <2>4. GoesOn
    BY <2>1 DEF IInv, LoopTypeOK, CountInv, GoesOn, Transient
  <2>. QED BY <2>3, <2>4
<1>2. IInv /\ IInv' /\ [Next]_vars => [Rank' \in Nat /\ Rank' < Rank]_vars
  <2>1. IInv' => RankNat'
    BY <1>1, PTL
  <2>. QED BY <2>1, RankStep DEF RankNat
<1>. QED BY <1>1, <1>2, RetryerInvariant, PTL DEF Spec, RetriesRunOut
=============================================================================
