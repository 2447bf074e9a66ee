----------------------------- MODULE PollerProofs -----------------------------
(***************************************************************************)
(* Theorems about Poller for any pollers, messages, pool and bounds.       *)
(*                                                                         *)
(* The argument follows the jobs that somebody holds: a poller, between    *)
(* receiving a message and submitting it or giving it back, or the pool.   *)
(* A step leaves the held jobs alone, receives some or lets go of one.     *)
(* AtMostOncePerExpiry counts them: a message that is neither deleted nor  *)
(* hidden for the holder of its latest receipt may be received again, so   *)
(* it counts like a job; with the times it was handled these are never     *)
(* more than one and its expiries.                                         *)
(***************************************************************************)
EXTENDS Poller, FiniteSetTheorems, SequenceTheorems, TLAPS

\* The elements of a sequence from the i-th on, and that none occurs twice.
From(s, i)  == {s[k] : k \in i .. Len(s)}
Distinct(s) == \A i, k \in 1 .. Len(s) : s[i] = s[k] => i = k

\* What poll has not submitted yet, and what it is giving back.
Rest(p)  == From(messages[p], index[p])
Given(p) == From(toTerminate[p], 1)

\* In "giveUp" the rest is being given back.
Hand(p) == (IF pc[p] \in {"submit", "giveBack"} THEN Rest(p) ELSE {}) \cup Given(p)

Held == pending \cup UNION {Hand(p) : p \in Pollers}

\* The receipts of m that somebody holds.
Live(m) == {r \in 1 .. MaxReceives : <<m, r>> \in Held}

(* The local variables of poll are empty outside of it, and a poller that has *)
(* not been started or has been stopped is outside.                           *)
LoopInv == \A p \in Pollers :
  /\ pc[p] \notin {"submit", "giveBack", "giveUp"} => messages[p] = <<>> /\ index[p] = 1
  /\ pc[p] \notin {"giveBack", "giveUp"} => toTerminate[p] = <<>>
  /\ (life[p] = "new" => pc[p] = "off") /\ (life[p] = "stopped" => pc[p] = "done")

\* No job is in the hand of a poller twice.
DistinctInv == \A p \in Pollers :
  /\ Distinct(messages[p]) /\ Distinct(toTerminate[p])
  /\ pc[p] = "giveBack" => Rest(p) \cap Given(p) = {}

\* A job is in one hand or in the pool, and no receipt is from the future.
HolderInv ==
  /\ \A p \in Pollers : \A j \in Hand(p) : QueueOf[MessageOf(j)] = p /\ j \notin pending \cup done
  /\ \A j \in Held \cup done : j[2] <= receipt[MessageOf(j)]

(* A job that executes has deleted its message unless it was received again; a *)
(* closed pool has no jobs; and a hidden message is held, unless a call failed.*)
LatestInv ==
  /\ \A j \in executing : j[2] = receipt[MessageOf(j)] => visibility[MessageOf(j)] = "deleted"
  /\ phase = "closed" => pending = {}
  /\ \A m \in Messages : visibility[m] = "hidden" /\ m \notin failedCalls => receipt[m] \in Live(m)

\* Nobody can receive the message and handle it without a further expiry.
Claimed(m) == visibility[m] = "deleted" \/ (visibility[m] = "hidden" /\ receipt[m] \in Live(m))

CountInv == \A m \in Messages :
  handled[m] + Cardinality(Live(m)) + (IF Claimed(m) THEN 0 ELSE 1) <= 1 + expiries[m]

IInv ==
  /\ TypeOK /\ LoopInv /\ DistinctInv /\ HolderInv /\ LatestInv /\ CountInv /\ DeletedIsHandled

-----------------------------------------------------------------------------
(* Lists of jobs *)

\* messages[i:]
LEMMA RestOfList ==
  ASSUME NEW s \in Seq(Jobs), NEW i \in Nat \ {0}
  PROVE  LET t == SubSeq(s, i, Len(s)) IN
           /\ t \in Seq(Jobs) /\ From(t, 1) = From(s, i) /\ ToSet(t) = From(s, i)
           /\ Distinct(s) => Distinct(t)
<1>. DEFINE t == SubSeq(s, i, Len(s))
<1>1. \A k \in i .. Len(s) : s[k] \in Jobs
  BY ElementOfSeq
<1>2. Len(s) \in Nat
  BY LenProperties
<1>3. /\ t \in Seq(Jobs) /\ Len(t) = IF i <= Len(s) THEN Len(s) - i + 1 ELSE 0
      /\ \A k \in 1 .. Len(s) - i + 1 : t[k] = s[i + k - 1]
  BY <1>1, <1>2, SubSeqProperties
<1>. HIDE DEF t
<1>4. From(t, 1) = From(s, i)
  <2>1. ASSUME NEW k \in 1 .. Len(t) PROVE t[k] = s[i + k - 1] /\ i + k - 1 \in i .. Len(s)
    BY <1>2, <1>3
  <2>2. ASSUME NEW k \in i .. Len(s) PROVE k - i + 1 \in 1 .. Len(t) /\ t[k - i + 1] = s[k]
    BY <1>2, <1>3
  <2>3. From(t, 1) \subseteq From(s, i)
    BY <2>1 DEF From
  <2>4. ASSUME NEW x \in From(s, i) PROVE x \in From(t, 1)
    <3>1. PICK k \in i .. Len(s) : x = s[k]
      BY DEF From
    <3>2. k - i + 1 \in 1 .. Len(t) /\ t[k - i + 1] = x
      BY <2>2, <3>1
    <3>. QED BY <3>2 DEF From
  <2>. QED BY <2>3, <2>4
<1>5. ToSet(t) = From(t, 1)
  BY <1>3, LenProperties DEF ToSet, From
<1>6. ASSUME Distinct(s) PROVE Distinct(t)
  BY <1>2, <1>3, <1>6 DEF Distinct
<1>. QED BY <1>3, <1>4, <1>5, <1>6 DEF t

\* The loop goes on to the next message.
LEMMA NextOfList ==
  ASSUME NEW s \in Seq(Jobs), Distinct(s), NEW i \in 1 .. Len(s)
  PROVE  From(s, i) = From(s, i + 1) \cup {s[i]} /\ s[i] \notin From(s, i + 1)
<1>1. Len(s) \in Nat
  BY LenProperties
<1>. QED BY <1>1 DEF From, Distinct

\* One message fewer to give back.
LEMMA TailOfList ==
  ASSUME NEW s \in Seq(Jobs), Distinct(s), s # <<>>
  PROVE  /\ Tail(s) \in Seq(Jobs) /\ Distinct(Tail(s))
         /\ Head(s) \in From(s, 1) /\ From(Tail(s), 1) = From(s, 1) \ {Head(s)}
<1>1. Len(s) \in Nat \ {0} /\ Head(s) = s[1]
  BY EmptySeq, LenProperties
<1>2. /\ Tail(s) \in Seq(Jobs) /\ Len(Tail(s)) = Len(s) - 1
      /\ \A i \in 1 .. Len(Tail(s)) : Tail(s)[i] = s[i + 1]
  BY HeadTailProperties
<1>3. Distinct(Tail(s))
  BY <1>1, <1>2 DEF Distinct
<1>4. Head(s) \in From(s, 1)
  BY <1>1 DEF From
<1>5. From(Tail(s), 1) = From(s, 1) \ {Head(s)}
  <2>1. ASSUME NEW k \in 1 .. Len(Tail(s))
        PROVE  Tail(s)[k] = s[k + 1] /\ k + 1 \in 1 .. Len(s) /\ s[k + 1] # s[1]
    BY <1>1, <1>2 DEF Distinct
  <2>2. ASSUME NEW k \in 1 .. Len(s), s[k] # s[1]
        PROVE  k - 1 \in 1 .. Len(Tail(s)) /\ Tail(s)[k - 1] = s[k]
    BY <1>1, <1>2, <2>2
  <2>. QED BY <1>1, <2>1, <2>2 DEF From
<1>. QED BY <1>2, <1>3, <1>4, <1>5

\* The messages of a batch, in any order.
LEMMA ListOfSet ==
  ASSUME NEW S \in SUBSET Jobs, IsFiniteSet(S), NEW s \in SetToSeqs(S)
  PROVE  s \in Seq(Jobs) /\ Distinct(s) /\ From(s, 1) = S
<1>. DEFINE n == Cardinality(S)
<1>1. n \in Nat /\ IsFiniteSet(1 .. n) /\ Cardinality(1 .. n) = n
  BY FS_CardinalityType, FS_Interval
<1>2. s \in [1 .. n -> S] /\ \A i, k \in 1 .. n : i # k => s[i] # s[k]
  BY DEF SetToSeqs
<1>3. s \in Seq(Jobs) /\ Len(s) = n
  BY <1>1, <1>2
<1>4. s \in Injection(1 .. n, S)
  BY <1>2 DEF Injection, IsInjective
<1>5. s \in Surjection(1 .. n, S)
  BY <1>1, <1>4, FS_Injection
<1>. QED BY <1>1, <1>2, <1>3, <1>5 DEF Surjection, From, Distinct

-----------------------------------------------------------------------------
(* Types *)

\* The messages that Receive may hide, and their jobs.
LEMMA BatchTypes ==
  ASSUME TypeOK, NEW p \in Pollers, NEW ms \in Batches(p)
  PROVE  LET js == {<<m, receipt[m] + 1>> : m \in ms} IN
           /\ ms \subseteq Messages /\ js \in SUBSET Jobs /\ IsFiniteSet(js)
           /\ \A m \in ms : QueueOf[m] = p /\ visibility[m] = "visible" /\ receipt[m] + 1 \in 1 .. MaxReceives
<1>. DEFINE js == {<<m, receipt[m] + 1>> : m \in ms}
<1>1. ms \subseteq Messages /\ \A m \in ms : QueueOf[m] = p /\ visibility[m] = "visible" /\ receipt[m] < MaxReceives
  BY DEF Batches, Visible
<1>2. \A m \in ms : receipt[m] + 1 \in 1 .. MaxReceives
  BY <1>1, PollerAssumption DEF TypeOK
<1>3. js \in SUBSET Jobs
  BY <1>1, <1>2 DEF Jobs
<1>4. IsFiniteSet(js)
  <2>1. IsFiniteSet(ms)
    BY <1>1, PollerAssumption, FS_Subset
  <2>. DEFINE f == [m \in ms |-> <<m, receipt[m] + 1>>]
  <2>2. f \in Surjection(ms, js)
    BY DEF Surjection
  <2>. QED BY <2>1, <2>2, FS_Surjection
<1>. QED BY <1>1, <1>2, <1>3, <1>4

\* Receive hides messages under new receipts.
LEMMA HideTypes ==
  ASSUME TypeOK, NEW p \in Pollers, NEW ms \in Batches(p), Hide(ms)
  PROVE  /\ receipt' \in [Messages -> 0 .. MaxReceives]
         /\ visibility' \in [Messages -> {"visible", "hidden", "deleted"}]
<1>1. ASSUME NEW m \in Messages
      PROVE  receipt[m] + (IF m \in ms THEN 1 ELSE 0) \in 0 .. MaxReceives
  <2>1. CASE m \in ms
    <3>1. receipt[m] + 1 \in 1 .. MaxReceives /\ MaxReceives \in Nat
      BY <2>1, BatchTypes, PollerAssumption
    <3>. QED BY <2>1, <3>1
  <2>2. CASE m \notin ms
    BY <2>2 DEF TypeOK
  <2>. QED BY <2>1, <2>2
<1>. QED BY <1>1 DEF Hide, TypeOK

\* A bounded number of adverse events.
LEMMA MishapType ==
  ASSUME TypeOK, Mishap \/ UNCHANGED mishaps
  PROVE  mishaps' \in 0 .. MaxMishaps
<1>1. MaxMishaps \in Nat
  BY PollerAssumption
<1>. QED BY <1>1 DEF TypeOK, Mishap

\* A call fails.
LEMMA CallFailsTypes ==
  ASSUME TypeOK, NEW p \in Pollers, NEW ms \in SUBSET Messages, CallFails(p, ms)
  PROVE  /\ isTokenExpired' \in [Pollers -> BOOLEAN] /\ failedCalls' \subseteq Messages
         /\ mishaps' \in 0 .. MaxMishaps
<1>1. isTokenExpired' \in [Pollers -> BOOLEAN]
  BY DEF CallFails, TypeOK
<1>2. failedCalls' \subseteq Messages
  BY DEF CallFails, TypeOK
<1>. QED BY <1>1, <1>2, MishapType DEF CallFails

\* poll returns.
LEMMA PollReturnTypes ==
  ASSUME TypeOK, NEW p \in Pollers, NEW b \in BOOLEAN, PollReturn(p, b)
  PROVE  /\ pc' \in [Pollers -> RunStates] /\ maxMessages' \in [Pollers -> 0 .. MaxNumberOfMessages]
         /\ messages' \in [Pollers -> Seq(Jobs)] /\ index' \in [Pollers -> Nat \ {0}]
<1>1. MaxNumberOfMessages \in Nat
  BY PollerAssumption
<1>2. 0 \in 0 .. MaxNumberOfMessages /\ <<>> \in Seq(Jobs)
  BY <1>1, EmptySeq
<1>. QED BY <1>2 DEF PollReturn, TypeOK, RunStates

\* The steps of the owner, of the queue service and of the workers.
LEMMA TypeOthers ==
  ASSUME TypeOK,
         \/ PoolStart \/ PoolStop \/ PoolStopReturn \/ Stopped \/ UNCHANGED vars
         \/ \E p \in Pollers : Start(p) \/ Stop(p) \/ StopReturn(p) \/ RefreshClient(p)
         \/ \E m \in Messages : Expire(m) \/ ExpireAbandoned(m)
         \/ \E j \in Jobs : Execute(j)
  PROVE  TypeOK'
<1>. USE DEF TypeOK, pool, queues, calls, run, locals, counts, RunStates
<1>1. CASE PoolStart \/ PoolStop \/ PoolStopReturn
  BY <1>1 DEF PoolStart, PoolStop, PoolStopReturn, Pool!Open, Pool!Drain, Pool!Close
<1>2. CASE Stopped \/ UNCHANGED vars
  BY <1>2 DEF Stopped, vars
<1>3. ASSUME NEW p \in Pollers, Start(p) \/ Stop(p) \/ StopReturn(p) PROVE TypeOK'
  BY <1>3 DEF Start, Stop, StopReturn
<1>4. ASSUME NEW p \in Pollers, RefreshClient(p) PROVE TypeOK'
  BY <1>4 DEF RefreshClient
<1>5. ASSUME NEW m \in Messages, Expire(m) \/ ExpireAbandoned(m) PROVE TypeOK'
  <2>1. mishaps' \in 0 .. MaxMishaps
    BY <1>5, MishapType DEF Expire, ExpireAbandoned
  <2>2. expiries' \in [Messages -> Nat]
    BY <1>5 DEF Expire, ExpireAbandoned
  <2>. QED BY <1>5, <2>1, <2>2 DEF Expire, ExpireAbandoned
<1>6. ASSUME NEW j \in Jobs, ExecuteDelete(j) PROVE TypeOK'
  BY <1>6 DEF ExecuteDelete, MessageOf, Jobs
<1>7. ASSUME NEW j \in Jobs, ExecuteDeleteFails(j) PROVE TypeOK'
  <2>1. MessageOf(j) \in Messages /\ QueueOf[MessageOf(j)] \in Pollers
    BY PollerAssumption DEF MessageOf, Jobs
  <2>2. /\ isTokenExpired' \in [Pollers -> BOOLEAN] /\ failedCalls' \subseteq Messages
        /\ mishaps' \in 0 .. MaxMishaps
    <3>1. {MessageOf(j)} \in SUBSET Messages /\ CallFails(QueueOf[MessageOf(j)], {MessageOf(j)})
      BY <1>7, <2>1 DEF ExecuteDeleteFails
    <3>. HIDE DEF TypeOK
    <3>. QED BY <2>1, <3>1, CallFailsTypes
  <2>. QED BY <1>7, <2>1, <2>2 DEF ExecuteDeleteFails, Pool!Finish
<1>8. ASSUME NEW j \in Jobs, ExecuteHandle(j) PROVE TypeOK'
  <2>1. MessageOf(j) \in Messages
    BY DEF MessageOf, Jobs
  <2>. QED BY <1>8, <2>1 DEF ExecuteHandle, Pool!Finish
<1>. QED BY <1>1, <1>2, <1>3, <1>4, <1>5, <1>6, <1>7, <1>8 DEF Execute

\* The steps of a poller.
LEMMA TypePoller ==
  ASSUME TypeOK, NEW p \in Pollers, PollerStep(p) \/ WaitTick(p)
  PROVE  TypeOK'
<1>. USE DEF TypeOK, pool, queues, calls, run, locals, counts, RunStates
<1>1. CASE RunQuit(p) \/ RunExpired(p) \/ WaitInterrupted(p) \/ WaitTick(p)
  BY <1>1 DEF RunQuit, RunExpired, WaitInterrupted, WaitTick, Goto
<1>2. CASE RunPoll(p)
  BY <1>2, PollerAssumption DEF RunPoll, AvailableWorkerCounts
<1>3. CASE ReceiveMessage(p)
  <2>1. PICK ms \in Batches(p) :
          /\ Hide(ms)
          /\ \E js \in SetToSeqs({<<m, receipt[m] + 1>> : m \in ms}) :
               messages' = [messages EXCEPT ![p] = js]
    BY <1>3 DEF ReceiveMessage
  <2>. DEFINE S == {<<m, receipt[m] + 1>> : m \in ms}
  <2>2. S \in SUBSET Jobs /\ IsFiniteSet(S)
    BY BatchTypes
  <2>. HIDE DEF S
  <2>3. messages' \in [Pollers -> Seq(Jobs)]
    BY <2>1, <2>2, ListOfSet DEF S
  <2>. QED BY <1>3, <2>1, <2>3, HideTypes DEF ReceiveMessage
<1>4. CASE ReceiveNothing(p) \/ SubmitReturn(p)
  BY <1>4, PollReturnTypes DEF ReceiveNothing, SubmitReturn
<1>5. CASE ReceiveFails(p)
  <2>1. PICK ms \in Batches(p) : Hide(ms) /\ CallFails(p, ms)
    BY <1>5 DEF ReceiveFails
  <2>2. ms \in SUBSET Messages
    BY DEF Batches, Visible
  <2>. QED BY <1>5, <2>1, <2>2, HideTypes, CallFailsTypes, PollReturnTypes DEF ReceiveFails
<1>6. CASE SubmitAccepted(p)
  <2>1. messages[p][index[p]] \in Jobs
    BY <1>6, ElementOfSeq DEF SubmitAccepted, Submitting
  <2>. QED BY <1>6, <2>1 DEF SubmitAccepted, Pool!Accept
<1>7. CASE SubmitRefused(p)
  <2>1. SubSeq(messages[p], index[p], index[p]) \in Seq(Jobs)
    BY <1>7, SubSeqProperties, ElementOfSeq DEF SubmitRefused, GiveBack, Submitting
  <2>2. mishaps' \in 0 .. MaxMishaps
    BY <1>7, MishapType DEF SubmitRefused, GiveBack
  <2>3. index' \in [Pollers -> Nat \ {0}] /\ toTerminate' \in [Pollers -> Seq(Jobs)]
    <3>1. /\ index' = [index EXCEPT ![p] = index[p] + 1]
          /\ toTerminate' = [toTerminate EXCEPT ![p] = SubSeq(messages[p], index[p], index[p])]
      BY <1>7 DEF SubmitRefused, GiveBack
    <3>2. index[p] + 1 \in Nat \ {0}
      OBVIOUS
    <3>. QED BY <2>1, <3>1, <3>2
  <2>4. pc' \in [Pollers -> RunStates]
    BY <1>7 DEF SubmitRefused, GiveBack
  <2>5. UNCHANGED <<pool, queues, isTokenExpired, failedCalls, life, maxMessages, messages, counts>>
    BY <1>7 DEF SubmitRefused, GiveBack
  <2>. QED BY <2>2, <2>3, <2>4, <2>5
<1>8. CASE SubmitError(p)
  BY <1>8, RestOfList DEF SubmitError, GiveUp
<1>9. CASE Terminate(p)
  <2>1. /\ Head(toTerminate[p]) \in Jobs /\ MessageOf(Head(toTerminate[p])) \in Messages
        /\ Tail(toTerminate[p]) \in Seq(Jobs)
    BY <1>9, HeadTailProperties DEF Terminate, MessageOf, Jobs
  <2>2. visibility' \in [Messages -> {"visible", "hidden", "deleted"}]
    BY <1>9, <2>1 DEF Terminate, Shown
  <2>3. /\ isTokenExpired' \in [Pollers -> BOOLEAN] /\ failedCalls' \subseteq Messages
        /\ mishaps' \in 0 .. MaxMishaps
    BY <1>9, <2>1, CallFailsTypes DEF Terminate
  <2>. QED BY <1>9, <2>1, <2>2, <2>3 DEF Terminate
<1>10. CASE TerminateReturn(p)
  BY <1>10, PollReturnTypes DEF TerminateReturn
<1>. QED BY <1>1, <1>2, <1>3, <1>4, <1>5, <1>6, <1>7, <1>8, <1>9, <1>10 DEF PollerStep

-----------------------------------------------------------------------------
(* What a step of a poller does to its hand *)

\* The two invariants about the local variables of one poller.
LocalInv(p) ==
  /\ pc[p] \notin {"submit", "giveBack", "giveUp"} => messages[p] = <<>> /\ index[p] = 1
  /\ pc[p] \notin {"giveBack", "giveUp"} => toTerminate[p] = <<>>
  /\ (life[p] = "new" => pc[p] = "off") /\ (life[p] = "stopped" => pc[p] = "done")
  /\ Distinct(messages[p]) /\ Distinct(toTerminate[p])
  /\ pc[p] = "giveBack" => Rest(p) \cap Given(p) = {}

LEMMA LocalInvs == LoopInv /\ DistinctInv <=> \A p \in Pollers : LocalInv(p)
BY DEF LoopInv, DistinctInv, LocalInv

\* Every poller has local variables of its own.
LEMMA HandFrame ==
  ASSUME NEW p \in Pollers, PollerStep(p) \/ WaitTick(p), NEW q \in Pollers \ {p}, TypeOK, LocalInv(q)
  PROVE  LocalInv(q)' /\ Hand(q)' = Hand(q)
<1>1. /\ life'[q] = life[q] /\ pc'[q] = pc[q] /\ messages'[q] = messages[q]
      /\ index'[q] = index[q] /\ toTerminate'[q] = toTerminate[q]
  BY DEF PollerStep, RunQuit, RunExpired, RunPoll, WaitTick, WaitInterrupted, Goto,
         ReceiveMessage, ReceiveNothing, ReceiveFails, PollReturn, SubmitAccepted, SubmitRefused,
         GiveBack, SubmitError, GiveUp, SubmitReturn, Terminate, TerminateReturn, TypeOK, locals, run
<1>. QED BY <1>1 DEF LocalInv, Hand, Rest, Given

\* An empty hand.
LEMMA NothingInHand == \A i \in Nat \ {0} : From(<<>>, i) = {} /\ Distinct(<<>>)
BY DEF From, Distinct

(* Outside of the loop of poll the hand is empty; within it, these steps keep *)
(* what is in it.                                                             *)
LEMMA HandKept ==
  ASSUME TypeOK, NEW p \in Pollers, LocalInv(p),
         \/ RunQuit(p) \/ RunExpired(p) \/ RunPoll(p) \/ WaitInterrupted(p) \/ WaitTick(p)
         \/ ReceiveNothing(p) \/ ReceiveFails(p) \/ SubmitReturn(p) \/ TerminateReturn(p)
         \/ SubmitRefused(p) \/ SubmitError(p)
  PROVE  LocalInv(p)' /\ Hand(p)' = Hand(p)
<1>0. /\ messages[p] \in Seq(Jobs) /\ toTerminate[p] \in Seq(Jobs) /\ index[p] \in Nat \ {0}
      /\ Len(messages[p]) \in Nat /\ p \in DOMAIN pc /\ p \in DOMAIN messages /\ p \in DOMAIN index
      /\ p \in DOMAIN toTerminate
  BY LenProperties DEF TypeOK
<1>1. CASE RunQuit(p) \/ RunExpired(p) \/ WaitInterrupted(p) \/ WaitTick(p)
  <2>1. /\ pc[p] \in {"top", "wait"} /\ pc'[p] \in {"top", "wait", "done"} /\ life'[p] = life[p]
        /\ messages' = messages /\ index' = index /\ toTerminate' = toTerminate
    BY <1>0, <1>1 DEF RunQuit, RunExpired, WaitInterrupted, WaitTick, Goto, locals
  <2>. QED BY <2>1 DEF LocalInv, Hand, Rest, Given
<1>2. CASE RunPoll(p)
  <2>1. /\ pc[p] = "top" /\ pc'[p] \in {"receive", "wait"} /\ life'[p] = life[p]
        /\ messages' = messages /\ index' = index /\ toTerminate' = toTerminate
    BY <1>0, <1>2 DEF RunPoll
  <2>. QED BY <2>1 DEF LocalInv, Hand, Rest, Given
<1>3. CASE ReceiveNothing(p) \/ ReceiveFails(p)
  <2>1. /\ pc[p] = "receive" /\ pc'[p] = "wait" /\ life'[p] = life[p]
        /\ messages'[p] = <<>> /\ index'[p] = 1 /\ toTerminate' = toTerminate
    BY <1>0, <1>3 DEF ReceiveNothing, ReceiveFails, PollReturn
  <2>. QED BY <2>1 DEF LocalInv, Hand, Rest, Given
<1>4. CASE SubmitReturn(p)
  <2>1. /\ pc[p] = "submit" /\ pc'[p] = "top" /\ life'[p] = life[p] /\ ~(index[p] <= Len(messages[p]))
        /\ messages'[p] = <<>> /\ index'[p] = 1 /\ toTerminate' = toTerminate
    BY <1>0, <1>4 DEF SubmitReturn, PollReturn, Submitting
  <2>2. Rest(p) = {} /\ toTerminate[p] = <<>>
    BY <1>0, <2>1 DEF Rest, From, LocalInv
  <2>. QED BY <2>1, <2>2, NothingInHand DEF LocalInv, Hand, Rest, Given
<1>5. CASE TerminateReturn(p)
  <2>1. CASE pc[p] = "giveBack"
    <3>1. /\ pc'[p] = "submit" /\ life'[p] = life[p] /\ toTerminate[p] = <<>>
          /\ messages' = messages /\ index' = index /\ toTerminate' = toTerminate
      BY <1>0, <1>5, <2>1 DEF TerminateReturn
    <3>. QED BY <2>1, <3>1 DEF LocalInv, Hand, Rest, Given
  <2>2. CASE pc[p] = "giveUp"
    <3>1. /\ pc'[p] = "wait" /\ life'[p] = life[p] /\ toTerminate[p] = <<>>
          /\ messages'[p] = <<>> /\ index'[p] = 1 /\ toTerminate' = toTerminate
      BY <1>0, <1>5, <2>2 DEF TerminateReturn, PollReturn
    <3>. QED BY <2>2, <3>1, NothingInHand DEF LocalInv, Hand, Rest, Given
  <2>. QED BY <1>5, <2>1, <2>2 DEF TerminateReturn
<1>6. CASE SubmitRefused(p)
  <2>. DEFINE i == index[p]  j == messages[p][i]
  <2>0. /\ pc[p] = "submit" /\ i <= Len(messages[p]) /\ pc' = [pc EXCEPT ![p] = "giveBack"]
        /\ life' = life /\ messages' = messages /\ index' = [index EXCEPT ![p] = i + 1]
        /\ toTerminate' = [toTerminate EXCEPT ![p] = SubSeq(messages[p], i, i)]
    BY <1>6 DEF SubmitRefused, GiveBack, Submitting
  <2>1. /\ pc[p] = "submit" /\ i \in 1 .. Len(messages[p]) /\ pc'[p] = "giveBack" /\ life'[p] = life[p]
        /\ messages' = messages /\ index'[p] = i + 1 /\ toTerminate'[p] = SubSeq(messages[p], i, i)
    <3>1. i \in 1 .. Len(messages[p])
      BY <1>0, <2>0
    <3>2. index'[p] = i + 1 /\ pc'[p] = "giveBack"
      BY <1>0, <2>0
    <3>. DEFINE t == SubSeq(messages[p], i, i)
    <3>. HIDE DEF t
    <3>3. toTerminate'[p] = t
      BY <1>0, <2>0 DEF t
    <3>. QED BY <2>0, <3>1, <3>2, <3>3 DEF t
  <2>2. j \in Jobs
    BY <1>0, <2>1, ElementOfSeq
  <2>3. Len(toTerminate'[p]) = 1 /\ toTerminate'[p][1] = j
    <3>1. i \in Int /\ \A k \in i .. i : messages[p][k] \in Jobs
      BY <1>0, <2>2
    <3>2. Len(SubSeq(messages[p], i, i)) = i - i + 1 /\ SubSeq(messages[p], i, i)[1] = messages[p][i + 1 - 1]
      BY <3>1, SubSeqProperties
    <3>. QED BY <1>0, <2>1, <3>2
  <2>4. Given(p)' = {j} /\ Distinct(toTerminate'[p])
    BY <2>3 DEF Given, From, Distinct
  <2>5. toTerminate[p] = <<>> /\ Distinct(messages[p])
    BY <2>1 DEF LocalInv
  <2>6. From(messages[p], i) = From(messages[p], i + 1) \cup {j} /\ j \notin From(messages[p], i + 1)
    BY <1>0, <2>1, <2>5, NextOfList
  <2>7. Given(p) = {} /\ Rest(p)' = From(messages[p], i + 1)
    <3>1. Rest(p)' = From(messages'[p], index'[p])
      BY DEF Rest
    <3>. QED BY <2>1, <2>5, <3>1, NothingInHand DEF Given
  <2>. QED BY <2>1, <2>4, <2>5, <2>6, <2>7 DEF LocalInv, Hand, Rest
<1>7. CASE SubmitError(p)
  <2>1. /\ pc[p] = "submit" /\ pc'[p] = "giveUp" /\ life'[p] = life[p] /\ messages' = messages
        /\ index' = index /\ toTerminate'[p] = SubSeq(messages[p], index[p], Len(messages[p]))
    BY <1>0, <1>7 DEF SubmitError, GiveUp, Submitting
  <2>2. toTerminate[p] = <<>> /\ Distinct(messages[p])
    BY <2>1 DEF LocalInv
  <2>3. Given(p)' = Rest(p) /\ Distinct(toTerminate'[p]) /\ Given(p) = {}
    BY <1>0, <2>1, <2>2, RestOfList, NothingInHand DEF Given, Rest
  <2>. QED BY <2>1, <2>2, <2>3 DEF LocalInv, Hand
<1>. QED BY <1>1, <1>2, <1>3, <1>4, <1>5, <1>6, <1>7

\* A poller receives messages into an empty hand.
LEMMA HandReceives ==
  ASSUME TypeOK, NEW p \in Pollers, LocalInv(p), ReceiveMessage(p)
  PROVE  /\ LocalInv(p)'
         /\ \E ms \in Batches(p) :
              Hide(ms) /\ Hand(p) = {} /\ Hand(p)' = {<<m, receipt[m] + 1>> : m \in ms}
<1>1. PICK ms \in Batches(p) :
        /\ Hide(ms)
        /\ \E js \in SetToSeqs({<<m, receipt[m] + 1>> : m \in ms}) :
             messages' = [messages EXCEPT ![p] = js]
  BY DEF ReceiveMessage
<1>. DEFINE S == {<<m, receipt[m] + 1>> : m \in ms}
<1>2. S \in SUBSET Jobs /\ IsFiniteSet(S)
  BY BatchTypes
<1>. HIDE DEF S
<1>3. PICK js \in SetToSeqs(S) : messages' = [messages EXCEPT ![p] = js]
  BY <1>1 DEF S
<1>4. js \in Seq(Jobs) /\ Distinct(js) /\ From(js, 1) = S
  BY <1>2, ListOfSet
<1>5. /\ pc[p] = "receive" /\ pc'[p] = "submit" /\ messages'[p] = js /\ messages[p] = <<>>
      /\ index[p] = 1 /\ index' = index /\ toTerminate[p] = <<>> /\ toTerminate' = toTerminate /\ life' = life
  BY <1>3 DEF ReceiveMessage, LocalInv, TypeOK
<1>6. LocalInv(p)'
  BY <1>4, <1>5 DEF LocalInv
<1>7. Given(p) = {} /\ Given(p)' = {} /\ Rest(p)' = S
  BY <1>4, <1>5, NothingInHand DEF Given, Rest
<1>8. Hand(p) = {} /\ Hand(p)' = S
  BY <1>5, <1>7 DEF Hand
<1>. QED BY <1>1, <1>6, <1>8 DEF S

\* The pool takes the next job of the loop.
LEMMA HandSubmits ==
  ASSUME TypeOK, NEW p \in Pollers, LocalInv(p), SubmitAccepted(p)
  PROVE  LET j == messages[p][index[p]] IN
           /\ LocalInv(p)' /\ j \in Hand(p) /\ Hand(p)' = Hand(p) \ {j} /\ pending' = pending \cup {j}
<1>. DEFINE i == index[p]  j == messages[p][i]
<1>1. /\ messages[p] \in Seq(Jobs) /\ Len(messages[p]) \in Nat /\ i \in Nat \ {0} /\ p \in DOMAIN index
  BY LenProperties DEF TypeOK
<1>2. /\ pc[p] = "submit" /\ pc' = pc /\ life' = life /\ i <= Len(messages[p])
      /\ index' = [index EXCEPT ![p] = index[p] + 1]
      /\ messages' = messages /\ toTerminate' = toTerminate /\ pending' = pending \cup {j}
  BY DEF SubmitAccepted, Submitting, Pool!Accept, run
<1>3. i \in 1 .. Len(messages[p]) /\ index'[p] = i + 1
  BY <1>1, <1>2
<1>4. toTerminate[p] = <<>> /\ Distinct(messages[p])
  BY <1>2 DEF LocalInv
<1>5. From(messages[p], i) = From(messages[p], i + 1) \cup {j} /\ j \notin From(messages[p], i + 1)
  BY <1>1, <1>3, <1>4, NextOfList
<1>6. Rest(p)' = From(messages[p], i + 1) /\ Given(p)' = {} /\ Given(p) = {}
  <2>1. Rest(p)' = From(messages'[p], index'[p])
    BY DEF Rest
  <2>. QED BY <1>2, <1>3, <1>4, <2>1, NothingInHand DEF Given
<1>7. j \in Hand(p) /\ Hand(p)' = Hand(p) \ {j}
  <2>1. Hand(p) = From(messages[p], i) /\ Hand(p)' = From(messages[p], i + 1)
    BY <1>2, <1>6 DEF Hand, Rest
  <2>. HIDE DEF j
  <2>. QED BY <1>5, <2>1
<1>8. LocalInv(p)'
  BY <1>2, <1>4 DEF LocalInv
<1>. QED BY <1>2, <1>7, <1>8

\* A poller gives one message back.
LEMMA HandGivesBack ==
  ASSUME TypeOK, NEW p \in Pollers, LocalInv(p), Terminate(p)
  PROVE  LET j == Head(toTerminate[p]) IN
           LocalInv(p)' /\ j \in Hand(p) /\ Hand(p)' = Hand(p) \ {j}
<1>. DEFINE s == toTerminate[p]
<1>1. /\ s \in Seq(Jobs) /\ Distinct(s) /\ s # <<>> /\ p \in DOMAIN toTerminate
  BY DEF TypeOK, LocalInv, Terminate
<1>2. /\ pc[p] \in {"giveBack", "giveUp"} /\ pc' = pc /\ life' = life
      /\ messages' = messages /\ index' = index /\ toTerminate' = [toTerminate EXCEPT ![p] = Tail(s)]
  BY DEF Terminate, run
<1>3. toTerminate'[p] = Tail(s)
  BY <1>1, <1>2
<1>4. Distinct(Tail(s)) /\ Head(s) \in From(s, 1) /\ From(Tail(s), 1) = From(s, 1) \ {Head(s)}
  BY <1>1, TailOfList
<1>5. Given(p)' = Given(p) \ {Head(s)} /\ Head(s) \in Given(p) /\ Rest(p)' = Rest(p)
  BY <1>2, <1>3, <1>4 DEF Given, Rest
<1>6. Head(s) \in Hand(p) /\ Hand(p)' = Hand(p) \ {Head(s)}
  BY <1>2, <1>5 DEF Hand, LocalInv
<1>7. LocalInv(p)'
  BY <1>2, <1>3, <1>4, <1>5 DEF LocalInv
<1>. QED BY <1>6, <1>7

-----------------------------------------------------------------------------
(* Counting *)

\* CountInv, of one message.
Count(m) == handled[m] + Cardinality(Live(m)) + (IF Claimed(m) THEN 0 ELSE 1) <= 1 + expiries[m]

\* A message has finitely many receipts.
LEMMA ReceiptsFinite ==
  ASSUME NEW R \in SUBSET (1 .. MaxReceives)
  PROVE  IsFiniteSet(R) /\ Cardinality(R) \in Nat
<1>1. IsFiniteSet(1 .. MaxReceives)
  BY PollerAssumption, FS_Interval
<1>. QED BY <1>1, FS_Subset, FS_CardinalityType

\* A step that is not about the message, or that only changes its visibility.
LEMMA CountKept ==
  ASSUME TypeOK, TypeOK', NEW m \in Messages, Count(m), Live(m)' = Live(m),
         receipt'[m] = receipt[m], handled'[m] = handled[m],
         \/ visibility'[m] \in {visibility[m], "deleted"} /\ expiries'[m] = expiries[m]
         \/ expiries'[m] = expiries[m] + 1
         \/ visibility[m] = "hidden" /\ Live(m) = {} /\ expiries'[m] = expiries[m]
  PROVE  Count(m)'
<1>1. Cardinality(Live(m)) \in Nat /\ Cardinality(Live(m)') \in Nat /\ Cardinality(Live(m)') = Cardinality(Live(m))
  BY ReceiptsFinite DEF Live
<1>2. handled[m] \in Nat /\ expiries[m] \in Nat
  BY DEF TypeOK
<1>3. Claimed(m) /\ expiries'[m] = expiries[m] => Claimed(m)'
  BY <1>2 DEF Claimed
<1>. HIDE DEF Claimed, Live
<1>4. Count(m)' <=> handled'[m] + Cardinality(Live(m)') + (IF Claimed(m)' THEN 0 ELSE 1) <= 1 + expiries'[m]
  BY DEF Count
<1>. QED BY <1>1, <1>2, <1>3, <1>4 DEF Count

\* The message is received; the poller may not learn of it.
LEMMA CountReceived ==
  ASSUME TypeOK, TypeOK', NEW m \in Messages, Count(m),
         visibility[m] = "visible", visibility'[m] = "hidden", receipt'[m] = receipt[m] + 1,
         handled'[m] = handled[m], expiries'[m] = expiries[m],
         Live(m)' = Live(m) \cup {receipt'[m]} \/ Live(m)' = Live(m)
  PROVE  Count(m)'
<1>1. Cardinality(Live(m)) \in Nat /\ IsFiniteSet(Live(m)) /\ Cardinality(Live(m)') \in Nat
  BY ReceiptsFinite DEF Live
<1>2. handled[m] \in Nat /\ expiries[m] \in Nat
  BY DEF TypeOK
<1>3. ~Claimed(m)
  BY DEF Claimed
<1>4. \/ Cardinality(Live(m)') <= Cardinality(Live(m)) + 1 /\ Claimed(m)'
      \/ Cardinality(Live(m)') = Cardinality(Live(m))
  <2>1. CASE Live(m)' = Live(m) \cup {receipt'[m]}
    <3>1. Claimed(m)'
      BY <2>1 DEF Claimed
    <3>2. Cardinality(Live(m) \cup {receipt'[m]})
            = IF receipt'[m] \in Live(m) THEN Cardinality(Live(m)) ELSE Cardinality(Live(m)) + 1
      BY <1>1, FS_AddElement
    <3>. QED BY <1>1, <2>1, <3>1, <3>2
  <2>. QED BY <2>1
<1>. HIDE DEF Claimed, Live
<1>5. Count(m)' <=> handled'[m] + Cardinality(Live(m)') + (IF Claimed(m)' THEN 0 ELSE 1) <= 1 + expiries'[m]
  BY DEF Count
<1>. QED BY <1>1, <1>2, <1>3, <1>4, <1>5 DEF Count

\* The holder of a receipt lets go of it, or handles the message.
LEMMA CountDropped ==
  ASSUME TypeOK, TypeOK', NEW m \in Messages, Count(m), NEW r \in Live(m), Live(m)' = Live(m) \ {r},
         receipt'[m] = receipt[m], expiries'[m] = expiries[m],
         \/ /\ handled'[m] = handled[m]
            /\ \/ visibility'[m] \in {visibility[m], "deleted"}
               \/ visibility[m] = "hidden" /\ r = receipt[m]
         \/ /\ handled'[m] \in {handled[m], handled[m] + 1} /\ visibility'[m] = visibility[m]
            /\ r = receipt[m] => visibility[m] = "deleted"
  PROVE  Count(m)'
<1>1. Cardinality(Live(m)) \in Nat /\ IsFiniteSet(Live(m)) /\ Cardinality(Live(m)') \in Nat
  BY ReceiptsFinite DEF Live
<1>2. handled[m] \in Nat /\ expiries[m] \in Nat
  BY DEF TypeOK
<1>3. Cardinality(Live(m)') = Cardinality(Live(m)) - 1
  BY <1>1, FS_RemoveElement
<1>4. handled'[m] = handled[m] \/ (handled'[m] = handled[m] + 1 /\ (Claimed(m) => Claimed(m)'))
  BY DEF Claimed
<1>. HIDE DEF Claimed, Live
<1>5. Count(m)' <=> handled'[m] + Cardinality(Live(m)') + (IF Claimed(m)' THEN 0 ELSE 1) <= 1 + expiries'[m]
  BY DEF Count
<1>. QED BY <1>1, <1>2, <1>3, <1>4, <1>5 DEF Count

-----------------------------------------------------------------------------
(* Steps by what they do to the jobs that are held *)

\* The invariants that speak of more than one poller, or of the queue.
SharedInv == HolderInv /\ LatestInv /\ CountInv

LEMMA HeldBySomebody ==
  \A j : /\ j \in Held <=> j \in pending \/ \E p \in Pollers : j \in Hand(p)
        /\ j \in Held' <=> j \in pending' \/ \E p \in Pollers : j \in Hand(p)'
BY DEF Held

LEMMA HeldSame ==
  ASSUME \A p \in Pollers : Hand(p)' = Hand(p), pending' = pending
  PROVE  Held' = Held
<1>1. UNION {Hand(p)' : p \in Pollers} = UNION {Hand(p) : p \in Pollers}
  OBVIOUS
<1>. QED BY <1>1 DEF Held

LEMMA HeldAreJobs ==
  ASSUME TypeOK
  PROVE  Held \subseteq Jobs /\ \A j \in Jobs : MessageOf(j) \in Messages /\ j[2] \in 1 .. MaxReceives /\ j = <<MessageOf(j), j[2]>>
<1>1. ASSUME NEW s \in Seq(Jobs), NEW i \in Nat \ {0} PROVE From(s, i) \subseteq Jobs
  <2>1. \A k \in i .. Len(s) : k \in 1 .. Len(s)
    BY LenProperties
  <2>. QED BY <2>1, ElementOfSeq DEF From
<1>2. ASSUME NEW p \in Pollers PROVE Hand(p) \subseteq Jobs
  <2>1. messages[p] \in Seq(Jobs) /\ toTerminate[p] \in Seq(Jobs) /\ index[p] \in Nat \ {0}
    BY DEF TypeOK
  <2>2. Rest(p) \subseteq Jobs /\ Given(p) \subseteq Jobs
    BY <1>1, <2>1 DEF Rest, Given
  <2>. QED BY <2>2 DEF Hand
<1>3. Held \subseteq Jobs
  <2>1. pending \subseteq Jobs
    BY DEF TypeOK
  <2>. QED BY <1>2, <2>1 DEF Held
<1>4. \A j \in Jobs : MessageOf(j) \in Messages /\ j[2] \in 1 .. MaxReceives /\ j = <<MessageOf(j), j[2]>>
  <2>. SUFFICES ASSUME NEW j \in Messages \X (1 .. MaxReceives)
                PROVE  j[1] \in Messages /\ j[2] \in 1 .. MaxReceives /\ j = <<j[1], j[2]>>
    BY DEF Jobs, MessageOf
  <2>. QED OBVIOUS
<1>. QED BY <1>3, <1>4

\* Receipts of one message are held like its jobs.
LEMMA LiveSame ==
  ASSUME Held' = Held
  PROVE  \A m : Live(m)' = Live(m)
BY DEF Live

(* Nothing is received, submitted, given back or executed.  A message may     *)
(* reappear, with an expiry unless nobody holds it.                           *)
LEMMA KeptStep ==
  ASSUME TypeOK, TypeOK', SharedInv, \A p \in Pollers : Hand(p)' = Hand(p),
         UNCHANGED <<pending, done, executing, receipt, handled, failedCalls>>,
         phase' = "closed" => pending = {},
         \A m \in Messages :
           \/ visibility'[m] = visibility[m] /\ expiries'[m] = expiries[m]
           \/ /\ visibility[m] = "hidden" /\ visibility'[m] = "visible"
              /\ expiries'[m] = expiries[m] + 1 \/ (Live(m) = {} /\ expiries'[m] = expiries[m])
  PROVE  SharedInv'
<1>1. Held' = Held
  BY HeldSame
<1>2. \A m : Live(m)' = Live(m)
  BY <1>1, LiveSame
<1>3. HolderInv'
  BY <1>1 DEF SharedInv, HolderInv
<1>4. LatestInv'
  <2>1. ASSUME NEW j \in executing PROVE MessageOf(j) \in Messages
    BY DEF TypeOK, Jobs, MessageOf
  <2>. QED BY <1>2, <2>1 DEF SharedInv, LatestInv
<1>5. CountInv'
  BY <1>2, CountKept DEF SharedInv, CountInv, Count
<1>. QED BY <1>3, <1>4, <1>5 DEF SharedInv

\* Messages are received, into the hand of a poller or by a call that fails.
LEMMA ReceivedStep ==
  ASSUME TypeOK, TypeOK', SharedInv, NEW p \in Pollers, NEW ms \in Batches(p), Hide(ms),
         \A q \in Pollers \ {p} : Hand(q)' = Hand(q),
         UNCHANGED <<phase, pending, done, executing, handled, expiries>>,
         \/ /\ Hand(p) = {} /\ Hand(p)' = {<<m, receipt[m] + 1>> : m \in ms} /\ UNCHANGED failedCalls
         \/ Hand(p)' = Hand(p) /\ failedCalls' = failedCalls \cup ms
  PROVE  SharedInv'
<1>. DEFINE S == {<<m, receipt[m] + 1>> : m \in ms}
<1>1. /\ ms \subseteq Messages /\ S \in SUBSET Jobs
      /\ \A m \in ms : QueueOf[m] = p /\ visibility[m] = "visible" /\ receipt[m] + 1 \in 1 .. MaxReceives
  BY BatchTypes
<1>2. /\ \A m \in ms : receipt'[m] = receipt[m] + 1 /\ visibility'[m] = "hidden"
      /\ \A m \in Messages \ ms : receipt'[m] = receipt[m] /\ visibility'[m] = visibility[m]
  BY <1>1 DEF Hide, TypeOK
<1>3. \A j \in Held \cup done : j \in Jobs /\ j[2] <= receipt[MessageOf(j)]
  BY HeldAreJobs DEF SharedInv, HolderInv, TypeOK
<1>4. \A m \in Messages : receipt[m] \in Nat /\ receipt[m] <= receipt'[m] /\ receipt'[m] \in Nat
  <2>. SUFFICES ASSUME NEW m \in Messages
                PROVE  receipt[m] \in Nat /\ receipt[m] <= receipt'[m] /\ receipt'[m] \in Nat
    OBVIOUS
  <2>1. receipt[m] \in Nat
    BY DEF TypeOK
  <2>2. receipt'[m] = receipt[m] \/ receipt'[m] = receipt[m] + 1
    BY <1>2
  <2>. QED BY <2>1, <2>2
<1>5. \A j \in S : MessageOf(j) \in ms /\ j[2] = receipt[MessageOf(j)] + 1
  BY DEF MessageOf
<1>6. \A j \in S : j \notin Held \cup done
  <2>. SUFFICES ASSUME NEW j \in S, j[2] <= receipt[MessageOf(j)] PROVE FALSE
    BY <1>3
  <2>1. receipt[MessageOf(j)] \in Nat /\ j[2] = receipt[MessageOf(j)] + 1
    BY <1>1, <1>4, <1>5
  <2>. QED BY <2>1
<1>7. \/ Held' = Held \cup S /\ UNCHANGED failedCalls
      \/ Held' = Held /\ failedCalls' = failedCalls \cup ms
  <2>1. CASE Hand(p)' = Hand(p) /\ failedCalls' = failedCalls \cup ms
    BY <2>1, HeldSame
  <2>2. CASE Hand(p) = {} /\ Hand(p)' = S /\ UNCHANGED failedCalls
    <3>. HIDE DEF S
    <3>1. ASSUME NEW j PROVE j \in Held' <=> j \in Held \/ j \in S
      <4>1. (\E q \in Pollers : j \in Hand(q)') <=> j \in S \/ \E q \in Pollers : j \in Hand(q)
        BY <2>2
      <4>2. /\ j \in Held <=> j \in pending \/ \E q \in Pollers : j \in Hand(q)
            /\ j \in Held' <=> j \in pending' \/ \E q \in Pollers : j \in Hand(q)'
        BY DEF Held
      <4>3. pending' = pending
        OBVIOUS
      <4>. QED BY <4>1, <4>2, <4>3
    <3>. QED BY <2>2, <3>1
  <2>. QED BY <2>1, <2>2
<1>8. HolderInv'
  <2>1. ASSUME NEW q \in Pollers, NEW j \in Hand(q)'
        PROVE  QueueOf[MessageOf(j)] = q /\ j \notin pending' \cup done'
    <3>1. CASE j \in Hand(q)
      BY <3>1 DEF SharedInv, HolderInv
    <3>2. CASE j \notin Hand(q)
      <4>1. q = p /\ j \in S
        BY <2>1, <3>2
      <4>2. j \notin pending \cup done
        BY <1>6, <4>1, HeldBySomebody
      <4>. QED BY <1>1, <1>5, <4>1, <4>2
    <3>. QED BY <3>1, <3>2
  <2>2. ASSUME NEW j \in Held' \cup done' PROVE j[2] <= receipt'[MessageOf(j)]
    <3>1. CASE j \in S
      BY <1>1, <1>2, <1>4, <1>5, <3>1
    <3>2. CASE j \notin S
      <4>1. j \in Held \cup done
        BY <1>7, <2>2, <3>2
      <4>2. MessageOf(j) \in Messages /\ j[2] \in Nat /\ j[2] <= receipt[MessageOf(j)]
        BY <1>3, <4>1, HeldAreJobs
      <4>. QED BY <1>4, <4>2
    <3>. QED BY <3>1, <3>2
  <2>. QED BY <2>1, <2>2 DEF HolderInv
<1>9. ASSUME NEW m \in ms
      PROVE  \/ Live(m)' = Live(m) \cup {receipt'[m]} /\ UNCHANGED failedCalls
             \/ Live(m)' = Live(m) /\ m \in failedCalls'
  <2>1. CASE Held' = Held \cup S /\ UNCHANGED failedCalls
    <3>1. \A r : <<m, r>> \in S <=> r = receipt[m] + 1
      OBVIOUS
    <3>. HIDE DEF S
    <3>2. \A r : r \in Live(m)' <=> r \in Live(m) \/ r = receipt'[m]
      BY <1>1, <1>2, <2>1, <3>1 DEF Live
    <3>. QED BY <2>1, <3>2
  <2>2. CASE Held' = Held /\ failedCalls' = failedCalls \cup ms
    BY <2>2, LiveSame
  <2>. QED BY <1>7, <2>1, <2>2
<1>10. ASSUME NEW m \in Messages \ ms PROVE Live(m)' = Live(m)
  <2>1. \A r : <<m, r>> \notin S
    OBVIOUS
  <2>. HIDE DEF S
  <2>. QED BY <1>7, <2>1 DEF Live
<1>11. LatestInv'
  <2>1. ASSUME NEW j \in executing', j[2] = receipt'[MessageOf(j)]
        PROVE  visibility'[MessageOf(j)] = "deleted"
    <3>1. j \in executing /\ j \in Held /\ MessageOf(j) \in Messages /\ j[2] <= receipt[MessageOf(j)]
      BY <1>3, HeldBySomebody, HeldAreJobs DEF TypeOK
    <3>2. MessageOf(j) \notin ms
      BY <1>2, <1>4, <2>1, <3>1
    <3>. QED BY <1>2, <2>1, <3>1, <3>2 DEF SharedInv, LatestInv
  <2>2. ASSUME NEW m \in Messages, visibility'[m] = "hidden", m \notin failedCalls'
        PROVE  receipt'[m] \in Live(m)'
    <3>1. CASE m \in ms
      BY <1>9, <2>2, <3>1
    <3>2. CASE m \notin ms
      <4>1. m \notin failedCalls
        BY <1>7, <2>2
      <4>. QED BY <1>2, <1>10, <2>2, <3>2, <4>1 DEF SharedInv, LatestInv
    <3>. QED BY <3>1, <3>2
  <2>. QED BY <2>1, <2>2 DEF SharedInv, LatestInv
<1>12. CountInv'
  <2>1. ASSUME NEW m \in ms PROVE Count(m)'
    BY <1>1, <1>2, <1>9, CountReceived DEF SharedInv, CountInv, Count
  <2>2. ASSUME NEW m \in Messages \ ms PROVE Count(m)'
    BY <1>2, <1>10, CountKept DEF SharedInv, CountInv, Count
  <2>. QED BY <2>1, <2>2 DEF CountInv, Count
<1>. QED BY <1>8, <1>11, <1>12 DEF SharedInv

\* A job goes from the hand of a poller to the pool.
LEMMA SubmittedStep ==
  ASSUME TypeOK, TypeOK', SharedInv, NEW p \in Pollers, NEW j \in Hand(p), Hand(p)' = Hand(p) \ {j},
         \A q \in Pollers \ {p} : Hand(q)' = Hand(q), pending' = pending \cup {j}, phase = "open",
         UNCHANGED <<phase, done, executing, receipt, handled, visibility, expiries, failedCalls>>
  PROVE  SharedInv'
<1>1. Held' = Held
  <2>1. ASSUME NEW i PROVE i \in Held' <=> i \in Held
    <3>1. /\ i \in Held <=> i \in pending \/ \E q \in Pollers : i \in Hand(q)
          /\ i \in Held' <=> i \in pending' \/ \E q \in Pollers : i \in Hand(q)'
      BY DEF Held
    <3>2. CASE i = j
      BY <3>1, <3>2
    <3>3. CASE i # j
      <4>1. \A q \in Pollers : i \in Hand(q)' <=> i \in Hand(q)
        BY <3>3
      <4>. QED BY <3>1, <3>3, <4>1
    <3>. QED BY <3>2, <3>3
  <2>. QED BY <2>1
<1>2. \A m : Live(m)' = Live(m)
  BY <1>1, LiveSame
<1>3. HolderInv'
  <2>1. ASSUME NEW q \in Pollers, NEW i \in Hand(q)'
        PROVE  QueueOf[MessageOf(i)] = q /\ i \notin pending' \cup done'
    <3>1. i \in Hand(q)
      BY <2>1
    <3>2. QueueOf[MessageOf(i)] = q /\ i \notin pending \cup done /\ QueueOf[MessageOf(j)] = p
      BY <3>1 DEF SharedInv, HolderInv
    <3>3. i # j
      BY <2>1, <3>2
    <3>. QED BY <3>2, <3>3
  <2>2. \A i \in Held' \cup done' : i[2] <= receipt'[MessageOf(i)]
    BY <1>1 DEF SharedInv, HolderInv
  <2>. QED BY <2>1, <2>2 DEF HolderInv
<1>4. LatestInv'
  BY <1>2 DEF SharedInv, LatestInv
<1>5. CountInv'
  BY <1>2, CountKept DEF SharedInv, CountInv, Count
<1>. QED BY <1>3, <1>4, <1>5 DEF SharedInv

(* A job is let go: its message is given back, or the call for that or for    *)
(* the delete has failed, or the message has been handled.                    *)
LEMMA DroppedStep ==
  ASSUME TypeOK, TypeOK', SharedInv, NEW j \in Held, Held' = Held \ {j},
         \A p \in Pollers : Hand(p)' \subseteq Hand(p), pending' \subseteq pending,
         done' \subseteq done \cup {j}, executing' \subseteq executing, UNCHANGED <<phase, receipt, expiries>>,
         failedCalls \subseteq failedCalls',
         \A n \in Messages \ {MessageOf(j)} : visibility'[n] = visibility[n] /\ handled'[n] = handled[n],
         LET m == MessageOf(j) IN
           \/ /\ handled'[m] = handled[m] /\ m \in failedCalls'
              /\ visibility'[m] \in {visibility[m], "deleted"}
           \/ /\ handled'[m] = handled[m]
              /\ visibility'[m] = IF visibility[m] = "hidden" /\ j[2] = receipt[m] THEN "visible" ELSE visibility[m]
           \/ /\ handled'[m] \in {handled[m], handled[m] + 1} /\ visibility'[m] = visibility[m]
              /\ j[2] = receipt[m] => visibility[m] = "deleted"
  PROVE  SharedInv'
<1>. DEFINE m == MessageOf(j)
<1>1. m \in Messages /\ j[2] \in 1 .. MaxReceives /\ j = <<m, j[2]>> /\ j \in Jobs
  BY HeldAreJobs
<1>2. \A n \in Messages \ {m} : Live(n)' = Live(n)
  BY <1>1 DEF Live
<1>3. j[2] \in Live(m) /\ Live(m)' = Live(m) \ {j[2]}
  BY <1>1 DEF Live
<1>4. HolderInv'
  <2>1. ASSUME NEW q \in Pollers, NEW i \in Hand(q)'
        PROVE  QueueOf[MessageOf(i)] = q /\ i \notin pending' \cup done'
    <3>1. i \in Hand(q) /\ i \in Held'
      BY <2>1 DEF Held
    <3>2. i # j
      BY <3>1
    <3>. QED BY <3>1, <3>2 DEF SharedInv, HolderInv
  <2>2. \A i \in Held' \cup done' : i \in Held \cup done
    OBVIOUS
  <2>. QED BY <2>1, <2>2 DEF SharedInv, HolderInv
<1>5. LatestInv'
  <2>1. ASSUME NEW i \in executing', i[2] = receipt'[MessageOf(i)]
        PROVE  visibility'[MessageOf(i)] = "deleted"
    <3>1. visibility[MessageOf(i)] = "deleted" /\ MessageOf(i) \in Messages
      BY <2>1, HeldAreJobs DEF SharedInv, LatestInv, TypeOK
    <3>2. CASE MessageOf(i) = m
      BY <3>1, <3>2
    <3>3. CASE MessageOf(i) # m
      BY <3>1, <3>3
    <3>. QED BY <3>2, <3>3
  <2>2. phase' = "closed" => pending' = {}
    BY DEF SharedInv, LatestInv
  <2>3. ASSUME NEW n \in Messages, visibility'[n] = "hidden", n \notin failedCalls'
        PROVE  receipt'[n] \in Live(n)'
    <3>1. CASE n = m
      <4>1. visibility[m] = "hidden" /\ j[2] # receipt[m]
        BY <2>3, <3>1
      <4>2. receipt[m] \in Live(m)
        BY <1>1, <2>3, <3>1, <4>1 DEF SharedInv, LatestInv
      <4>. QED BY <1>3, <3>1, <4>1, <4>2
    <3>2. CASE n # m
      BY <1>2, <2>3, <3>2 DEF SharedInv, LatestInv
    <3>. QED BY <3>1, <3>2
  <2>. QED BY <2>1, <2>2, <2>3 DEF LatestInv
<1>6. CountInv'
  <2>1. Count(m)'
    <3>1. Count(m)
      BY <1>1 DEF SharedInv, CountInv, Count
    <3>. QED BY <1>1, <1>3, <3>1, CountDropped
  <2>2. ASSUME NEW n \in Messages \ {m} PROVE Count(n)'
    BY <1>2, CountKept DEF SharedInv, CountInv, Count
  <2>. QED BY <2>1, <2>2 DEF CountInv, Count
<1>. QED BY <1>4, <1>5, <1>6 DEF SharedInv

\* DeleteMessage succeeds: the message is gone if nobody has received it since.
LEMMA DeletedStep ==
  ASSUME TypeOK, TypeOK', SharedInv, NEW j \in Jobs, ExecuteDelete(j), \A p \in Pollers : Hand(p)' = Hand(p)
  PROVE  SharedInv'
<1>. DEFINE m == MessageOf(j)
<1>1. m \in Messages /\ j = <<m, j[2]>>
  BY HeldAreJobs
<1>2. /\ UNCHANGED <<phase, pending, done, receipt, handled, expiries, failedCalls>> /\ executing' = executing \cup {j}
      /\ \A n \in Messages \ {m} : visibility'[n] = visibility[n]
      /\ visibility'[m] = "deleted" \/ (visibility'[m] = visibility[m] /\ j[2] # receipt[m])
  BY <1>1 DEF ExecuteDelete, TypeOK, calls, counts
<1>3. Held' = Held
  BY <1>2, HeldSame
<1>4. \A n : Live(n)' = Live(n)
  BY <1>3, LiveSame
<1>5. HolderInv'
  BY <1>2, <1>3 DEF SharedInv, HolderInv
<1>6. LatestInv'
  <2>1. ASSUME NEW i \in executing', i[2] = receipt'[MessageOf(i)]
        PROVE  visibility'[MessageOf(i)] = "deleted"
    <3>1. i \in pending /\ i \in Jobs /\ MessageOf(i) \in Messages
      BY <1>2, HeldAreJobs DEF TypeOK
    <3>2. CASE MessageOf(i) # m
      BY <1>2, <2>1, <3>1, <3>2 DEF SharedInv, LatestInv
    <3>3. CASE MessageOf(i) = m
      <4>1. CASE i = j
        BY <1>2, <2>1, <4>1
      <4>2. CASE i # j
        BY <1>2, <2>1, <3>3, <4>2 DEF SharedInv, LatestInv
      <4>. QED BY <4>1, <4>2
    <3>. QED BY <3>2, <3>3
  <2>2. ASSUME NEW n \in Messages, visibility'[n] = "hidden", n \notin failedCalls'
        PROVE  receipt'[n] \in Live(n)'
    <3>1. visibility[n] = "hidden"
      BY <1>2, <2>2
    <3>. QED BY <1>2, <1>4, <2>2, <3>1 DEF SharedInv, LatestInv
  <2>. QED BY <1>2, <2>1, <2>2 DEF SharedInv, LatestInv
<1>7. CountInv'
  <2>1. \A n \in Messages : visibility'[n] \in {visibility[n], "deleted"}
    BY <1>2
  <2>. QED BY <1>2, <1>4, <2>1, CountKept DEF SharedInv, CountInv, Count
<1>. QED BY <1>5, <1>6, <1>7 DEF SharedInv

-----------------------------------------------------------------------------
(* The steps of Next *)

LocalInvAll == \A p \in Pollers : LocalInv(p)

\* A step of a poller.
LEMMA PollerSteps ==
  ASSUME TypeOK, TypeOK', SharedInv, LocalInvAll, NEW p \in Pollers, PollerStep(p) \/ WaitTick(p)
  PROVE  SharedInv' /\ LocalInvAll'
<1>. USE DEF pool, queues, calls, run, locals, counts
<1>1. \A q \in Pollers \ {p} : LocalInv(q)' /\ Hand(q)' = Hand(q)
  BY HandFrame DEF LocalInvAll
<1>2. CASE \/ RunQuit(p) \/ RunExpired(p) \/ RunPoll(p) \/ WaitInterrupted(p) \/ WaitTick(p)
           \/ ReceiveNothing(p) \/ SubmitReturn(p) \/ TerminateReturn(p) \/ SubmitRefused(p) \/ SubmitError(p)
  <2>1. LocalInv(p)' /\ Hand(p)' = Hand(p)
    BY <1>2, HandKept DEF LocalInvAll
  <2>2. UNCHANGED <<phase, pending, done, executing, receipt, handled, failedCalls, visibility, expiries>>
    BY <1>2 DEF RunQuit, RunExpired, RunPoll, WaitInterrupted, WaitTick, Goto, ReceiveNothing,
                SubmitReturn, TerminateReturn, SubmitRefused, GiveBack, SubmitError, GiveUp
  <2>3. phase' = "closed" => pending = {}
    BY <2>2 DEF SharedInv, LatestInv
  <2>4. \A q \in Pollers : Hand(q)' = Hand(q)
    BY <1>1, <2>1
  <2>5. SharedInv'
    BY <2>2, <2>3, <2>4, KeptStep
  <2>. QED BY <1>1, <2>1, <2>5 DEF LocalInvAll
<1>3. CASE ReceiveMessage(p)
  <2>1. LocalInv(p)'
    BY <1>3, HandReceives DEF LocalInvAll
  <2>2. PICK ms \in Batches(p) :
          Hide(ms) /\ Hand(p) = {} /\ Hand(p)' = {<<m, receipt[m] + 1>> : m \in ms}
    BY <1>3, HandReceives DEF LocalInvAll
  <2>3. UNCHANGED <<phase, pending, done, executing, handled, expiries, failedCalls>>
    BY <1>3 DEF ReceiveMessage
  <2>4. SharedInv'
    BY <1>1, <2>2, <2>3, ReceivedStep
  <2>. QED BY <1>1, <2>1, <2>4 DEF LocalInvAll
<1>4. CASE ReceiveFails(p)
  <2>1. LocalInv(p)' /\ Hand(p)' = Hand(p)
    BY <1>4, HandKept DEF LocalInvAll
  <2>2. PICK ms \in Batches(p) : Hide(ms) /\ failedCalls' = failedCalls \cup ms
    BY <1>4 DEF ReceiveFails, CallFails
  <2>3. UNCHANGED <<phase, pending, done, executing, handled, expiries>>
    BY <1>4 DEF ReceiveFails
  <2>4. SharedInv'
    BY <1>1, <2>1, <2>2, <2>3, ReceivedStep
  <2>. QED BY <1>1, <2>1, <2>4 DEF LocalInvAll
<1>5. CASE SubmitAccepted(p)
  <2>. DEFINE j == messages[p][index[p]]
  <2>1. LocalInv(p)' /\ j \in Hand(p) /\ Hand(p)' = Hand(p) \ {j} /\ pending' = pending \cup {j}
    BY <1>5, HandSubmits DEF LocalInvAll
  <2>2. /\ phase = "open"
        /\ UNCHANGED <<phase, done, executing, receipt, handled, visibility, expiries, failedCalls>>
    BY <1>5 DEF SubmitAccepted, Pool!Accept
  <2>. HIDE DEF j
  <2>3. SharedInv'
    BY <1>1, <2>1, <2>2, SubmittedStep
  <2>. QED BY <1>1, <2>1, <2>3 DEF LocalInvAll
<1>6. CASE Terminate(p)
  <2>. DEFINE j == Head(toTerminate[p])
  <2>1. LocalInv(p)' /\ j \in Hand(p) /\ Hand(p)' = Hand(p) \ {j}
    BY <1>6, HandGivesBack DEF LocalInvAll
  <2>2. j \in Held /\ j \in Jobs /\ MessageOf(j) \in Messages /\ j = <<MessageOf(j), j[2]>>
    BY <2>1, HeldAreJobs DEF Held
  <2>3. /\ UNCHANGED <<phase, pending, done, executing, receipt, handled, expiries>>
        /\ \/ visibility' = [visibility EXCEPT ![MessageOf(j)] =
                 IF visibility[MessageOf(j)] = "hidden" /\ j = <<MessageOf(j), receipt[MessageOf(j)]>>
                 THEN "visible" ELSE visibility[MessageOf(j)]]
           \/ visibility' = visibility /\ failedCalls' = failedCalls \cup {MessageOf(j)}
        /\ failedCalls' \in {failedCalls, failedCalls \cup {MessageOf(j)}}
    BY <1>6 DEF Terminate, Shown, CallFails
  <2>. HIDE DEF j
  <2>4. Held' = Held \ {j}
    <3>1. j \notin pending /\ QueueOf[MessageOf(j)] = p
      BY <2>1 DEF SharedInv, HolderInv
    <3>2. \A q \in Pollers \ {p} : j \notin Hand(q)
      BY <3>1 DEF SharedInv, HolderInv
    <3>3. ASSUME NEW i PROVE i \in Held' <=> i \in Held /\ i # j
      <4>1. /\ i \in Held <=> i \in pending \/ \E q \in Pollers : i \in Hand(q)
            /\ i \in Held' <=> i \in pending' \/ \E q \in Pollers : i \in Hand(q)'
        BY DEF Held
      <4>2. \A q \in Pollers : i \in Hand(q)' <=> i \in Hand(q) /\ i # j
        BY <1>1, <2>1, <3>2
      <4>3. pending' = pending
        BY <2>3
      <4>. QED BY <3>1, <4>1, <4>2, <4>3
    <3>. QED BY <3>3
  <2>5. /\ \A n \in Messages \ {MessageOf(j)} : visibility'[n] = visibility[n]
        /\ \/ visibility'[MessageOf(j)] = IF visibility[MessageOf(j)] = "hidden" /\ j[2] = receipt[MessageOf(j)]
                                         THEN "visible" ELSE visibility[MessageOf(j)]
           \/ visibility'[MessageOf(j)] = visibility[MessageOf(j)] /\ MessageOf(j) \in failedCalls'
        /\ failedCalls \subseteq failedCalls'
    BY <2>2, <2>3 DEF TypeOK
  <2>6. \A q \in Pollers : Hand(q)' \subseteq Hand(q)
    BY <1>1, <2>1
  <2>7. SharedInv'
    BY <2>2, <2>3, <2>4, <2>5, <2>6, DroppedStep
  <2>. QED BY <1>1, <2>1, <2>7 DEF LocalInvAll
<1>. QED BY <1>2, <1>3, <1>4, <1>5, <1>6 DEF PollerStep

\* A worker ends the execution of a job: nobody holds it any more.
LEMMA FinishDrops ==
  ASSUME SharedInv, NEW j \in Jobs, Pool!Finish(j), \A p \in Pollers : Hand(p)' = Hand(p)
  PROVE  /\ j \in Held /\ Held' = Held \ {j}
         /\ pending' \subseteq pending /\ done' = done \cup {j} /\ phase' = phase
<1>1. j \in pending /\ pending' = pending \ {j} /\ done' = done \cup {j} /\ phase' = phase
  BY DEF Pool!Finish
<1>2. \A p \in Pollers : j \notin Hand(p)
  BY <1>1 DEF SharedInv, HolderInv
<1>3. UNION {Hand(p)' : p \in Pollers} = UNION {Hand(p) : p \in Pollers}
  OBVIOUS
<1>4. j \notin UNION {Hand(p) : p \in Pollers}
  BY <1>2
<1>. QED BY <1>1, <1>3, <1>4 DEF Held

\* The owner, the queue service and the workers.
LEMMA OtherSteps ==
  ASSUME TypeOK, TypeOK', SharedInv, LocalInvAll,
         \/ PoolStart \/ PoolStop \/ PoolStopReturn \/ Stopped \/ UNCHANGED vars
         \/ \E p \in Pollers : Start(p) \/ Stop(p) \/ StopReturn(p) \/ RefreshClient(p)
         \/ \E m \in Messages : Expire(m) \/ ExpireAbandoned(m)
         \/ \E j \in Jobs : Execute(j)
  PROVE  SharedInv' /\ LocalInvAll'
<1>. USE DEF pool, queues, calls, run, locals, counts
<1>1. /\ UNCHANGED <<messages, index, toTerminate>>
      /\ \A p \in Pollers :
           \/ pc'[p] = pc[p] /\ (life'[p] = life[p] \/ life'[p] = "stopping" \/ (life'[p] = "stopped" /\ pc[p] = "done"))
           \/ life[p] = "new" /\ life'[p] = "running" /\ pc'[p] = "top"
  <2>1. CASE \E p \in Pollers : Start(p) \/ Stop(p) \/ StopReturn(p)
    BY <2>1 DEF Start, Stop, StopReturn, TypeOK
  <2>2. CASE ~\E p \in Pollers : Start(p) \/ Stop(p) \/ StopReturn(p)
    <3>1. UNCHANGED <<locals, run>>
      BY <2>2 DEF PoolStart, PoolStop, PoolStopReturn, Stopped, vars, RefreshClient, Expire, ExpireAbandoned,
                  Execute, ExecuteDelete, ExecuteDeleteFails, ExecuteHandle
    <3>. QED BY <3>1
  <2>. QED BY <2>1, <2>2
<1>2. ASSUME NEW p \in Pollers PROVE LocalInv(p)' /\ Hand(p)' = Hand(p)
  <2>1. Rest(p)' = Rest(p) /\ Given(p)' = Given(p)
    BY <1>1 DEF Rest, Given
  <2>. QED BY <1>1, <2>1 DEF LocalInvAll, LocalInv, Hand
<1>3. CASE \/ PoolStart \/ PoolStop \/ PoolStopReturn \/ Stopped \/ UNCHANGED vars
           \/ \E p \in Pollers : Start(p) \/ Stop(p) \/ StopReturn(p) \/ RefreshClient(p)
  <2>1. UNCHANGED <<pending, done, executing, receipt, handled, failedCalls, visibility, expiries>>
    BY <1>3 DEF PoolStart, PoolStop, PoolStopReturn, Stopped, vars, Start, Stop, StopReturn, RefreshClient,
                Pool!Open, Pool!Drain, Pool!Close
  <2>2. phase' = "closed" => pending = {}
    BY <1>3 DEF PoolStart, PoolStop, PoolStopReturn, Stopped, vars, Start, Stop, StopReturn, RefreshClient,
                Pool!Open, Pool!Drain, Pool!Close, SharedInv, LatestInv
  <2>. QED BY <1>2, <2>1, <2>2, KeptStep DEF LocalInvAll
<1>4. ASSUME NEW m \in Messages, Expire(m) \/ ExpireAbandoned(m) PROVE SharedInv'
  <2>1. UNCHANGED <<phase, pending, done, executing, receipt, handled, failedCalls>>
    BY <1>4 DEF Expire, ExpireAbandoned
  <2>2. ExpireAbandoned(m) => Live(m) = {}
    <3>. SUFFICES ASSUME ExpireAbandoned(m), NEW r \in 1 .. MaxReceives, <<m, r>> \in Held PROVE FALSE
      BY DEF Live
    <3>1. <<m, r>> \notin pending /\ \A p \in Pollers : <<m, r>> \notin InHand(p)
      BY DEF ExpireAbandoned, WorkedOn
    <3>2. ASSUME NEW p \in Pollers PROVE Hand(p) \subseteq InHand(p)
      <4>1. messages[p] \in Seq(Jobs) /\ toTerminate[p] \in Seq(Jobs) /\ index[p] \in Nat \ {0}
        BY DEF TypeOK
      <4>2. ToSet(SubSeq(messages[p], index[p], Len(messages[p]))) = Rest(p)
        BY <4>1, RestOfList DEF Rest
      <4>3. ToSet(toTerminate[p]) = Given(p)
        BY <4>1, LenProperties DEF ToSet, Given, From
      <4>. QED BY <4>2, <4>3 DEF Hand, InHand
    <3>. QED BY <3>1, <3>2 DEF Held
  <2>3. \A n \in Messages :
           \/ visibility'[n] = visibility[n] /\ expiries'[n] = expiries[n]
           \/ /\ visibility[n] = "hidden" /\ visibility'[n] = "visible"
              /\ expiries'[n] = expiries[n] + 1 \/ (Live(n) = {} /\ expiries'[n] = expiries[n])
    BY <1>4, <2>2 DEF Expire, ExpireAbandoned, TypeOK
  <2>4. phase' = "closed" => pending = {}
    BY <2>1 DEF SharedInv, LatestInv
  <2>. QED BY <1>2, <2>1, <2>3, <2>4, KeptStep
<1>5. ASSUME NEW j \in Jobs, ExecuteDelete(j) PROVE SharedInv'
  BY <1>2, <1>5, DeletedStep
<1>6. ASSUME NEW j \in Jobs, ExecuteDeleteFails(j) PROVE SharedInv'
  <2>1. MessageOf(j) \in Messages
    BY HeldAreJobs
  <2>2. /\ j \in Held /\ Held' = Held \ {j} /\ pending' \subseteq pending
        /\ done' \subseteq done \cup {j} /\ phase' = phase
    BY <1>2, <1>6, FinishDrops DEF ExecuteDeleteFails
  <2>3. /\ UNCHANGED <<executing, receipt, expiries, handled>> /\ failedCalls' = failedCalls \cup {MessageOf(j)}
        /\ visibility' = [visibility EXCEPT ![MessageOf(j)] = "deleted"] \/ visibility' = visibility
    BY <1>6 DEF ExecuteDeleteFails, CallFails
  <2>4. /\ \A n \in Messages \ {MessageOf(j)} : visibility'[n] = visibility[n]
        /\ visibility'[MessageOf(j)] \in {visibility[MessageOf(j)], "deleted"}
    BY <2>1, <2>3 DEF TypeOK
  <2>. QED BY <1>2, <2>2, <2>3, <2>4, DroppedStep
<1>7. ASSUME NEW j \in Jobs, ExecuteHandle(j) PROVE SharedInv'
  <2>1. MessageOf(j) \in Messages
    BY HeldAreJobs
  <2>2. /\ j \in Held /\ Held' = Held \ {j} /\ pending' \subseteq pending
        /\ done' \subseteq done \cup {j} /\ phase' = phase
    BY <1>2, <1>7, FinishDrops DEF ExecuteHandle
  <2>3. /\ j \in executing /\ executing' \subseteq executing
        /\ UNCHANGED <<visibility, receipt, expiries, failedCalls>>
    BY <1>7 DEF ExecuteHandle
  <2>4. /\ \A n \in Messages \ {MessageOf(j)} : handled'[n] = handled[n]
        /\ handled'[MessageOf(j)] \in {handled[MessageOf(j)], handled[MessageOf(j)] + 1}
    BY <1>7, <2>1 DEF ExecuteHandle, TypeOK
  <2>5. j[2] = receipt[MessageOf(j)] => visibility[MessageOf(j)] = "deleted"
    BY <2>3 DEF SharedInv, LatestInv
  <2>. QED BY <1>2, <2>2, <2>3, <2>4, <2>5, DroppedStep
<1>. QED BY <1>2, <1>3, <1>4, <1>5, <1>6, <1>7 DEF Execute, LocalInvAll

\* A deleted message stays accounted for; only Execute deletes.
LEMMA DeletedSteps ==
  ASSUME TypeOK, DeletedIsHandled, [Next]_vars
  PROVE  DeletedIsHandled'
<1>. USE DEF pool, queues, calls, run, locals, counts
<1>1. ASSUME UNCHANGED <<executing, handled>>, failedCalls \subseteq failedCalls',
             \A m \in Messages : visibility'[m] = "deleted" => visibility[m] = "deleted"
      PROVE  DeletedIsHandled'
  BY <1>1 DEF DeletedIsHandled
<1>2. CASE \/ PoolStart \/ PoolStop \/ PoolStopReturn \/ Stopped \/ UNCHANGED vars
           \/ \E p \in Pollers : Start(p) \/ Stop(p) \/ StopReturn(p) \/ RefreshClient(p)
           \/ \E m \in Messages : Expire(m) \/ ExpireAbandoned(m)
  <2>1. UNCHANGED <<executing, handled, failedCalls>>
    BY <1>2 DEF PoolStart, PoolStop, PoolStopReturn, Stopped, vars, Start, Stop, StopReturn, RefreshClient, Expire, ExpireAbandoned
  <2>2. visibility' = visibility \/ \E m \in Messages : visibility' = [visibility EXCEPT ![m] = "visible"]
    BY <1>2 DEF PoolStart, PoolStop, PoolStopReturn, Stopped, vars, Start, Stop, StopReturn, RefreshClient, Expire, ExpireAbandoned
  <2>3. \A m \in Messages : visibility'[m] = "deleted" => visibility[m] = "deleted"
    BY <2>2 DEF TypeOK
  <2>. QED BY <1>1, <2>1, <2>3
<1>3. ASSUME NEW p \in Pollers, PollerStep(p) \/ WaitTick(p) PROVE DeletedIsHandled'
  <2>1. UNCHANGED <<executing, handled>>
    BY <1>3 DEF PollerStep, RunQuit, RunExpired, RunPoll, WaitTick, WaitInterrupted, Goto,
         ReceiveMessage, ReceiveNothing, ReceiveFails, SubmitAccepted, SubmitRefused,
         GiveBack, SubmitError, GiveUp, SubmitReturn, Terminate, TerminateReturn
  <2>2. failedCalls \subseteq failedCalls'
    BY <1>3 DEF PollerStep, RunQuit, RunExpired, RunPoll, WaitTick, WaitInterrupted, Goto,
         ReceiveMessage, ReceiveNothing, ReceiveFails, SubmitAccepted, SubmitRefused,
         GiveBack, SubmitError, GiveUp, SubmitReturn, Terminate, TerminateReturn, CallFails
  <2>3. \A m \in Messages : visibility'[m] = "deleted" => visibility[m] = "deleted"
    <3>1. CASE ReceiveMessage(p) \/ ReceiveFails(p)
      BY <3>1 DEF ReceiveMessage, ReceiveFails, Hide, TypeOK
    <3>2. CASE Terminate(p)
      BY <3>2 DEF Terminate, Shown, TypeOK
    <3>3. CASE ~(ReceiveMessage(p) \/ ReceiveFails(p) \/ Terminate(p))
      <4>1. visibility' = visibility
        BY <1>3, <3>3 DEF PollerStep, RunQuit, RunExpired, RunPoll, WaitTick, WaitInterrupted, Goto,
           ReceiveNothing, SubmitAccepted, SubmitRefused, GiveBack, SubmitError, GiveUp, SubmitReturn, TerminateReturn
      <4>. QED BY <4>1
    <3>. QED BY <3>1, <3>2, <3>3
  <2>. QED BY <1>1, <2>1, <2>2, <2>3
<1>4. ASSUME NEW j \in Jobs, ExecuteDelete(j) PROVE DeletedIsHandled'
  <2>1. UNCHANGED <<handled, failedCalls>> /\ executing' = executing \cup {j}
    BY <1>4 DEF ExecuteDelete
  <2>2. \A m \in Messages \ {MessageOf(j)} : visibility'[m] = visibility[m]
    BY <1>4 DEF ExecuteDelete, TypeOK
  <2>. QED BY <2>1, <2>2 DEF DeletedIsHandled
<1>5. ASSUME NEW j \in Jobs, ExecuteDeleteFails(j) PROVE DeletedIsHandled'
  <2>1. UNCHANGED <<handled, executing>> /\ failedCalls' = failedCalls \cup {MessageOf(j)}
    BY <1>5 DEF ExecuteDeleteFails, CallFails
  <2>2. \A m \in Messages \ {MessageOf(j)} : visibility'[m] = visibility[m]
    BY <1>5 DEF ExecuteDeleteFails, TypeOK
  <2>. QED BY <2>1, <2>2 DEF DeletedIsHandled
<1>6. ASSUME NEW j \in Jobs, ExecuteHandle(j) PROVE DeletedIsHandled'
  <2>1. UNCHANGED <<visibility, failedCalls>> /\ executing' = executing \ {j}
    BY <1>6 DEF ExecuteHandle
  <2>2. MessageOf(j) \in Messages
    BY HeldAreJobs
  <2>3. \A m \in Messages : handled[m] \in Nat /\ (m # MessageOf(j) => handled'[m] = handled[m])
    BY <1>6, <2>2 DEF ExecuteHandle, TypeOK
  <2>4. MessageOf(j) \in ForeignMessages \/ handled'[MessageOf(j)] > 0
    BY <1>6, <2>2, <2>3 DEF ExecuteHandle, TypeOK
  <2>. QED BY <2>1, <2>2, <2>3, <2>4 DEF DeletedIsHandled
<1>. QED BY <1>2, <1>3, <1>4, <1>5, <1>6 DEF Next, Execute

-----------------------------------------------------------------------------
LEMMA IInvParts == IInv <=> TypeOK /\ LocalInvAll /\ SharedInv /\ DeletedIsHandled
BY LocalInvs DEF IInv, LocalInvAll, SharedInv

\* Every message is in its queue and nobody has a job.
LEMMA InvInit == Init => IInv
<1>. SUFFICES ASSUME Init PROVE IInv
  OBVIOUS
<1>1. TypeOK
  <2>1. <<>> \in Seq(Jobs) /\ 0 \in 0 .. MaxReceives /\ 0 \in 0 .. MaxNumberOfMessages /\ 0 \in 0 .. MaxMishaps
    BY EmptySeq, PollerAssumption
  <2>. QED BY <2>1 DEF Init, TypeOK, RunStates
<1>2. LocalInvAll /\ \A p \in Pollers : Hand(p) = {}
  BY NothingInHand DEF Init, LocalInvAll, LocalInv, Hand, Rest, Given
<1>3. Held = {} /\ \A m : Live(m) = {}
  BY <1>2 DEF Held, Live, Init
<1>4. HolderInv /\ LatestInv /\ DeletedIsHandled
  BY <1>2, <1>3 DEF Init, HolderInv, LatestInv, DeletedIsHandled
<1>5. CountInv
  <2>. SUFFICES ASSUME NEW m \in Messages
                PROVE  handled[m] + Cardinality(Live(m)) + (IF Claimed(m) THEN 0 ELSE 1) <= 1 + expiries[m]
    BY DEF CountInv
  <2>1. handled[m] = 0 /\ expiries[m] = 0 /\ Cardinality(Live(m)) = 0
    BY <1>3, FS_EmptySet DEF Init
  <2>. QED BY <2>1
<1>. QED BY <1>1, <1>2, <1>4, <1>5, IInvParts DEF SharedInv

\* Every step preserves the invariant.
LEMMA NextInv == IInv /\ [Next]_vars => IInv'
<1>. SUFFICES ASSUME IInv, [Next]_vars PROVE IInv'
  OBVIOUS
<1>1. TypeOK /\ LocalInvAll /\ SharedInv /\ DeletedIsHandled
  BY IInvParts DEF IInv
<1>2. TypeOK'
  BY <1>1, TypeOthers, TypePoller DEF Next
<1>3. LocalInvAll' /\ SharedInv'
  BY <1>1, <1>2, OtherSteps, PollerSteps DEF Next
<1>4. DeletedIsHandled'
  BY <1>1, DeletedSteps
<1>5. LoopInv' /\ DistinctInv'
  BY <1>3 DEF LocalInvAll, LocalInv, LoopInv, DistinctInv
<1>. QED BY <1>2, <1>3, <1>4, <1>5 DEF IInv, SharedInv

(* The inductive invariant holds in every reachable state of the pollers, the *)
(* pool and the queues.                                                       *)
THEOREM PollerInvariant == Spec => []IInv
BY InvInit, NextInv, PTL DEF Spec

-----------------------------------------------------------------------------
(* Jobs, receipts and the variables of run and poll have their types.         *)
THEOREM PollerTypes == Spec => []TypeOK
BY PollerInvariant, PTL DEF IInv

(* However pollers, workers, timeouts and failing calls interleave, the       *)
(* action of a message runs at most once more than its visibility expired     *)
(* while a poller or the pool had it.                                         *)
THEOREM PollerAtMostOnce == Spec => []AtMostOncePerExpiry
<1>1. ASSUME IInv PROVE AtMostOncePerExpiry
  <2>. SUFFICES ASSUME NEW m \in Messages PROVE handled[m] <= 1 + expiries[m]
    BY DEF AtMostOncePerExpiry
  <2>1. handled[m] \in Nat /\ expiries[m] \in Nat
    BY <1>1 DEF IInv, TypeOK
  <2>2. Cardinality(Live(m)) \in Nat
    BY ReceiptsFinite DEF Live
  <2>3. handled[m] + Cardinality(Live(m)) + (IF Claimed(m) THEN 0 ELSE 1) <= 1 + expiries[m]
    BY <1>1 DEF IInv, CountInv
  <2>. QED BY <2>1, <2>2, <2>3
<1>. QED BY <1>1, PollerInvariant, PTL

(* Execute deletes before it handles, and still no message disappears from    *)
(* the queue unhandled unless some call about it reported an error.           *)
THEOREM PollerDeletedIsHandled == Spec => []DeletedIsHandled
BY PollerInvariant, PTL DEF IInv

(* When all pollers and the pool have stopped, every message that was         *)
(* received is deleted or visible again, but for those that a call failed     *)
(* for, a receive whose response was lost included.                           *)
THEOREM PollerGracefulStop == Spec => []GracefulStop
<1>1. ASSUME IInv PROVE GracefulStop
  <2>. SUFFICES ASSUME AllStopped, NEW m \in Messages, visibility[m] = "hidden", m \notin failedCalls
                PROVE  FALSE
    BY DEF GracefulStop
  <2>1. pending = {}
    BY <1>1 DEF IInv, LatestInv, AllStopped
  <2>2. ASSUME NEW p \in Pollers PROVE Hand(p) = {}
    <3>1. pc[p] = "done" /\ toTerminate[p] = <<>>
      BY <1>1 DEF IInv, LoopInv, AllStopped
    <3>. QED BY <3>1, NothingInHand DEF Hand, Given
  <2>3. <<m, receipt[m]>> \in Held
    BY <1>1 DEF IInv, LatestInv, Live
  <2>. QED BY <2>1, <2>2, <2>3 DEF Held
<1>. QED BY <1>1, PollerInvariant, PTL

-----------------------------------------------------------------------------
(* How Stop comes to an end *)

\* What poll has not submitted yet, and more than the steps that run takes after close(quit).
Left(p) == Len(messages[p]) - index[p] + 1

StopRank(p) ==
  CASE pc[p] = "top" -> 1 [] pc[p] = "wait" -> 2
    [] pc[p] = "giveUp" -> 3 + Len(toTerminate[p])
    [] pc[p] = "submit" -> 4 + 4 * Left(p)
    [] pc[p] = "giveBack" -> 6 + 4 * Left(p) + Len(toTerminate[p])
    [] pc[p] = "receive" -> 5 + 4 * MaxNumberOfMessages
    [] OTHER -> 0

(* After close(quit) nothing sends the poller back: it moves only towards the *)
(* end of run, and neither the pool nor the queue nor another poller moves it.*)
StopNearer == \A p \in Pollers :
  life[p] = "stopping" => \/ StopRank(p)' < StopRank(p)
                          \/ StopRank(p)' = StopRank(p) /\ pc'[p] = pc[p] /\ ~PollerStep(p)

(* The guards of the steps of a poller that is being stopped, but for the     *)
(* ticker: the long poll ends with or without messages, and Submit takes a    *)
(* job, refuses it or returns an error.                                       *)
PollerReady(p) ==
  \/ pc[p] \in {"top", "wait", "giveBack", "giveUp"}
  \/ pc[p] = "receive" /\ (Visible(p) = {} \/ Batches(p) \ {{}} # {})
  \/ pc[p] = "submit" /\ \/ ~Submitting(p) \/ phase \in {"new", "closed"}
                         \/ phase = "open" /\ Cardinality(pending) >= Capacity
                         \/ phase = "open" /\ messages[p][index[p]] \notin pending \cup done

\* Submit waits for Stop of the pool, which waits for jobs only.
WaitsForPool(p) == Submitting(p) /\ phase = "draining"

(* Until run has ended, Stop waits for a goroutine that can go on, in a       *)
(* bounded number of steps, unless the pool is just being stopped.            *)
StopGoesOn == \A p \in Pollers :
  life[p] = "stopping" => StopRank(p) \in Nat /\ (pc[p] = "done" \/ PollerReady(p) \/ WaitsForPool(p))

\* run exists from Start on, poll receives only with a worker available, and i does not pass the end.
RunInv(p) ==
  /\ life[p] # "new" => pc[p] # "off"
  /\ pc[p] = "receive" => maxMessages[p] >= 1
  /\ Left(p) \in Nat

\* A step of run, poll, terminateMessageVisibility or wait, by what StopRank depends on.
Moved(p) ==
  \/ /\ pc[p] = "top" /\ Left(p)' = Left(p)
     /\ \/ pc'[p] = "done"
        \/ ~quit(p) /\ (pc'[p] = "wait" \/ (pc'[p] = "receive" /\ maxMessages'[p] >= 1))
  \/ pc[p] = "wait" /\ pc'[p] = "top" /\ Left(p)' = Left(p)
  \/ pc[p] = "receive" /\ pc'[p] = "submit" /\ Left(p)' \in 0 .. MaxNumberOfMessages
  \/ pc[p] \in {"receive", "giveUp"} /\ pc'[p] = "wait" /\ Left(p)' = 0
  \/ pc[p] = "submit" /\ pc'[p] = "top" /\ Left(p)' = 0
  \/ pc[p] = "submit" /\ Left(p) >= 1 /\ pc'[p] = "submit" /\ Left(p)' = Left(p) - 1
  \/ pc[p] = "submit" /\ Left(p) >= 1 /\ pc'[p] = "giveBack" /\ Left(p)' = Left(p) - 1 /\ Len(toTerminate'[p]) = 1
  \/ pc[p] = "submit" /\ Left(p) >= 1 /\ pc'[p] = "giveUp" /\ Left(p)' = Left(p) /\ Len(toTerminate'[p]) = Left(p)
  \/ /\ pc[p] \in {"giveBack", "giveUp"} /\ pc'[p] = pc[p] /\ Left(p)' = Left(p)
     /\ Len(toTerminate'[p]) = Len(toTerminate[p]) - 1
  \/ pc[p] = "giveBack" /\ pc'[p] = "submit" /\ Left(p)' = Left(p)

\* A batch is not larger than poll has asked for.
LEMMA BatchLength ==
  ASSUME TypeOK, NEW p \in Pollers, NEW ms \in Batches(p), NEW s \in SetToSeqs({<<m, receipt[m] + 1>> : m \in ms})
  PROVE  Len(s) \in 0 .. MaxNumberOfMessages
<1>. DEFINE js == {<<m, receipt[m] + 1>> : m \in ms}
            f == [m \in ms |-> <<m, receipt[m] + 1>>]
<1>1. IsFiniteSet(ms) /\ Cardinality(ms) \in Nat
  BY BatchTypes, PollerAssumption, FS_Subset, FS_CardinalityType
<1>2. f \in Surjection(ms, js)
  BY DEF Surjection
<1>3. IsFiniteSet(js) /\ Cardinality(js) <= Cardinality(ms)
  BY <1>1, <1>2, FS_Surjection
<1>4. Cardinality(js) \in Nat
  BY <1>3, FS_CardinalityType
<1>. HIDE DEF js
<1>5. s \in [1 .. Cardinality(js) -> js]
  BY DEF SetToSeqs, js
<1>6. Len(s) = Cardinality(js)
  BY <1>4, <1>5
<1>7. Cardinality(ms) <= maxMessages[p] /\ maxMessages[p] \in 0 .. MaxNumberOfMessages
  BY DEF Batches, TypeOK
<1>8. MaxNumberOfMessages \in Nat
  BY PollerAssumption
<1>. QED BY <1>1, <1>3, <1>4, <1>6, <1>7, <1>8

\* poll returns with its local variables gone.
LEMMA ReturnedPoll ==
  ASSUME TypeOK, NEW p \in Pollers, NEW b \in BOOLEAN, PollReturn(p, b)
  PROVE  pc'[p] = (IF b THEN "wait" ELSE "top") /\ Left(p)' = 0
<1>1. messages'[p] = <<>> /\ index'[p] = 1
  BY DEF PollReturn, TypeOK
<1>2. Len(messages'[p]) = 0
  BY <1>1, EmptySeq
<1>. QED BY <1>1, <1>2 DEF PollReturn, TypeOK, Left

\* Every step of the poller is one of these.
LEMMA PollerMoves ==
  ASSUME TypeOK, NEW p \in Pollers, LocalInv(p), PollerStep(p) \/ WaitTick(p)
  PROVE  Moved(p) /\ life'[p] = life[p]
<1>. USE DEF TypeOK, pool, queues, calls, run, locals, counts
<1>0. Len(messages[p]) \in Nat /\ index[p] \in Nat \ {0} /\ MaxNumberOfMessages \in Nat \ {0}
  BY PollerAssumption
<1>1. CASE RunQuit(p) \/ RunExpired(p) \/ WaitInterrupted(p) \/ WaitTick(p)
  BY <1>1 DEF RunQuit, RunExpired, WaitInterrupted, WaitTick, Goto, Moved, Left
<1>2. CASE RunPoll(p)
  <2>1. PICK n \in AvailableWorkerCounts :
          /\ pc'[p] = IF n > 0 THEN "receive" ELSE "wait"
          /\ maxMessages'[p] = IF n < MaxNumberOfMessages THEN n ELSE MaxNumberOfMessages
    BY <1>2 DEF RunPoll
  <2>2. n \in Nat
    BY PollerAssumption DEF AvailableWorkerCounts
  <2>3. pc[p] = "top" /\ ~quit(p) /\ Left(p)' = Left(p) /\ life'[p] = life[p]
    BY <1>2 DEF RunPoll, Left
  <2>. QED BY <1>0, <2>1, <2>2, <2>3 DEF Moved
<1>3. CASE ReceiveMessage(p)
  <2>1. PICK ms \in Batches(p) : \E js \in SetToSeqs({<<m, receipt[m] + 1>> : m \in ms}) :
                                   messages' = [messages EXCEPT ![p] = js]
    BY <1>3 DEF ReceiveMessage
  <2>2. Len(messages'[p]) \in 0 .. MaxNumberOfMessages
    BY <2>1, BatchLength
  <2>3. index'[p] = 1 /\ pc[p] = "receive" /\ pc'[p] = "submit" /\ life'[p] = life[p]
    BY <1>3 DEF ReceiveMessage, LocalInv
  <2>4. Left(p)' \in 0 .. MaxNumberOfMessages
    BY <1>0, <2>2, <2>3 DEF Left
  <2>. QED BY <2>3, <2>4 DEF Moved
<1>4. CASE ReceiveNothing(p)
  BY <1>4, ReturnedPoll DEF ReceiveNothing, Moved
<1>5. CASE ReceiveFails(p)
  BY <1>5, ReturnedPoll DEF ReceiveFails, Moved
<1>6. CASE SubmitReturn(p)
  BY <1>6, ReturnedPoll DEF SubmitReturn, Moved
<1>7. ASSUME Submitting(p) PROVE Left(p) \in Nat /\ Left(p) >= 1
  BY <1>0, <1>7 DEF Submitting, Left
<1>8. CASE SubmitAccepted(p)
  <2>1. Submitting(p) /\ pc'[p] = pc[p] /\ index'[p] = index[p] + 1 /\ messages'[p] = messages[p] /\ life'[p] = life[p]
    BY <1>8 DEF SubmitAccepted
  <2>2. Left(p)' = Left(p) - 1
    BY <1>0, <2>1 DEF Left
  <2>. QED BY <1>7, <2>1, <2>2 DEF Submitting, Moved
<1>9. CASE SubmitRefused(p)
  <2>1. /\ Submitting(p) /\ pc'[p] = "giveBack" /\ index'[p] = index[p] + 1 /\ messages'[p] = messages[p]
        /\ life'[p] = life[p] /\ toTerminate'[p] = SubSeq(messages[p], index[p], index[p])
    BY <1>9 DEF SubmitRefused, GiveBack
  <2>2. Left(p)' = Left(p) - 1
    BY <1>0, <2>1 DEF Left
  <2>3. Len(toTerminate'[p]) = 1
    <3>1. messages[p] \in Seq(Jobs) /\ \A k \in index[p] .. index[p] : messages[p][k] \in Jobs
      BY <1>0, <2>1, ElementOfSeq DEF Submitting
    <3>2. Len(SubSeq(messages[p], index[p], index[p])) = index[p] - index[p] + 1
      BY <1>0, <3>1, SubSeqProperties
    <3>. QED BY <1>0, <2>1, <3>2
  <2>. QED BY <1>7, <2>1, <2>2, <2>3 DEF Submitting, Moved
<1>10. CASE SubmitError(p)
  <2>1. /\ Submitting(p) /\ pc'[p] = "giveUp" /\ index'[p] = index[p] /\ messages'[p] = messages[p]
        /\ life'[p] = life[p] /\ toTerminate'[p] = SubSeq(messages[p], index[p], Len(messages[p]))
    BY <1>10 DEF SubmitError, GiveUp
  <2>2. Left(p)' = Left(p)
    BY <2>1 DEF Left
  <2>3. Len(toTerminate'[p]) = Left(p)
    BY <1>0, <2>1, SubSeqProperties DEF Submitting, Left
  <2>. QED BY <1>7, <2>1, <2>2, <2>3 DEF Submitting, Moved
<1>11. CASE Terminate(p)
  <2>1. /\ pc[p] \in {"giveBack", "giveUp"} /\ toTerminate[p] # <<>> /\ toTerminate'[p] = Tail(toTerminate[p])
        /\ pc'[p] = pc[p] /\ index'[p] = index[p] /\ messages'[p] = messages[p] /\ life'[p] = life[p]
    BY <1>11 DEF Terminate
  <2>2. Len(toTerminate'[p]) = Len(toTerminate[p]) - 1
    BY <2>1, HeadTailProperties
  <2>3. Left(p)' = Left(p)
    BY <2>1 DEF Left
  <2>. QED BY <2>1, <2>2, <2>3 DEF Moved
<1>12. CASE TerminateReturn(p)
  <2>1. CASE pc[p] = "giveBack"
    BY <1>12, <2>1 DEF TerminateReturn, Moved, Left
  <2>2. CASE pc[p] = "giveUp"
    BY <1>12, <2>2, ReturnedPoll DEF TerminateReturn, Moved
  <2>. QED BY <1>12, <2>1, <2>2 DEF TerminateReturn
<1>. QED BY <1>1, <1>2, <1>3, <1>4, <1>5, <1>6, <1>8, <1>9, <1>10, <1>11, <1>12 DEF PollerStep

\* Nobody else changes the place or the local variables of the goroutine of run.
LEMMA PollerUntouched ==
  ASSUME TypeOK, NEW p \in Pollers, [Next]_vars, ~PollerStep(p), ~WaitTick(p)
  PROVE  /\ messages'[p] = messages[p] /\ index'[p] = index[p] /\ toTerminate'[p] = toTerminate[p]
         /\ maxMessages'[p] = maxMessages[p]
         /\ \/ pc'[p] = pc[p] /\ (life'[p] = life[p] \/ life[p] # "new")
            \/ life[p] = "new" /\ pc'[p] = "top"
<1>. USE DEF TypeOK, pool, queues, calls, run, locals, counts
<1>1. CASE PoolStart \/ PoolStop \/ PoolStopReturn \/ Stopped \/ UNCHANGED vars
  BY <1>1 DEF PoolStart, PoolStop, PoolStopReturn, Stopped, vars
<1>2. ASSUME NEW q \in Pollers, Start(q) \/ Stop(q) \/ StopReturn(q) \/ RefreshClient(q)
      PROVE  /\ UNCHANGED locals
             /\ \/ pc'[p] = pc[p] /\ (life'[p] = life[p] \/ life[p] # "new")
                \/ life[p] = "new" /\ pc'[p] = "top"
  BY <1>2 DEF Start, Stop, StopReturn, RefreshClient
<1>3. ASSUME NEW q \in Pollers, PollerStep(q) \/ WaitTick(q), q # p
      PROVE  /\ messages'[p] = messages[p] /\ index'[p] = index[p] /\ toTerminate'[p] = toTerminate[p]
             /\ maxMessages'[p] = maxMessages[p] /\ pc'[p] = pc[p] /\ life'[p] = life[p]
  <2>1. CASE RunQuit(q) \/ RunExpired(q) \/ WaitInterrupted(q) \/ WaitTick(q) \/ RunPoll(q)
    BY <1>3, <2>1 DEF RunQuit, RunExpired, WaitInterrupted, WaitTick, Goto, RunPoll
  <2>2. CASE ReceiveMessage(q) \/ ReceiveNothing(q) \/ ReceiveFails(q) \/ SubmitReturn(q)
    BY <1>3, <2>2 DEF ReceiveMessage, ReceiveNothing, ReceiveFails, SubmitReturn, PollReturn
  <2>3. CASE SubmitAccepted(q) \/ SubmitRefused(q) \/ SubmitError(q)
    BY <1>3, <2>3 DEF SubmitAccepted, SubmitRefused, GiveBack, SubmitError, GiveUp
  <2>4. CASE Terminate(q)
    BY <1>3, <2>4 DEF Terminate
  <2>5. CASE TerminateReturn(q)
    BY <1>3, <2>5 DEF TerminateReturn, PollReturn
  <2>. QED BY <1>3, <2>1, <2>2, <2>3, <2>4, <2>5 DEF PollerStep
<1>4. ASSUME NEW m \in Messages, Expire(m) \/ ExpireAbandoned(m) PROVE UNCHANGED <<run, locals>>
  BY <1>4 DEF Expire, ExpireAbandoned
<1>5. ASSUME NEW j \in Jobs, Execute(j) PROVE UNCHANGED <<run, locals>>
  BY <1>5 DEF Execute, ExecuteDelete, ExecuteDeleteFails, ExecuteHandle
<1>. QED BY <1>1, <1>2, <1>3, <1>4, <1>5 DEF Next

\* The values of StopRank.
LEMMA StopRankIs ==
  ASSUME NEW p
  PROVE  /\ pc[p] = "top" => StopRank(p) = 1
         /\ pc[p] = "wait" => StopRank(p) = 2
         /\ pc[p] = "giveUp" => StopRank(p) = 3 + Len(toTerminate[p])
         /\ pc[p] = "submit" => StopRank(p) = 4 + 4 * Left(p)
         /\ pc[p] = "giveBack" => StopRank(p) = 6 + 4 * Left(p) + Len(toTerminate[p])
         /\ pc[p] = "receive" => StopRank(p) = 5 + 4 * MaxNumberOfMessages
         /\ pc[p] \in {"off", "done"} => StopRank(p) = 0
BY DEF StopRank

RunInvAll == \A p \in Pollers : RunInv(p)

\* A step that starts in the invariants keeps the second, and lowers the rank of whoever is being stopped and moves.
LEMMA RunStep == IInv /\ IInv' /\ RunInvAll /\ [Next]_vars => RunInvAll' /\ StopNearer
<1>. SUFFICES ASSUME IInv, IInv', RunInvAll, [Next]_vars, NEW p \in Pollers
     PROVE  /\ RunInv(p)'
            /\ life[p] = "stopping" => \/ StopRank(p)' < StopRank(p)
                                       \/ StopRank(p)' = StopRank(p) /\ pc'[p] = pc[p] /\ ~PollerStep(p)
  BY DEF RunInvAll, StopNearer
<1>1. /\ TypeOK /\ LocalInv(p) /\ RunInv(p) /\ MaxNumberOfMessages \in Nat
      /\ Len(toTerminate[p]) \in Nat /\ Len(toTerminate'[p]) \in Nat
  BY PollerAssumption, LocalInvs DEF IInv, RunInvAll, TypeOK
<1>2. CASE PollerStep(p) \/ WaitTick(p)
  <2>1. Moved(p) /\ life'[p] = life[p]
    BY <1>1, <1>2, PollerMoves
  <2>2. RunInv(p)'
    BY <1>1, <2>1 DEF Moved, RunInv
  <2>3. ASSUME life[p] = "stopping" PROVE StopRank(p)' < StopRank(p)
    <3>1. Left(p) \in Nat /\ Left(p)' \in Nat /\ quit(p)
      BY <1>1, <2>2, <2>3 DEF RunInv, quit
    <3>2. /\ pc'[p] = "top" => StopRank(p)' = 1
          /\ pc'[p] = "wait" => StopRank(p)' = 2
          /\ pc'[p] = "giveUp" => StopRank(p)' = 3 + Len(toTerminate'[p])
          /\ pc'[p] = "submit" => StopRank(p)' = 4 + 4 * Left(p)'
          /\ pc'[p] = "giveBack" => StopRank(p)' = 6 + 4 * Left(p)' + Len(toTerminate'[p])
          /\ pc'[p] = "done" => StopRank(p)' = 0
      BY DEF StopRank, Left
    <3>3. /\ pc[p] = "top" => StopRank(p) = 1
          /\ pc[p] = "wait" => StopRank(p) = 2
          /\ pc[p] = "giveUp" => StopRank(p) = 3 + Len(toTerminate[p])
          /\ pc[p] = "submit" => StopRank(p) = 4 + 4 * Left(p)
          /\ pc[p] = "giveBack" => StopRank(p) = 6 + 4 * Left(p) + Len(toTerminate[p])
          /\ pc[p] = "receive" => StopRank(p) = 5 + 4 * MaxNumberOfMessages
      BY StopRankIs
    <3>. DEFINE l == Left(p)  k == Left(p)'  t == Len(toTerminate[p])  u == Len(toTerminate'[p])
                r == StopRank(p)  s == StopRank(p)'
    <3>4. l \in Nat /\ k \in Nat /\ t \in Nat /\ u \in Nat
      BY <1>1, <3>1
    <3>5. \/ r = 1 /\ s = 0
          \/ r = 2 /\ s = 1
          \/ r = 5 + 4 * MaxNumberOfMessages /\ s = 4 + 4 * k /\ k <= MaxNumberOfMessages
          \/ (r = 5 + 4 * MaxNumberOfMessages \/ r = 3 + t) /\ s = 2
          \/ r = 4 + 4 * l /\ s = 1
          \/ r = 4 + 4 * l /\ s = 4 + 4 * k /\ k = l - 1
          \/ r = 4 + 4 * l /\ s = 6 + 4 * k + u /\ k = l - 1 /\ u = 1
          \/ r = 4 + 4 * l /\ s = 3 + u /\ u = l
          \/ r = 6 + 4 * l + t /\ s = 6 + 4 * k + u /\ k = l /\ u = t - 1
          \/ r = 3 + t /\ s = 3 + u /\ u = t - 1
          \/ r = 6 + 4 * l + t /\ s = 4 + 4 * k /\ k = l
      BY <2>1, <3>1, <3>2, <3>3 DEF Moved
    <3>. HIDE DEF l, k, t, u, r, s
    <3>6. s < r
      BY <1>1, <3>4, <3>5
    <3>. QED BY <3>6 DEF r, s
  <2>. QED BY <2>2, <2>3
<1>3. CASE ~PollerStep(p) /\ ~WaitTick(p)
  <2>1. /\ messages'[p] = messages[p] /\ index'[p] = index[p] /\ toTerminate'[p] = toTerminate[p]
        /\ maxMessages'[p] = maxMessages[p]
        /\ \/ pc'[p] = pc[p] /\ (life'[p] = life[p] \/ life[p] # "new")
           \/ life[p] = "new" /\ pc'[p] = "top"
    BY <1>1, <1>3, PollerUntouched
  <2>2. RunInv(p)'
    BY <1>1, <2>1 DEF RunInv, Left
  <2>3. life[p] = "stopping" => StopRank(p)' = StopRank(p) /\ pc'[p] = pc[p]
    BY <2>1 DEF StopRank, Left
  <2>. QED BY <1>3, <2>2, <2>3
<1>. QED BY <1>2, <1>3

\* Whoever has to go on can.
LEMMA RunGoesOn == IInv /\ RunInvAll => StopGoesOn
<1>. SUFFICES ASSUME IInv, RunInvAll, NEW p \in Pollers, life[p] = "stopping"
     PROVE  StopRank(p) \in Nat /\ (pc[p] = "done" \/ PollerReady(p) \/ WaitsForPool(p))
  BY DEF StopGoesOn
<1>1. /\ TypeOK /\ RunInv(p) /\ MaxNumberOfMessages \in Nat /\ Len(toTerminate[p]) \in Nat /\ Left(p) \in Nat
      /\ pc[p] \in RunStates \ {"off"}
  BY PollerAssumption DEF IInv, RunInvAll, RunInv, TypeOK
<1>2. StopRank(p) \in Nat
  BY <1>1, StopRankIs DEF RunStates
<1>3. CASE pc[p] = "receive"
  <2>1. maxMessages[p] >= 1 /\ maxMessages[p] \in Nat
    BY <1>1, <1>3 DEF RunInv, TypeOK
  <2>2. ASSUME NEW m \in Visible(p) PROVE {m} \in Batches(p) \ {{}}
    <3>1. Cardinality({m}) = 1
      BY FS_Singleton
    <3>. QED BY <2>1, <3>1 DEF Batches
  <2>. QED BY <1>2, <1>3, <2>2 DEF PollerReady
<1>4. CASE pc[p] = "submit"
  <2>1. ASSUME Submitting(p) PROVE messages[p][index[p]] \notin pending \cup done
    <3>1. index[p] \in index[p] .. Len(messages[p])
      BY <1>1, <2>1 DEF Submitting, TypeOK
    <3>2. messages[p][index[p]] \in Hand(p)
      BY <1>4, <3>1 DEF Hand, Rest, From
    <3>. QED BY <3>2 DEF IInv, HolderInv
  <2>2. phase \in {"new", "open", "draining", "closed"}
    BY <1>1 DEF TypeOK
  <2>. QED BY <1>2, <1>4, <2>1, <2>2 DEF PollerReady, WaitsForPool
<1>. QED BY <1>1, <1>2, <1>3, <1>4 DEF PollerReady, RunStates

(* Stop of a poller, wherever it finds the goroutine of run, waits for a      *)
(* bounded number of its steps, each of which is possible when its turn       *)
(* comes: the rest of the batch is submitted or given back, whatever the pool *)
(* answers and whichever calls fail, and no ticker has to fire.  Only while   *)
(* the pool itself is being stopped does a Submit wait, for the pool's jobs.  *)
THEOREM PollerStopEnds == Spec => []StopGoesOn /\ [][StopNearer]_vars
<1>1. Init => RunInvAll
  <2>. SUFFICES ASSUME Init, NEW p \in Pollers PROVE RunInv(p)
    BY DEF RunInvAll
  <2>1. Len(messages[p]) = 0 /\ index[p] = 1
    BY EmptySeq DEF Init
  <2>. QED BY <2>1 DEF Init, RunInv, Left
<1>2. IInv /\ IInv' /\ RunInvAll /\ [Next]_vars => RunInvAll' /\ [StopNearer]_vars
  BY RunStep
<1>3. IInv /\ RunInvAll => StopGoesOn
  BY RunGoesOn
<1>. QED BY <1>1, <1>2, <1>3, PollerInvariant, PTL DEF Spec
=============================================================================
