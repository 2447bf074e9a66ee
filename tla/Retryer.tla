-------------------------------- MODULE Retryer --------------------------------
(***************************************************************************)
(* HTTP requests with retries: src/retryer/retryer.go and request.go, and  *)
(* the two callers, SendResultToJsm (src/runbook/sender.go, a POST with a  *)
(* body) and receiveToken (src/queue/processor.go, a GET without one).     *)
(* The server and net/http are external: an attempt ends with a status,    *)
(* with a timeout, after which the client cannot know whether the server   *)
(* took the request, or with another network error.                        *)
(*                                                                         *)
(* Definitions marked "Mutant" are explained in WorkerPool.                *)
(***************************************************************************)
EXTENDS Naturals, Sequences

CONSTANTS
  maxRetryCount,    \* 5
  Statuses          \* the status codes that the server may answer

ASSUME RetryAssumption ==
  maxRetryCount \in Nat \ {0} /\ Statuses \subseteq 100..999

VARIABLES
  purpose,        \* "result" or "token"
  pc,             \* "new", "seek", "do", "examine", "sleep", "caller", "done"
  position,       \* in request.body: "start", "middle", "end"
  answer,         \* of the last attempt: a status, or 0
  failed,         \* error of the last attempt: "nil", "timeout", "other"
  retryCount,
  waited,         \* milliseconds slept so far
  open,           \* response bodies that nobody has closed
  outcome,        \* for the caller of the caller: "none", "ok", "error"
  attempts        \* history: the attempts, as the server met them

vars == <<purpose, pc, position, answer, failed, retryCount, waited, open, outcome, attempts>>

Init ==
  /\ purpose \in {"result", "token"} /\ pc = "new" /\ position = "start"
  /\ answer = 0 /\ failed = "nil" /\ retryCount = 0 /\ waited = 0 /\ open = 0
  /\ outcome = "none" /\ attempts = <<>>

-----------------------------------------------------------------------------

retryStatusCodes == {429}

\* Mutant: the last of the server errors is missing.
RetryBelow599(status) == status \in 500..598 \cup retryStatusCodes

shouldRetry(status) == status \in 500..599 \cup retryStatusCodes

\* Mutant: the exponent starts at one.
WaitTimeDoubled(count) == 2 ^ (count + 1) * 100

getWaitTime(count) == 2 ^ count * 100

\* SendResultToJsm takes 202 only, receiveToken 200 only.
Expected == IF purpose = "result" THEN 202 ELSE 200

-----------------------------------------------------------------------------

\* The body is, or is read into, a bytes.Reader; a GET has none.
NewRequest ==
  /\ pc = "new" /\ pc' = "seek"
  /\ UNCHANGED <<purpose, position, answer, failed, retryCount, waited, open, outcome, attempts>>

\* The payload cannot be marshalled, or the URL does not parse.
NewRequestFails ==
  /\ pc = "new" /\ pc' = "done" /\ outcome' = "error"
  /\ UNCHANGED <<purpose, position, answer, failed, retryCount, waited, open, attempts>>

\* Mutant: the body is read on from where the last attempt left it.
SeekNowhere ==
  /\ pc = "seek" /\ pc' = "do"
  /\ UNCHANGED <<purpose, position, answer, failed, retryCount, waited, open, outcome, attempts>>

\* request.body.Seek(0, 0), which cannot fail for a bytes.Reader.
Seek ==
  /\ pc = "seek" /\ pc' = "do" /\ position' = "start"
  /\ UNCHANGED <<purpose, answer, failed, retryCount, waited, open, outcome, attempts>>

(* client.Do.  Before the attempt ended the body has been read to some point, *)
(* to its end if the server accepted the request.                             *)
Do(status, error) ==
  /\ pc = "do" /\ pc' = "examine"
  /\ position' \in CASE purpose = "token"   -> {"start"}
                     [] position = "end"    -> {"end"}
                     [] position = "middle" -> {"middle", "end"}
                     [] position = "start"  -> {"start", "middle", "end"}
  /\ (status = 202 /\ purpose = "result") => position' = "end"
  /\ answer' = status /\ failed' = error
  /\ open' = IF error = "nil" THEN open + 1 ELSE open
  /\ attempts' = Append(attempts, [answer |-> status, failed |-> error, from |-> position])
  /\ UNCHANGED <<purpose, retryCount, waited, outcome>>

DoAnswered == \E status \in Statuses : Do(status, "nil")
DoTimeout == Do(0, "timeout")
DoFails == Do(0, "other")

\* A network error that is not a timeout.
ReturnError ==
  /\ pc = "examine" /\ failed = "other"
  /\ pc' = "done" /\ outcome' = "error"
  /\ UNCHANGED <<purpose, position, answer, failed, retryCount, waited, open, attempts>>

ReturnResponse ==
  /\ pc = "examine" /\ failed = "nil" /\ ~shouldRetry(answer)
  /\ pc' = "caller"
  /\ UNCHANGED <<purpose, position, answer, failed, retryCount, waited, open, outcome, attempts>>

\* A timeout, or a status to retry, whose response is read and closed.
Transient == failed = "timeout" \/ (failed = "nil" /\ shouldRetry(answer))

\* Mutant: the response is left as it is.
NotClosed == open

Closed == IF failed = "nil" THEN open - 1 ELSE open

\* Mutant: the attempt is not counted.
RetryUncounted ==
  /\ pc = "examine" /\ Transient /\ retryCount + 1 < maxRetryCount
  /\ open' = Closed /\ pc' = "sleep"
  /\ UNCHANGED <<purpose, position, answer, failed, retryCount, waited, outcome, attempts>>

Retry ==
  /\ pc = "examine" /\ Transient /\ retryCount + 1 < maxRetryCount
  /\ open' = Closed /\ retryCount' = retryCount + 1 /\ pc' = "sleep"
  /\ UNCHANGED <<purpose, position, answer, failed, waited, outcome, attempts>>

GiveUp ==
  /\ pc = "examine" /\ Transient /\ retryCount + 1 = maxRetryCount
  /\ open' = Closed /\ retryCount' = retryCount + 1
  /\ pc' = "done" /\ outcome' = "error"
  /\ UNCHANGED <<purpose, position, answer, failed, waited, attempts>>

Sleep ==
  /\ pc = "sleep" /\ pc' = "seek"
  /\ waited' = waited + getWaitTime(retryCount - 1)
  /\ UNCHANGED <<purpose, position, answer, failed, retryCount, open, outcome, attempts>>

\* Mutant: every answer that is not retried will do.
CallerContent ==
  /\ pc = "caller" /\ pc' = "done" /\ open' = open - 1 /\ outcome' = "ok"
  /\ UNCHANGED <<purpose, position, answer, failed, retryCount, waited, attempts>>

\* SendResultToJsm, receiveToken: the status is checked, the body closed.  A
\* token that does not decode is an error too.
CallerReturns ==
  /\ pc = "caller" /\ pc' = "done" /\ open' = open - 1
  /\ \/ outcome' = "ok" /\ answer = Expected
     \/ outcome' = "error" /\ (answer # Expected \/ purpose = "token")
  /\ UNCHANGED <<purpose, position, answer, failed, retryCount, waited, attempts>>

Next ==
  \/ NewRequest \/ NewRequestFails \/ Seek \/ DoAnswered \/ DoTimeout \/ DoFails
  \/ ReturnError \/ ReturnResponse \/ Retry \/ GiveUp \/ Sleep \/ CallerReturns

Spec == Init /\ [][Next]_vars

-----------------------------------------------------------------------------
(* Properties *)

\* The types of everything but the waiting time.
LoopTypeOK ==
  /\ purpose \in {"result", "token"}
  /\ pc \in {"new", "seek", "do", "examine", "sleep", "caller", "done"}
  /\ position \in {"start", "middle", "end"}
  /\ answer \in Statuses \cup {0} /\ failed \in {"nil", "timeout", "other"}
  /\ retryCount \in 0..maxRetryCount /\ open \in 0..1
  /\ outcome \in {"none", "ok", "error"}
  /\ attempts \in Seq([answer : Statuses \cup {0}, failed : {"nil", "timeout", "other"},
                       from : {"start", "middle", "end"}])

\* Every variable has its type, and at most one response is open at a time.
TypeOK == LoopTypeOK /\ waited \in Nat

\* A later attempt may succeed: no answer in time, throttled, or a server error.
MayPass(a) == a.failed = "timeout" \/ a.answer = 429 \/ a.answer \div 100 = 5

(* A request is sent again exactly as long as it makes sense: every attempt   *)
(* but the last could be repeated, so what the server has once answered for   *)
(* good is never sent twice (what it took without answering in time is); and  *)
(* the client gives up on one that could be repeated only after maxRetryCount *)
(* attempts.                                                                  *)
EffortJustified ==
  LET n == Len(attempts) IN
  /\ n <= maxRetryCount
  /\ \A i \in 1..(n - 1) : MayPass(attempts[i])
  /\ pc = "done" => n \in {0, maxRetryCount} \/ ~MayPass(attempts[n])

(* Every attempt sends the whole body, also after one that was cut off while  *)
(* the body was being read.                                                   *)
BodyIntact == \A i \in 1..Len(attempts) : attempts[i].from = "start"

(* The callers report success only when the server's last word was the status *)
(* that means it; a result that the server answered with that status is never *)
(* reported as not sent (one that it took without answering in time may be);  *)
(* and no response body stays open when they return.                          *)
HonestOutcome ==
  LET n == Len(attempts)
      accepted == n > 0 /\ attempts[n].answer = Expected
  IN  pc = "done" =>
        /\ open = 0
        /\ outcome = "ok" => accepted
        /\ purpose = "result" /\ accepted => outcome = "ok"

(* The sleeps of n attempts add up to 100 (2^(n-1) - 1) ms, 1.5 s at most.     *)
BackoffBudget ==
  /\ pc \in {"do", "seek"} => waited = 100 * (2 ^ Len(attempts) - 1)
  /\ waited <= 100 * (2 ^ (maxRetryCount - 1) - 1)

PcRank(s) ==
  CASE s \in {"new", "sleep"} -> 5 [] s = "seek" -> 4 [] s = "do" -> 3 [] s = "examine" -> 2
    [] s = "caller" -> 1 [] OTHER -> 0

\* More than the steps that are left.
Rank == 6 * (maxRetryCount - retryCount) + PcRank(pc)

(* The loop cannot go on for ever, whatever the server answers: its rounds    *)
(* are counted, so that every step, back to the top of the loop too, lowers   *)
(* what is left to do until the caller has its answer.                        *)
RetriesRunOut == [][Rank' \in Nat /\ Rank' < Rank]_vars
=============================================================================
