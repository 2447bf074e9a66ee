------------------------------ MODULE SqsProvider ------------------------------
(***************************************************************************)
(* The queue client with its temporary AWS credentials:                    *)
(* src/queue/sqs_provider.go.  One poller and the workers call the queue   *)
(* under the read lock of refreshClientMu and note an expired token in     *)
(* isTokenExpired; the processor replaces the client under the write lock  *)
(* and then, under the other lock, clears the flag.  A poller that sees    *)
(* the flag does not poll (src/queue/poller.go).                           *)
(*                                                                         *)
(* Definitions marked "Mutant" are explained in WorkerPool.                *)
(***************************************************************************)
EXTENDS Naturals, FiniteSets

CONSTANTS
  Pollers,        \* callers of ReceiveMessage that look at the flag first
  Workers         \* callers of DeleteMessage and Properties

ASSUME CallersAssumption == Pollers \cap Workers = {}

Callers == Pollers \cup Workers

VARIABLES
  clientDead,       \* AWS no longer accepts the token of the current client
  isTokenExpired,
  pc,               \* of a caller: "idle", "ready", "calling", "returned"
  err,              \* of a caller: "nil", "expired" (ExpiredToken), "other"
  refreshPc         \* RefreshClient: "idle", "session", "waiting", "replaced"

vars == <<clientDead, isTokenExpired, pc, err, refreshPc>>

\* NewSqsProvider: a fresh client.
Init ==
  /\ clientDead = FALSE /\ isTokenExpired = FALSE
  /\ pc = [c \in Callers |-> "idle"] /\ err = [c \in Callers |-> "nil"]
  /\ refreshPc = "idle"

-----------------------------------------------------------------------------
(* refreshClientMu (a sync.RWMutex: a writer that waits stops new readers) *)

\* Mutant: unlocked before the answer is examined.
HoldsDuringCall(c) == pc[c] = "calling"

HoldsReadLock(c) == pc[c] \in {"calling", "returned"}

CanRLock == refreshPc # "waiting"

CanWriteLock == \A c \in Callers : ~HoldsReadLock(c)

-----------------------------------------------------------------------------
(* The callers *)

\* run of the poller: IsTokenExpired, then poll.
IsTokenExpired(p) ==
  /\ pc[p] = "idle" /\ ~isTokenExpired
  /\ pc' = [pc EXCEPT ![p] = "ready"]
  /\ UNCHANGED <<clientDead, isTokenExpired, err, refreshPc>>

\* A worker, or a poller that returns messages, calls whatever the flag says.
BeginCall(c) ==
  /\ pc[c] = "idle"
  /\ pc' = [pc EXCEPT ![c] = "ready"]
  /\ UNCHANGED <<clientDead, isTokenExpired, err, refreshPc>>

RLock(c) ==
  /\ pc[c] = "ready" /\ CanRLock
  /\ pc' = [pc EXCEPT ![c] = "calling"]
  /\ UNCHANGED <<clientDead, isTokenExpired, err, refreshPc>>

\* Mutant: an error is returned before checkExpiration has seen it.
AnswerUnchecked(c, e) ==
  /\ pc[c] = "calling"
  /\ pc' = [pc EXCEPT ![c] = "idle"] /\ err' = [err EXCEPT ![c] = e]
  /\ UNCHANGED <<clientDead, isTokenExpired, refreshPc>>

\* client.ReceiveMessage, DeleteMessage or ChangeMessageVisibility returns.
Answer(c, e) ==
  /\ pc[c] = "calling"
  /\ pc' = [pc EXCEPT ![c] = "returned"] /\ err' = [err EXCEPT ![c] = e]
  /\ UNCHANGED <<clientDead, isTokenExpired, refreshPc>>

CallSucceeds(c) == ~clientDead /\ Answer(c, "nil")

CallExpired(c) == clientDead /\ Answer(c, "expired")

\* No answer, or another error, with either kind of token.
CallFails(c) == Answer(c, "other")

\* Properties: a read of the client's properties under the same lock.
Properties(w) ==
  /\ pc[w] = "calling" /\ pc' = [pc EXCEPT ![w] = "idle"]
  /\ UNCHANGED <<clientDead, isTokenExpired, err, refreshPc>>

\* Mutant: returns at an expired token without RUnlock.
CheckExpirationReturns(c) ==
  /\ pc[c] = "returned" /\ err[c] # "expired"
  /\ pc' = [pc EXCEPT ![c] = "idle"] /\ err' = [err EXCEPT ![c] = "nil"]
  /\ UNCHANGED <<clientDead, isTokenExpired, refreshPc>>

\* Mutant: the error code is not recognised.
CheckExpirationBlind(c) ==
  /\ pc[c] = "returned"
  /\ pc' = [pc EXCEPT ![c] = "idle"] /\ err' = [err EXCEPT ![c] = "nil"]
  /\ UNCHANGED <<clientDead, isTokenExpired, refreshPc>>

\* checkExpiration and RUnlock.
CheckExpiration(c) ==
  /\ pc[c] = "returned"
  /\ isTokenExpired' = (isTokenExpired \/ err[c] = "expired")
  /\ pc' = [pc EXCEPT ![c] = "idle"] /\ err' = [err EXCEPT ![c] = "nil"]
  /\ UNCHANGED <<clientDead, refreshPc>>

-----------------------------------------------------------------------------
(* RefreshClient, called by the processor *)

RefreshClient ==
  /\ refreshPc = "idle" /\ refreshPc' = "session"
  /\ UNCHANGED <<clientDead, isTokenExpired, pc, err>>

NewSessionFails ==
  /\ refreshPc = "session" /\ refreshPc' = "idle"
  /\ UNCHANGED <<clientDead, isTokenExpired, pc, err>>

NewSession ==
  /\ refreshPc = "session" /\ refreshPc' = "waiting"
  /\ UNCHANGED <<clientDead, isTokenExpired, pc, err>>

\* Lock, the new client, Unlock.
ReplaceClient ==
  /\ refreshPc = "waiting" /\ CanWriteLock
  /\ clientDead' = FALSE /\ refreshPc' = "replaced"
  /\ UNCHANGED <<isTokenExpired, pc, err>>

\* Calls of the new client may already have set the flag.
ClearFlag ==
  /\ refreshPc = "replaced"
  /\ isTokenExpired' = FALSE /\ refreshPc' = "idle"
  /\ UNCHANGED <<clientDead, pc, err>>

\* AWS: the token's hour is over.
Expire ==
  /\ ~clientDead /\ clientDead' = TRUE
  /\ UNCHANGED <<isTokenExpired, pc, err, refreshPc>>

-----------------------------------------------------------------------------

Return(c) == CallSucceeds(c) \/ CallExpired(c) \/ CallFails(c)

Next ==
  \/ \E p \in Pollers : IsTokenExpired(p)
  \/ \E w \in Workers : Properties(w)
  \/ \E c \in Callers : BeginCall(c) \/ RLock(c) \/ Return(c) \/ CheckExpiration(c)
  \/ RefreshClient \/ NewSessionFails \/ NewSession \/ ReplaceClient \/ ClearFlag
  \/ Expire

Spec == Init /\ [][Next]_vars

(* A running poller keeps polling, calls end, the network does not fail every *)
(* time, and a lock that is free is taken (strongly for readers: Unlock lets  *)
(* the readers that wait in before another writer).  A refresh need not ever  *)
(* begin.                                                                     *)
Fairness ==
  /\ \A p \in Pollers : WF_vars(IsTokenExpired(p)) /\ SF_vars(CallExpired(p))
  /\ \A c \in Callers : /\ SF_vars(RLock(c)) /\ WF_vars(Return(c))
                        /\ WF_vars(CheckExpiration(c))
  /\ WF_vars(NewSession \/ NewSessionFails) /\ WF_vars(ReplaceClient) /\ WF_vars(ClearFlag)

FairSpec == Spec /\ Fairness

-----------------------------------------------------------------------------
(* Properties *)

\* Every variable has its type, and no call ends with an error that was not checked.
TypeOK ==
  /\ clientDead \in BOOLEAN /\ isTokenExpired \in BOOLEAN
  /\ pc \in [Callers -> {"idle", "ready", "calling", "returned"}]
  /\ err \in [Callers -> {"nil", "expired", "other"}]
  /\ \A c \in Callers : err[c] # "nil" => pc[c] = "returned"
  /\ refreshPc \in {"idle", "session", "waiting", "replaced"}

(* A fresh client is never taken for an expired one: outside the window       *)
(* between its two critical sections, RefreshClient leaves no flag behind     *)
(* that an answer to the previous client set (which would stop the poller     *)
(* until the next refresh).                                                   *)
FlagOfCurrentClient ==
  isTokenExpired => clientDead \/ refreshPc = "replaced"

(* Also when ClearFlag wipes out what a call of the new client noted, an      *)
(* expired token is noticed in the end, or replaced.                          *)
ExpiryNoticed == clientDead ~> (isTokenExpired \/ ~clientDead)

(* The pollers' and workers' calls never keep RefreshClient from the lock     *)
(* for ever, and it never keeps them from it.                                 *)
RefreshCompletes ==
  /\ (refreshPc = "waiting") ~> (refreshPc = "idle")
  /\ \A c \in Callers : (pc[c] = "ready") ~> (pc[c] = "idle")
=============================================================================
