--------------------------- MODULE SqsProviderProofs ---------------------------
(***************************************************************************)
(* FlagOfCurrentClient for any number of pollers and workers.  By itself   *)
(* it is not inductive: a call may have been answered ExpiredToken and not *)
(* yet have set the flag.  Such a caller holds the read lock, so the       *)
(* client it talked to, whose token is dead, is still the current one.     *)
(***************************************************************************)
EXTENDS SqsProvider, TLAPS

\* An unexamined ExpiredToken is about the current client.
AnswerOfCurrentClient == \A c \in Callers : err[c] = "expired" => clientDead

IInv == TypeOK /\ AnswerOfCurrentClient /\ FlagOfCurrentClient

-----------------------------------------------------------------------------

\* NewSqsProvider establishes the invariant.
LEMMA InvInit == Init => IInv
BY DEF Init, IInv, TypeOK, AnswerOfCurrentClient, FlagOfCurrentClient

\* Every step preserves the types.
LEMMA TypeStep == ASSUME TypeOK, [Next]_vars PROVE TypeOK'
<1>1. CASE UNCHANGED vars
  BY <1>1 DEF TypeOK, vars
<1>2. ASSUME NEW p \in Pollers, IsTokenExpired(p) PROVE TypeOK'
  BY <1>2 DEF TypeOK, IsTokenExpired, Callers
<1>3. ASSUME NEW w \in Workers, Properties(w) PROVE TypeOK'
  BY <1>3 DEF TypeOK, Properties, Callers
<1>4. ASSUME NEW c \in Callers, BeginCall(c) \/ RLock(c) PROVE TypeOK'
  BY <1>4 DEF TypeOK, BeginCall, RLock
<1>5. ASSUME NEW c \in Callers, Return(c) PROVE TypeOK'
  BY <1>5 DEF TypeOK, Return, CallSucceeds, CallExpired, CallFails, Answer
<1>6. ASSUME NEW c \in Callers, CheckExpiration(c) PROVE TypeOK'
  BY <1>6 DEF TypeOK, CheckExpiration
<1>7. CASE RefreshClient \/ NewSessionFails \/ NewSession \/ ReplaceClient \/ ClearFlag \/ Expire
  BY <1>7 DEF TypeOK, RefreshClient, NewSessionFails, NewSession, ReplaceClient, ClearFlag, Expire
<1>. QED BY <1>1, <1>2, <1>3, <1>4, <1>5, <1>6, <1>7 DEF Next

\* Every step keeps unexamined answers and the flag about the current client.
LEMMA FlagStep ==
  ASSUME IInv, [Next]_vars
  PROVE  (AnswerOfCurrentClient /\ FlagOfCurrentClient)'
<1>. USE DEF IInv, AnswerOfCurrentClient, FlagOfCurrentClient, TypeOK
<1>1. CASE UNCHANGED vars
  BY <1>1 DEF vars
<1>2. ASSUME NEW p \in Pollers, IsTokenExpired(p)
      PROVE  (AnswerOfCurrentClient /\ FlagOfCurrentClient)'
  BY <1>2 DEF IsTokenExpired
<1>3. ASSUME NEW w \in Workers, Properties(w)
      PROVE  (AnswerOfCurrentClient /\ FlagOfCurrentClient)'
  BY <1>3 DEF Properties
<1>4. ASSUME NEW c \in Callers, BeginCall(c) \/ RLock(c)
      PROVE  (AnswerOfCurrentClient /\ FlagOfCurrentClient)'
  BY <1>4 DEF BeginCall, RLock
<1>5. ASSUME NEW c \in Callers, Return(c)
      PROVE  (AnswerOfCurrentClient /\ FlagOfCurrentClient)'
  BY <1>5 DEF Return, CallSucceeds, CallExpired, CallFails, Answer
<1>6. ASSUME NEW c \in Callers, CheckExpiration(c)
      PROVE  (AnswerOfCurrentClient /\ FlagOfCurrentClient)'
  BY <1>6 DEF CheckExpiration
<1>7. CASE RefreshClient \/ NewSessionFails \/ NewSession \/ ClearFlag \/ Expire
  BY <1>7 DEF RefreshClient, NewSessionFails, NewSession, ClearFlag, Expire
<1>8. CASE ReplaceClient
  \* The write lock excludes every caller with an unexamined answer.
  <2>1. \A c \in Callers : err[c] # "expired"
    BY <1>8 DEF ReplaceClient, CanWriteLock, HoldsReadLock
  <2>. QED BY <1>8, <2>1 DEF ReplaceClient
<1>. QED BY <1>1, <1>2, <1>3, <1>4, <1>5, <1>6, <1>7, <1>8 DEF Next

\* The inductive invariant holds in every reachable state.
THEOREM ProviderInvariant == Spec => []IInv
<1>1. IInv /\ [Next]_vars => IInv'
  BY TypeStep, FlagStep DEF IInv
<1>. QED BY InvInit, <1>1, PTL DEF Spec

(* However many pollers and workers call the queue while the processor        *)
(* refreshes its client, the answer to an old client never marks the new one. *)
THEOREM FreshClientNotExpired == Spec => []FlagOfCurrentClient
BY ProviderInvariant, PTL DEF IInv

(* The calls, their errors and the flag have their types, and an error that a *)
(* call has left is examined before the next call of the same goroutine.      *)
THEOREM ProviderTypes == Spec => []TypeOK
BY ProviderInvariant, PTL DEF IInv
=============================================================================
