------------------------- MODULE ActionExecutionProofs -------------------------
(***************************************************************************)
(* Theorems about ActionExecution for any actions, repositories and        *)
(* executions, and any number of commits.                                  *)
(*                                                                         *)
(* AcceptedActionsRun follows the configuration from validate through the  *)
(* clones to the file paths; OneCommitPerScript needs the lock: while the  *)
(* working copy of a repository is out of step with its branch, nobody     *)
(* reads it.                                                               *)
(***************************************************************************)
EXTENDS ActionExecution, TLAPS

\* The types that the proofs need.
TypeInv ==
  /\ repositories \subseteq Urls /\ toPull \subseteq Urls
  /\ remote \in [Urls -> Nat] /\ master \in [Urls -> Nat] /\ workingCopy \in [Urls -> Nat]
  /\ notReset \in [Urls -> BOOLEAN]
  /\ pullPc \in {"off", "select", "next", "waiting", "fetch", "reset", "resetting", "done"}
  /\ pullPc \in {"waiting", "fetch", "reset", "resetting"} => pulling \in Urls
  /\ pc \in [Executions -> {"idle", "get", "locked", "env", "running"}]
  /\ action \in [Executions -> ActionNames \cup {None}]
  /\ sharedEnv \in [Executions -> BOOLEAN]
  /\ scriptEnv \in [Executions -> ActionNames \cup {None}]
  /\ seen \in [Executions -> Nat] /\ tail \in ActionNames \cup {None}

\* An action of the configuration that Read returns.
MappedActions ==
  [type : {"custom", "http", "other"}, sourceType : {"local", "git", "other"},
   gitOptions : GitOptions, dir : {"local", "relative"} \cup GitOptions]

(* What validate leaves of the actions: a source that is known, and for a git *)
(* action options that are not empty.                                         *)
ValidMappings(m) == \A a \in DOMAIN m :
  /\ m[a] \in MappedActions
  /\ m[a].sourceType \in {"local", "git"}
  /\ m[a].sourceType = "git" => m[a].gitOptions # "none"
  /\ m[a].sourceType = "local" => m[a].dir = "local"

\* Every git action has its repository, and its file path is inside it.
ResolvedMappings(m, urls) == \A a \in DOMAIN m :
  m[a].sourceType = "git" => m[a].gitOptions \in urls /\ m[a].dir = m[a].gitOptions

(* Messages are handled only between Start and the end of the pool; until     *)
(* then repositories are cloned, after that removed.                          *)
PhaseInv ==
  /\ mainPc \in {"read", "download", "running", "stopping", "remove", "exited"}
  /\ ~Handling => /\ \A e \in Executions : pc[e] = "idle"
                  /\ pullPc \in {"off", "done"}
  /\ mainPc = "read" => repositories = {}
  /\ mainPc = "download" => ValidMappings(mappings) /\ GitActions(mappings) \subseteq toDownload \cup repositories
  /\ Handling => ValidMappings(mappings) /\ ResolvedMappings(mappings, repositories)
  /\ \A e \in Executions : pc[e] # "idle" => action[e] \in DOMAIN mappings

(* The writer has no readers, and outside a reset a working copy is that of   *)
(* its branch, unless a pull failed after its fetch.                          *)
LockInv ==
  /\ pullPc \in {"fetch", "reset", "resetting"} => Readers(pulling) = {}
  /\ \A u \in repositories :
       \/ workingCopy[u] = master[u] \/ notReset[u]
       \/ pulling = u /\ pullPc \in {"reset", "resetting"}

\* A script that runs still has the working copy it began with.
SeenInv == \A e \in Executions :
  pc[e] = "running" /\ Mapped(e).sourceType = "git" => workingCopy[Mapped(e).gitOptions] = seen[e]

IInv == TypeInv /\ PhaseInv /\ LockInv /\ SeenInv

-----------------------------------------------------------------------------
\* A file that Read accepts has valid mappings.
LEMMA AcceptedIsValid ==
  ASSUME NEW o \in Origins, NEW actions \in ActionFiles, Accepted(o, actions)
  PROVE  ValidMappings(Mappings(actions))
<1>1. PICK names \in SUBSET ActionNames : actions \in [names -> ActionSpecs]
  BY DEF ActionFiles
<1>. SUFFICES ASSUME NEW a \in names
              PROVE  LET m == Mappings(actions)[a] IN
                       /\ m \in MappedActions
                       /\ m.sourceType \in {"local", "git"}
                       /\ m.sourceType = "git" => m.gitOptions # "none"
                       /\ m.sourceType = "local" => m.dir = "local"
  BY <1>1 DEF ValidMappings, Mappings
<1>2. PICK spec \in ActionSpecs : spec = actions[a] /\ ValidSource(spec)
  BY <1>1 DEF Accepted, validate
<1>3. PICK type \in {"custom", "http", "other"}, dir \in {"local", "relative"} :
        /\ dir = addHomeDirPrefix(spec)
        /\ Mappings(actions)[a] = [type |-> type, sourceType |-> spec.sourceType,
                                   gitOptions |-> spec.gitOptions, dir |-> dir]
  <2>. DEFINE t == IF spec.type = "" THEN "custom" ELSE spec.type
              d == addHomeDirPrefix(spec)
  <2>1. t \in {"custom", "http", "other"} /\ d \in {"local", "relative"}
    BY <1>2 DEF ActionSpecs, addHomeDirPrefix
  <2>2. Mappings(actions)[a] = [type |-> t, sourceType |-> spec.sourceType,
                                gitOptions |-> spec.gitOptions, dir |-> d]
    BY <1>1, <1>2 DEF Mappings, UnmarshalAction, addHomeDirPrefix, ActionSpecs
  <2>. HIDE DEF t, d
  <2>. QED BY <2>1, <2>2 DEF d
<1>4. /\ spec.sourceType \in {"local", "git"} /\ spec.gitOptions \in GitOptions
      /\ spec.sourceType = "git" => spec.gitOptions # "none"
  BY <1>2 DEF ActionSpecs, ValidSource
<1>. QED BY <1>3, <1>4 DEF MappedActions, addHomeDirPrefix

\* Start completes the path of every git action whose repository was cloned.
LEMMA PathsCompleted ==
  ASSUME NEW m, NEW urls, ValidMappings(m), GitActions(m) \subseteq urls
  PROVE  /\ ValidMappings(AddRepositoryPath(m, urls))
         /\ ResolvedMappings(AddRepositoryPath(m, urls), urls)
         /\ DOMAIN AddRepositoryPath(m, urls) = DOMAIN m
<1>. DEFINE n == AddRepositoryPath(m, urls)
<1>1. DOMAIN n = DOMAIN m
  BY DEF AddRepositoryPath
<1>2. ASSUME NEW a \in DOMAIN m
      PROVE  /\ n[a] = IF m[a].sourceType = "git" THEN [m[a] EXCEPT !.dir = m[a].gitOptions] ELSE m[a]
             /\ m[a].sourceType = "git" => m[a].gitOptions \in urls
  BY <1>2 DEF AddRepositoryPath, ValidMappings, GitActions
<1>3. ASSUME NEW a \in DOMAIN m
      PROVE  /\ n[a] \in MappedActions /\ n[a].sourceType = m[a].sourceType
             /\ n[a].gitOptions = m[a].gitOptions
             /\ n[a].dir = IF m[a].sourceType = "git" THEN m[a].gitOptions ELSE m[a].dir
  BY <1>2, <1>3 DEF ValidMappings, MappedActions
<1>. HIDE DEF n
<1>4. ValidMappings(n) /\ ResolvedMappings(n, urls)
  BY <1>1, <1>2, <1>3 DEF ValidMappings, ResolvedMappings
<1>. QED BY <1>1, <1>4 DEF n

\* At the start of main.
LEMMA InvInit == Init => IInv
BY DEF Init, IInv, TypeInv, PhaseInv, Handling, LockInv, SeenInv

-----------------------------------------------------------------------------
(* The executions by their own: only they change what SeenInv says of a       *)
(* script, apart from the working copies.                                     *)

(* A step that leaves the executions and the mappings alone. *)
LEMMA ReadersSame ==
  ASSUME UNCHANGED <<mappings, pc, action>>
  PROVE  \A u : Readers(u)' = Readers(u)
BY DEF Readers

\* Reading the configuration, cloning and starting; nobody executes anything yet.
LEMMA StartSteps ==
  ASSUME IInv, ReadConfiguration \/ Fatal \/ Start \/ \E u \in Urls : Download(u)
  PROVE  IInv'
<1>0. ~Handling
  BY DEF ReadConfiguration, Fatal, Start, Download, Handling
<1>1. /\ \A e \in Executions : pc[e] = "idle"
      /\ pullPc \in {"off", "done"}
  BY <1>0 DEF IInv, PhaseInv
<1>2. UNCHANGED <<pc, action, sharedEnv, scriptEnv, seen, tail, pulling, toPull, remote, notReset>>
  BY DEF ReadConfiguration, Fatal, Start, Download, program, copies, puller, locals, script
<1>3. SeenInv'
  BY <1>1, <1>2 DEF IInv, SeenInv
<1>4. CASE ReadConfiguration
  <2>1. ValidMappings(mappings') /\ GitActions(mappings') \subseteq toDownload'
    BY <1>4, AcceptedIsValid DEF ReadConfiguration
  <2>2. TypeInv' /\ PhaseInv' /\ LockInv'
    BY <1>1, <1>2, <1>4, <2>1
       DEF ReadConfiguration, IInv, TypeInv, PhaseInv, LockInv, Handling, puller
  <2>. QED BY <1>3, <2>2 DEF IInv
<1>5. CASE Fatal
  BY <1>1, <1>2, <1>3, <1>5 DEF Fatal, IInv, TypeInv, PhaseInv, LockInv, Handling, puller, copies
<1>6. CASE Start
  <2>1. ValidMappings(mappings') /\ ResolvedMappings(mappings', repositories)
    BY <1>6, PathsCompleted DEF Start, IInv, PhaseInv
  <2>2. TypeInv' /\ PhaseInv' /\ LockInv'
    BY <1>1, <1>2, <1>6, <2>1 DEF Start, IInv, TypeInv, PhaseInv, LockInv, Handling, copies
  <2>. QED BY <1>3, <2>2 DEF IInv
<1>7. ASSUME NEW u \in Urls, Download(u) PROVE IInv'
  <2>1. TypeInv' /\ PhaseInv'
    BY <1>1, <1>2, <1>7 DEF Download, IInv, TypeInv, PhaseInv, Handling, puller, program
  <2>2. LockInv'
    BY <1>1, <1>2, <1>7 DEF Download, IInv, TypeInv, LockInv, puller
  <2>. QED BY <1>3, <2>1, <2>2 DEF IInv
<1>. QED BY <1>4, <1>5, <1>6, <1>7

\* Stopping: the executions and the pull have ended before a copy is removed.
LEMMA StopSteps ==
  ASSUME IInv, Stop \/ Stopped \/ Exit \/ Ended \/ UNCHANGED vars
               \/ \E u \in Urls : Remove(u) \/ Commit(u)
  PROVE  IInv'
<1>. USE DEF program, copies, puller, locals, script
<1>1. CASE Stop
  BY <1>1 DEF Stop, IInv, TypeInv, PhaseInv, LockInv, SeenInv, Handling, Readers, Mapped
<1>2. CASE Stopped
  BY <1>2 DEF Stopped, IInv, TypeInv, PhaseInv, LockInv, SeenInv, Handling, Readers, Mapped
<1>3. CASE Exit
  BY <1>3 DEF Exit, IInv, TypeInv, PhaseInv, LockInv, SeenInv, Handling, Readers, Mapped
<1>4. CASE Ended \/ UNCHANGED vars
  BY <1>4 DEF Ended, vars, IInv, TypeInv, PhaseInv, LockInv, SeenInv, Handling, Readers, Mapped
<1>5. ASSUME NEW u \in Urls, Remove(u) PROVE IInv'
  <2>1. ~Handling /\ ~Handling' /\ mainPc = "remove"
    BY <1>5 DEF Remove, Handling
  <2>2. TypeInv' /\ PhaseInv'
    BY <1>5, <2>1 DEF Remove, IInv, TypeInv, PhaseInv
  <2>3. LockInv' /\ SeenInv'
    BY <1>5, <2>1 DEF Remove, IInv, TypeInv, PhaseInv, LockInv, SeenInv
  <2>. QED BY <2>2, <2>3 DEF IInv
<1>6. ASSUME NEW u \in Urls, Commit(u) PROVE IInv'
  <2>1. TypeInv'
    BY <1>6 DEF Commit, IInv, TypeInv
  <2>2. PhaseInv' /\ LockInv' /\ SeenInv'
    BY <1>6 DEF Commit, IInv, PhaseInv, LockInv, SeenInv, Handling, Readers, Mapped
  <2>. QED BY <2>1, <2>2 DEF IInv
<1>. QED BY <1>1, <1>2, <1>3, <1>4, <1>5, <1>6

-----------------------------------------------------------------------------
(* The pull.  Its steps before the lock change nothing that an execution      *)
(* sees; those under the lock change one working copy, which has no readers.  *)

\* Waiting for the next pull and for the lock.
LEMMA PullWaitSteps ==
  ASSUME IInv, PullTick \/ PullQuit \/ PullAllReturn \/ PullLocked \/ \E u \in Urls : PullLock(u)
  PROVE  IInv'
<1>. USE DEF program, copies, puller, locals, script
<1>1. /\ UNCHANGED <<program, tail, copies, locals, script>>
      /\ pullPc \in {"select", "next", "waiting"}
  BY DEF PullTick, PullQuit, PullAllReturn, PullLocked, PullLock
<1>2. Handling /\ Handling'
  BY <1>1 DEF IInv, PhaseInv, Handling
<1>3. PhaseInv' /\ SeenInv'
  BY <1>1, <1>2 DEF IInv, PhaseInv, SeenInv, Mapped
<1>4. TypeInv'
  BY <1>1 DEF IInv, TypeInv, PullTick, PullQuit, PullAllReturn, PullLocked, PullLock
<1>5. LockInv'
  <2>1. \A u \in repositories : workingCopy[u] = master[u] \/ notReset[u]
    BY <1>1 DEF IInv, LockInv
  <2>2. pullPc' \in {"fetch", "reset", "resetting"} => Readers(pulling)' = {}
    BY <1>1, ReadersSame
       DEF PullTick, PullQuit, PullAllReturn, PullLocked, PullLock, NoReaders
  <2>. QED BY <1>1, <2>1, <2>2 DEF LockInv
<1>. QED BY <1>3, <1>4, <1>5 DEF IInv

\* Fetching and resetting, under the lock.
LEMMA PullLockedSteps ==
  ASSUME IInv, Fetch \/ FetchFails \/ Reset \/ ResetDone \/ ResetFails
  PROVE  IInv'
<1>. USE DEF program, copies, puller, locals, script
<1>1. /\ UNCHANGED <<program, tail, locals, script, repositories, toDownload, remote, pulling, toPull>>
      /\ pullPc \in {"fetch", "reset", "resetting"}
  BY DEF Fetch, FetchFails, Reset, ResetDone, ResetFails
<1>2. pulling \in Urls /\ Readers(pulling) = {} /\ Readers(pulling)' = {}
  BY <1>1, ReadersSame DEF IInv, TypeInv, LockInv
<1>3. /\ workingCopy' \in [Urls -> Nat] /\ master' \in [Urls -> Nat]
      /\ \A u \in Urls \ {pulling} :
           workingCopy'[u] = workingCopy[u] /\ master'[u] = master[u] /\ notReset'[u] = notReset[u]
  BY <1>2, ExecutionsAssumption DEF Fetch, FetchFails, Reset, ResetDone, ResetFails, IInv, TypeInv, Torn
<1>4. notReset' \in [Urls -> BOOLEAN]
  BY <1>2 DEF Fetch, FetchFails, Reset, ResetDone, ResetFails, IInv, TypeInv
<1>5. TypeInv'
  BY <1>1, <1>3, <1>4 DEF Fetch, FetchFails, Reset, ResetDone, ResetFails, IInv, TypeInv
<1>6. Handling /\ Handling'
  BY <1>1 DEF IInv, PhaseInv, Handling
<1>7. PhaseInv'
  BY <1>1, <1>6 DEF IInv, PhaseInv
<1>8. SeenInv'
  <2>. SUFFICES ASSUME NEW e \in Executions, pc[e] = "running", Mapped(e).sourceType = "git"
                PROVE  workingCopy'[Mapped(e).gitOptions] = seen[e]
    BY <1>1 DEF SeenInv, Mapped
  <2>1. Mapped(e).gitOptions \in Urls
    BY <1>6 DEF IInv, TypeInv, PhaseInv, ResolvedMappings, Mapped
  <2>2. Mapped(e).gitOptions # pulling
    BY <1>2 DEF Readers, Mapped
  <2>. QED BY <1>3, <2>1, <2>2 DEF IInv, SeenInv
<1>9. LockInv'
  <2>1. \A u \in repositories \ {pulling} : workingCopy'[u] = master'[u] \/ notReset'[u]
    BY <1>3 DEF IInv, TypeInv, LockInv
  <2>2. \/ workingCopy'[pulling] = master'[pulling] \/ notReset'[pulling]
        \/ pullPc' \in {"reset", "resetting"} \/ pulling \notin repositories
    BY <1>2 DEF Fetch, FetchFails, Reset, ResetDone, ResetFails, IInv, TypeInv, LockInv
  <2>. QED BY <1>1, <1>2, <2>1, <2>2 DEF LockInv
<1>. QED BY <1>5, <1>7, <1>8, <1>9 DEF IInv

-----------------------------------------------------------------------------
\* The steps of one execution leave the program, the copies and the pull alone.
LEMMA ExecuteSteps ==
  ASSUME IInv, NEW e \in Executions, Execute(e)
  PROVE  IInv'
<1>. USE DEF program, copies, puller, locals, script
<1>1. /\ UNCHANGED <<program, copies, puller>> /\ Handling /\ Handling'
      /\ \A i \in Executions \ {e} :
           /\ pc'[i] = pc[i] /\ action'[i] = action[i] /\ sharedEnv'[i] = sharedEnv[i]
           /\ scriptEnv'[i] = scriptEnv[i] /\ seen'[i] = seen[i]
  <2>1. UNCHANGED <<program, copies, puller>>
    BY DEF Execute, Handle, GetRepository, Return, AppendEnv, StartScript, ScriptEnds
  <2>2. Handling
    BY DEF IInv, PhaseInv, Execute, Handle, GetRepository, AppendEnv, StartScript, ScriptEnds
  <2>3. ASSUME NEW i \in Executions \ {e}
        PROVE  /\ pc'[i] = pc[i] /\ action'[i] = action[i] /\ sharedEnv'[i] = sharedEnv[i]
               /\ scriptEnv'[i] = scriptEnv[i] /\ seen'[i] = seen[i]
    BY DEF IInv, TypeInv, Execute, Handle, GetRepository, Return, AppendEnv, StartScript, ScriptEnds
  <2>. QED BY <2>1, <2>2, <2>3 DEF Handling
<1>2. /\ ValidMappings(mappings) /\ ResolvedMappings(mappings, repositories) /\ repositories \subseteq Urls
      /\ \A i \in Executions : pc[i] # "idle" => action[i] \in DOMAIN mappings
  BY <1>1 DEF IInv, TypeInv, PhaseInv
<1>3. /\ pc' \in [Executions -> {"idle", "get", "locked", "env", "running"}]
      /\ action' \in [Executions -> ActionNames \cup {None}]
      /\ scriptEnv' \in [Executions -> ActionNames \cup {None}] /\ tail' \in ActionNames \cup {None}
  BY DEF IInv, TypeInv, Execute, Handle, GetRepository, Return, AppendEnv, StartScript, ScriptEnds
<1>4. seen' \in [Executions -> Nat]
  BY <1>2 DEF IInv, TypeInv, ResolvedMappings, Mapped,
              Execute, Handle, GetRepository, Return, AppendEnv, StartScript, ScriptEnds
<1>5. sharedEnv' \in [Executions -> BOOLEAN]
  BY ExecutionsAssumption
     DEF IInv, TypeInv, Execute, Handle, GetRepository, Return, AppendEnv, StartScript, ScriptEnds
<1>6. TypeInv'
  BY <1>1, <1>3, <1>4, <1>5 DEF IInv, TypeInv
<1>7. pc'[e] # "idle" => action'[e] \in DOMAIN mappings
  BY <1>2 DEF IInv, TypeInv, Execute, Handle, Resolved, GetRepository, Return, AppendEnv, StartScript, ScriptEnds
<1>8. PhaseInv'
  BY <1>1, <1>2, <1>7 DEF IInv, PhaseInv
<1>9. LockInv'
  <2>1. ASSUME pullPc \in {"fetch", "reset", "resetting"}, e \in Readers(pulling)'
        PROVE  FALSE
    <3>1. pc[e] \in {"get", "locked", "env"} /\ action'[e] = action[e] /\ (pc[e] = "get" => CanRLock(e))
      BY <2>1 DEF IInv, TypeInv, Readers, Execute, Handle, GetRepository, Return, AppendEnv, StartScript, ScriptEnds
    <3>. QED BY <1>1, <2>1, <3>1 DEF IInv, LockInv, Readers, CanRLock, Mapped
  <2>2. \A i \in Executions \ {e} : i \in Readers(pulling)' => i \in Readers(pulling)
    BY <1>1 DEF Readers
  <2>3. pullPc \in {"fetch", "reset", "resetting"} => Readers(pulling)' = {}
    BY <2>1, <2>2 DEF IInv, LockInv, Readers
  <2>. QED BY <1>1, <2>3 DEF IInv, LockInv
<1>10. SeenInv'
  <2>1. pc'[e] = "running" /\ Mapped(e)'.sourceType = "git" => workingCopy[Mapped(e)'.gitOptions] = seen'[e]
    BY <1>1 DEF IInv, TypeInv, Mapped, Execute, Handle, GetRepository, Return, AppendEnv, StartScript, ScriptEnds
  <2>. QED BY <1>1, <2>1 DEF IInv, SeenInv, Mapped
<1>. QED BY <1>6, <1>8, <1>9, <1>10 DEF IInv

LEMMA NextInv == IInv /\ [Next]_vars => IInv'
BY StartSteps, StopSteps, PullWaitSteps, PullLockedSteps, ExecuteSteps DEF Next, Pull

(* The inductive invariant holds in every reachable state of main, the pull   *)
(* and the executions.                                                        *)
THEOREM ActionInvariant == Spec => []IInv
BY InvInit, NextInv, PTL DEF Spec

-----------------------------------------------------------------------------
(* Whatever configuration Read accepts, execute never fails for an unknown    *)
(* source or repository, and the file it runs is where the action says.       *)
THEOREM ActionsAcceptedRun == Spec => []AcceptedActionsRun
<1>1. IInv => AcceptedActionsRun
  BY DEF IInv, PhaseInv, Handling, ValidMappings, ResolvedMappings, AcceptedActionsRun, SourceFound, Mapped
<1>. QED BY <1>1, ActionInvariant, PTL

(* The RWMutex of a repository protects scripts from the pull: none ever runs *)
(* in a working copy that a reset is writing, and it is that of the branch    *)
(* unless a pull failed after its fetch.                                      *)
THEOREM ActionsOneCommit == Spec => []OneCommitPerScript
<1>1. ASSUME IInv PROVE OneCommitPerScript
  <2>. SUFFICES ASSUME NEW e \in Executions, pc[e] = "running", Mapped(e).sourceType = "git"
                PROVE  LET u == Mapped(e).gitOptions IN
                         workingCopy[u] = seen[e] /\ (seen[e] = master[u] \/ notReset[u])
    BY DEF OneCommitPerScript
  <2>1. workingCopy[Mapped(e).gitOptions] = seen[e]
    BY <1>1 DEF IInv, SeenInv
  <2>2. Mapped(e).gitOptions \in repositories
    BY <1>1 DEF IInv, PhaseInv, ResolvedMappings, Handling, Mapped
  <2>3. e \in Readers(Mapped(e).gitOptions)
    BY DEF Readers, Mapped
  <2>. QED BY <1>1, <2>1, <2>2, <2>3 DEF IInv, LockInv
<1>. QED BY <1>1, ActionInvariant, PTL

=============================================================================
