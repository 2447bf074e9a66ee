---------------------------- MODULE ActionExecution ----------------------------
(***************************************************************************)
(* From the configuration to running scripts: main reads it (Configuration)*)
(* and the processor clones its git repositories; then workers handle      *)
(* messages (Handle and execute of src/queue/message.go, the start of the  *)
(* script in src/runbook/executor.go) while a goroutine pulls the          *)
(* repositories (src/git); at the end they are removed.                    *)
(*                                                                         *)
(* The lock of a repository, a sync.RWMutex, is not a variable: executions *)
(* in "locked", "env" and "running" are its readers, pullPc is its writer, *)
(* which keeps new readers out while it waits.  RemoveAll takes it when    *)
(* nobody else is left (OrderlyStop of Processor).                         *)
(*                                                                         *)
(* GlobalEnv is a slice that a decoder has grown, so its array may have    *)
(* room after the last element.  append then writes into that array, which *)
(* all executions share, and the script gets a copy when it is started.    *)
(* Every action has one variable of its own, named like the action.        *)
(*                                                                         *)
(* Definitions marked "Mutant" are explained in WorkerPool.                *)
(***************************************************************************)
EXTENDS Configuration

CONSTANTS
  Executions,           \* workers that handle messages at the same time
  MaxCommits,           \* bound: commits on the master branch of a repository
  Spare,                \* the decoder left room for one more element behind GlobalEnv
  None

ASSUME ExecutionsAssumption ==
  /\ MaxCommits \in Nat \ {0} /\ Spare \in BOOLEAN
  /\ None \notin Urls \cup ActionNames

VARIABLES
  mainPc,               \* "read", "download", "running", "stopping", "remove", "exited"
  mappings,             \* ActionMappings, shared by all executions
  tail,                 \* what the element behind GlobalEnv holds
  toDownload, repositories,   \* urls left to clone; keys of the map of repositories
  remote,               \* number of the last commit on the remote master
  master,               \* the commit that the local refs/heads/master names
  workingCopy,          \* a commit, Torn, or 0 (no directory)
  notReset,             \* history: the last fetch moved the branch, and no reset followed
  pullPc,               \* "off", "select", "next", "waiting", "fetch", "reset", "resetting", "done"
  pulling, toPull,      \* PullAll: the repository at hand, those after it
  pc,                   \* of an execution: "idle", "get", "locked", "env", "running"
  action,               \* the name of its action
  sharedEnv,            \* its env slice is the shared array
  scriptEnv, seen       \* history: variables and working copy its script began with

program == <<mainPc, mappings>>
copies  == <<toDownload, repositories, remote, master, workingCopy, notReset>>
puller  == <<pullPc, pulling, toPull>>
locals  == <<pc, action, sharedEnv>>
script  == <<scriptEnv, seen>>
vars    == <<program, tail, copies, puller, locals, script>>

\* A working copy that is partly of one commit and partly of another.
Torn == MaxCommits + 1

Init ==
  /\ mainPc = "read" /\ mappings = <<>> /\ tail = None
  /\ toDownload = {} /\ repositories = {}
  /\ remote = [u \in Urls |-> 1] /\ master = [u \in Urls |-> 0]
  /\ workingCopy = [u \in Urls |-> 0] /\ notReset = [u \in Urls |-> FALSE]
  /\ pullPc = "off" /\ pulling = None /\ toPull = {}
  /\ pc = [e \in Executions |-> "idle"] /\ action = [e \in Executions |-> None]
  /\ sharedEnv = [e \in Executions |-> FALSE]
  /\ scriptEnv = [e \in Executions |-> None] /\ seen = [e \in Executions |-> 0]

-----------------------------------------------------------------------------
(* main and Start of the processor *)

ReadConfiguration ==
  /\ mainPc = "read"
  /\ \E o \in Origins, actions \in ActionFiles :
       /\ Accepted(o, actions)
       /\ mappings' = Mappings(actions) /\ toDownload' = GitActions(mappings')
  /\ mainPc' = "download"
  /\ UNCHANGED <<tail, repositories, remote, master, workingCopy, notReset, puller, locals, script>>

\* Read or Download returns an error, and main ends the process.
Fatal ==
  /\ \/ mainPc = "read" /\ ~\A o \in Origins, actions \in ActionFiles : Accepted(o, actions)
     \/ mainPc = "download" /\ toDownload # {}
  /\ mainPc' = "exited"
  /\ UNCHANGED <<mappings, tail, copies, puller, locals, script>>

\* Download: CloneMaster into a directory of its own; without a url it fails.
Download(u) ==
  /\ mainPc = "download" /\ u \in toDownload
  /\ toDownload' = toDownload \ {u} /\ repositories' = repositories \cup {u}
  /\ master' = [master EXCEPT ![u] = remote[u]]
  /\ workingCopy' = [workingCopy EXCEPT ![u] = remote[u]]
  /\ UNCHANGED <<program, tail, remote, notReset, puller, locals, script>>

\* The rest of Start: the goroutine that pulls, and the paths of git actions.
Start ==
  /\ mainPc = "download" /\ toDownload = {}
  /\ mainPc' = "running"
  /\ mappings' = AddRepositoryPath(mappings, repositories)
  /\ pullPc' = IF repositories # {} THEN "select" ELSE "off"
  /\ UNCHANGED <<tail, copies, pulling, toPull, locals, script>>

Stop ==
  /\ mainPc = "running" /\ mainPc' = "stopping"
  /\ UNCHANGED <<mappings, tail, copies, puller, locals, script>>

\* Pollers, the goroutine that pulls and the workers have ended: RemoveAll.
Stopped ==
  /\ mainPc = "stopping"
  /\ pullPc \in {"off", "done"} /\ \A e \in Executions : pc[e] = "idle"
  /\ mainPc' = "remove"
  /\ UNCHANGED <<mappings, tail, copies, puller, locals, script>>

\* Remove of one repository; an error is only logged.
Remove(u) ==
  /\ mainPc = "remove" /\ u \in repositories
  /\ repositories' = repositories \ {u}
  /\ workingCopy' \in {workingCopy, [workingCopy EXCEPT ![u] = 0]}
  /\ UNCHANGED <<program, tail, toDownload, remote, master, notReset, puller, locals, script>>

Exit ==
  /\ mainPc = "remove" /\ repositories = {} /\ mainPc' = "exited"
  /\ UNCHANGED <<mappings, tail, copies, puller, locals, script>>

-----------------------------------------------------------------------------
(* startPullingRepositories, PullAll, Pull and FetchAndReset *)

\* Somebody commits to the master branch of a remote repository.
Commit(u) ==
  /\ remote[u] < MaxCommits /\ mainPc # "exited"
  /\ remote' = [remote EXCEPT ![u] = @ + 1]
  /\ UNCHANGED <<program, tail, toDownload, repositories, master, workingCopy, notReset, puller, locals, script>>

PullTick ==
  /\ pullPc = "select"
  /\ pullPc' = "next" /\ toPull' = repositories
  /\ UNCHANGED <<program, tail, copies, pulling, locals, script>>

PullQuit ==
  /\ pullPc = "select" /\ mainPc = "stopping" /\ pullPc' = "done"
  /\ UNCHANGED <<program, tail, copies, pulling, toPull, locals, script>>

\* Pull(u) asks for the lock ...
PullLock(u) ==
  /\ pullPc = "next" /\ u \in toPull
  /\ pullPc' = "waiting" /\ pulling' = u /\ toPull' = toPull \ {u}
  /\ UNCHANGED <<program, tail, copies, locals, script>>

PullAllReturn ==
  /\ pullPc = "next" /\ toPull = {} /\ pullPc' = "select" /\ pulling' = None
  /\ UNCHANGED <<program, tail, copies, toPull, locals, script>>

Readers(u) == {e \in Executions :
  /\ pc[e] \in {"locked", "env", "running"}
  /\ mappings[action[e]].sourceType = "git" /\ mappings[action[e]].gitOptions = u}

\* Mutant: Pull does not wait for scripts.
NoReadersUnlocked(u) == TRUE

NoReaders(u) == Readers(u) = {}

\* ... and gets it.
PullLocked ==
  /\ pullPc = "waiting" /\ NoReaders(pulling)
  /\ pullPc' = "fetch"
  /\ UNCHANGED <<program, tail, copies, pulling, toPull, locals, script>>

\* Fetch has brought a commit to the branch of the clone, or a tag only.
Fetch ==
  /\ pullPc = "fetch"
  /\ master' = [master EXCEPT ![pulling] = remote[pulling]]
  /\ pullPc' = "reset"
  /\ UNCHANGED <<program, tail, toDownload, repositories, remote, workingCopy, notReset, pulling, toPull, locals, script>>

\* Fetch reports an error, or that there is nothing new: Pull returns.  The
\* branch may have moved before the error.
FetchFails ==
  /\ pullPc = "fetch" /\ pullPc' = "next"
  /\ \/ UNCHANGED <<master, notReset>>
     \/ /\ master[pulling] # remote[pulling]
        /\ master' = [master EXCEPT ![pulling] = remote[pulling]]
        /\ notReset' = [notReset EXCEPT ![pulling] = TRUE]
  /\ UNCHANGED <<program, tail, toDownload, repositories, remote, workingCopy, pulling, toPull, locals, script>>

\* The hard reset begins to write files ...
Reset ==
  /\ pullPc = "reset" /\ pullPc' = "resetting"
  /\ workingCopy' = [workingCopy EXCEPT ![pulling] = Torn]
  /\ UNCHANGED <<program, tail, toDownload, repositories, remote, master, notReset, pulling, toPull, locals, script>>

\* ... and has written them all.
ResetDone ==
  /\ pullPc = "resetting" /\ pullPc' = "next"
  /\ workingCopy' = [workingCopy EXCEPT ![pulling] = master[pulling]]
  /\ notReset' = [notReset EXCEPT ![pulling] = FALSE]
  /\ UNCHANGED <<program, tail, toDownload, repositories, remote, master, pulling, toPull, locals, script>>

\* Reference, Worktree or Reset returns an error after the fetch.
ResetFails ==
  /\ pullPc \in {"reset", "resetting"} /\ pullPc' = "next"
  /\ notReset' = [notReset EXCEPT ![pulling] = TRUE]
  /\ UNCHANGED <<program, tail, toDownload, repositories, remote, master, workingCopy, pulling, toPull, locals, script>>

-----------------------------------------------------------------------------
(* Handle, by a worker *)

\* The pool is open, or draining.
Handling == mainPc \in {"running", "stopping"}

\* resolveMappedAction
Resolved(a, type) == a \in DOMAIN mappings /\ mappings[a].type = type

\* Handle of a message that names a mapped action of its type; otherwise it
\* returns with a failure and has changed nothing.
Handle(e, a, type) ==
  /\ Handling /\ pc[e] = "idle" /\ Resolved(a, type)
  /\ pc' = [pc EXCEPT ![e] = "get"] /\ action' = [action EXCEPT ![e] = a]
  /\ UNCHANGED <<program, tail, copies, puller, sharedEnv, script>>

Mapped(e) == mappings[action[e]]

\* execute returns, and the lock is released.
Return(e) ==
  /\ pc' = [pc EXCEPT ![e] = "idle"] /\ action' = [action EXCEPT ![e] = None]
  /\ sharedEnv' = [sharedEnv EXCEPT ![e] = FALSE]
  /\ scriptEnv' = [scriptEnv EXCEPT ![e] = None] /\ seen' = [seen EXCEPT ![e] = 0]
  /\ UNCHANGED <<program, tail, copies, puller>>

\* The source type is known, and the map has the repository of a git action.
SourceFound(e) ==
  \/ Mapped(e).sourceType = "local"
  \/ Mapped(e).sourceType = "git" /\ Mapped(e).gitOptions \in repositories

\* RLock, for a git action; a local one falls through.
CanRLock(e) ==
  Mapped(e).sourceType = "git" =>
    ~(pulling = Mapped(e).gitOptions /\ pullPc \in {"waiting", "fetch", "reset", "resetting"})

GetRepository(e) ==
  /\ pc[e] = "get"
  /\ IF SourceFound(e)
     THEN /\ CanRLock(e) /\ pc' = [pc EXCEPT ![e] = "locked"]
          /\ UNCHANGED <<program, tail, copies, puller, action, sharedEnv, script>>
     ELSE Return(e)

\* env := append(GlobalEnv, mappedAction.Env...)
AppendEnv(e) ==
  /\ pc[e] = "locked" /\ pc' = [pc EXCEPT ![e] = "env"]
  /\ sharedEnv' = [sharedEnv EXCEPT ![e] = Spare]
  /\ tail' = IF Spare THEN action[e] ELSE tail
  /\ UNCHANGED <<program, copies, puller, action, script>>

\* cmd.Env = append(os.Environ(), env...), and the script is started.
StartScript(e) ==
  /\ pc[e] = "env" /\ pc' = [pc EXCEPT ![e] = "running"]
  /\ scriptEnv' = [scriptEnv EXCEPT ![e] = IF sharedEnv[e] THEN tail ELSE action[e]]
  /\ seen' = [seen EXCEPT ![e] =
                IF Mapped(e).sourceType = "git" THEN workingCopy[Mapped(e).gitOptions] ELSE 0]
  /\ UNCHANGED <<program, tail, copies, puller, action, sharedEnv>>

ScriptEnds(e) == pc[e] = "running" /\ Return(e)

-----------------------------------------------------------------------------
Pull ==
  \/ PullTick \/ PullQuit \/ PullAllReturn \/ PullLocked
  \/ Fetch \/ FetchFails \/ Reset \/ ResetDone \/ ResetFails
  \/ \E u \in Urls : PullLock(u)

Execute(e) ==
  \/ GetRepository(e) \/ AppendEnv(e) \/ StartScript(e) \/ ScriptEnds(e)
  \/ \E a \in ActionNames, type \in {"custom", "http", "other"} : Handle(e, a, type)

\* The process has ended.
Ended == mainPc = "exited" /\ UNCHANGED vars

Next ==
  \/ ReadConfiguration \/ Fatal \/ Start \/ Stop \/ Stopped \/ Exit \/ Pull \/ Ended
  \/ \E u \in Urls : Download(u) \/ Remove(u) \/ Commit(u)
  \/ \E e \in Executions : Execute(e)

Spec == Init /\ [][Next]_vars

-----------------------------------------------------------------------------
(* Properties *)

(* Once Read has accepted a configuration and Start has gone through, every   *)
(* action it maps can be executed at any time until the workers have ended:   *)
(* the errors that execute has for an unknown source or repository never      *)
(* happen, and the file it runs is in the repository that the action names,   *)
(* or in the local file system.                                               *)
AcceptedActionsRun == \A e \in Executions :
  pc[e] # "idle" =>
    /\ SourceFound(e)
    /\ Mapped(e).dir = IF Mapped(e).sourceType = "git" THEN Mapped(e).gitOptions ELSE "local"

(* The working copy does not change under a running script, and a script      *)
(* finds one commit in it, the one that the last fetch brought, unless that   *)
(* pull failed between its fetch and the end of its reset: then the copy      *)
(* stays as it is until a fetch brings something new.                         *)
OneCommitPerScript == \A e \in Executions :
  pc[e] = "running" /\ Mapped(e).sourceType = "git" =>
    LET u == Mapped(e).gitOptions IN
      /\ workingCopy[u] = seen[e]
      /\ seen[e] = master[u] \/ notReset[u]

(* "These can be set globally for all scripts or locally on a per script      *)
(* basis" (src/README.md:23, of environment variables): a script runs with    *)
(* the variables of its own action.  It does not hold: with room behind       *)
(* GlobalEnv, an execution that appends between append and start of another   *)
(* one gives the other script its own variables (src/queue/message.go:141).   *)
OwnEnvironment == \A e \in Executions :
  pc[e] = "running" => scriptEnv[e] = action[e]
=============================================================================
