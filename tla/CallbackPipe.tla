----------------------------- MODULE CallbackPipe -----------------------------
(***************************************************************************)
(* The callback context of a script: Execute of src/runbook/executor.go    *)
(* and the named pipe of src/runbook/callback_context_handler_unix.go.     *)
(* For each execution there are three actors: Execute itself, the          *)
(* goroutine Read, which nobody awaits, and the script, which may open the *)
(* pipe that it is told of, write to it and close it, as often as it likes.*)
(*                                                                         *)
(* The path of the pipe is made of the id of the message, so two           *)
(* executions of one message share it, and an earlier process may have     *)
(* left a pipe there.  A message is named after one of its executions, a   *)
(* pipe after the execution that created it, and a left one is Left.       *)
(*                                                                         *)
(* Opening a pipe blocks until the other side is open or being opened; an  *)
(* actor whose "file" is a pipe counts for that from the moment it asks.   *)
(* Read sees the end of the file when the pipe is empty and has no writer. *)
(*                                                                         *)
(* Definitions marked "Mutant" are explained in WorkerPool.                *)
(***************************************************************************)
EXTENDS Naturals, Sequences

CONSTANTS
  Executions, None, Left,
  MaxOpens,             \* bound: times that a script opens the pipe
  MaxChunks,            \* bound: chunks that it writes
  BufferSize            \* chunks for which callbackContextBuffer has room

ASSUME PipeAssumption ==
  /\ MaxOpens \in Nat /\ MaxChunks \in Nat /\ BufferSize \in Nat \ {0}
  /\ Left # None /\ {Left, None} \cap Executions = {}
  /\ \A e \in Executions : <<Left, e>> \notin Executions \cup {None}

VARIABLES
  message,              \* of an execution
  creatable,            \* messages at whose path a pipe can be created
  path,                 \* the pipe at the path of a message, or None
  data,                 \* what a pipe holds
  pc, file,             \* Execute: "create", "run", "open", "blocked", "opened", "return", "returned"
  readerPc, readerFile, \* Read: "off", "start", "blocked", "opened", "reading", "copying", "closing", "done"
  scriptPc, scriptFile, \* "off", "running", "blocked", "opened", "ok", "failed"
  opens, written,       \* of a running script; chunks that it has written
  pipeOpenedByScript,
  received,             \* data of Read
  callbackContextBuffer,
  callbackContext       \* returned by Execute

execute == <<pc, file>>
reader  == <<readerPc, readerFile, received>>
script  == <<scriptPc, scriptFile, opens, written>>
handler == <<pipeOpenedByScript, callbackContextBuffer, callbackContext>>
vars    == <<message, creatable, path, data, execute, reader, script, handler>>

Pipes == Executions \cup {<<Left, e>> : e \in Executions}

\* The n-th chunk that a script writes, and "Execution Finished!".
Chunk(e, n) == [from |-> e, n |-> n]
DefaultMessage == [from |-> None, n |-> 0]

\* Mutant: one path for all executions.
PipePathShared(e) == CHOOSE f \in Executions : TRUE

PipePath(e) == message[e]

Init ==
  /\ \/ message = [e \in Executions |-> e]
     \/ message = [e \in Executions |-> CHOOSE f \in Executions : TRUE]
  /\ creatable \in SUBSET {message[e] : e \in Executions}
  /\ \E left \in SUBSET creatable :
       path = [m \in Executions |-> IF m \in left THEN <<Left, m>> ELSE None]
  /\ data = [p \in Pipes |-> <<>>]
  /\ pc = [e \in Executions |-> "create"] /\ file = [e \in Executions |-> None]
  /\ readerPc = [e \in Executions |-> "off"] /\ readerFile = [e \in Executions |-> None]
  /\ scriptPc = [e \in Executions |-> "off"] /\ scriptFile = [e \in Executions |-> None]
  /\ opens = [e \in Executions |-> 0] /\ written = [e \in Executions |-> 0]
  /\ pipeOpenedByScript = [e \in Executions |-> FALSE]
  /\ received = [e \in Executions |-> <<>>]
  /\ callbackContextBuffer = [e \in Executions |-> <<>>]
  /\ callbackContext = [e \in Executions |-> <<>>]

-----------------------------------------------------------------------------
(* Named pipes, by the operating system *)

Readers(p) == {e \in Executions : readerFile[e] = p}
NoWriter(p) == \A e \in Executions : file[e] # p /\ scriptFile[e] # p

\* The state after open, and that of those who were blocked on the other side.
Opened(others) == IF others THEN "opened" ELSE "blocked"
Woken(pcs, files, p) ==
  [e \in Executions |-> IF pcs[e] = "blocked" /\ files[e] = p THEN "opened" ELSE pcs[e]]

\* Of a write to a pipe that nobody reads only an error comes back.
Write(p, chunk) ==
  data' = IF Readers(p) # {} THEN [data EXCEPT ![p] = Append(@, chunk)] ELSE data

-----------------------------------------------------------------------------
(* Read *)

ReadOpen(e) ==
  LET p == path[PipePath(e)] IN
    /\ readerPc[e] = "start"
    /\ readerFile' = [readerFile EXCEPT ![e] = p]
    /\ IF p = None
       THEN readerPc' = [readerPc EXCEPT ![e] = "opened"] /\ UNCHANGED <<pc, scriptPc>>
       ELSE /\ readerPc' = [readerPc EXCEPT ![e] = Opened(~NoWriter(p))]
            /\ pc' = Woken(pc, file, p) /\ scriptPc' = Woken(scriptPc, scriptFile, p)
    /\ UNCHANGED <<message, creatable, path, data, file, received, scriptFile, opens, written, handler>>

ReadOpened(e) ==
  /\ readerPc[e] = "opened" /\ readerPc' = [readerPc EXCEPT ![e] = "reading"]
  /\ pipeOpenedByScript' = [pipeOpenedByScript EXCEPT ![e] = TRUE]
  /\ UNCHANGED <<message, creatable, path, data, execute, readerFile, received, script, callbackContextBuffer, callbackContext>>

\* ReadAll reads what is there ...
ReadData(e) ==
  LET p == readerFile[e] IN
    /\ readerPc[e] = "reading" /\ p # None /\ data[p] # <<>>
    /\ received' = [received EXCEPT ![e] = @ \o data[p]] /\ data' = [data EXCEPT ![p] = <<>>]
    /\ UNCHANGED <<message, creatable, path, execute, readerPc, readerFile, script, handler>>

\* ... until the end of the file.  Without a file it fails at once.
ReadEnd(e) ==
  LET p == readerFile[e] IN
    /\ readerPc[e] = "reading" /\ (p # None => data[p] = <<>> /\ NoWriter(p))
    /\ readerPc' = [readerPc EXCEPT ![e] = "copying"]
    /\ UNCHANGED <<message, creatable, path, data, execute, readerFile, received, script, handler>>

CopyLength(e) == IF Len(received[e]) < BufferSize THEN Len(received[e]) ELSE BufferSize

\* copy is not atomic: Execute may look at the buffer in between.
Copy(e) ==
  LET n == Len(callbackContextBuffer[e]) IN
    /\ readerPc[e] = "copying" /\ n < CopyLength(e)
    /\ callbackContextBuffer' = [callbackContextBuffer EXCEPT ![e] = Append(@, received[e][n + 1])]
    /\ UNCHANGED <<message, creatable, path, data, execute, reader, script, pipeOpenedByScript, callbackContext>>

\* os.Remove of whatever is at the path.
Remove(e) ==
  /\ readerPc[e] = "copying" /\ Len(callbackContextBuffer[e]) = CopyLength(e)
  /\ readerPc' = [readerPc EXCEPT ![e] = "closing"]
  /\ path' = [path EXCEPT ![PipePath(e)] = None]
  /\ received' = [received EXCEPT ![e] = <<>>]
  /\ UNCHANGED <<message, creatable, data, execute, readerFile, script, handler>>

ReadReturn(e) ==
  /\ readerPc[e] = "closing" /\ readerPc' = [readerPc EXCEPT ![e] = "done"]
  /\ readerFile' = [readerFile EXCEPT ![e] = None]
  /\ UNCHANGED <<message, creatable, path, data, execute, received, script, handler>>

-----------------------------------------------------------------------------
(* The script; one that cannot be started has "failed" at once *)

\* A path that is gone cannot be opened; a script that would create a regular
\* file there (O_CREAT) is left out.
ScriptOpen(e) ==
  LET p == path[PipePath(e)] IN
    /\ scriptPc[e] = "running" /\ opens[e] < MaxOpens
    /\ opens' = [opens EXCEPT ![e] = @ + 1] /\ scriptFile' = [scriptFile EXCEPT ![e] = p]
    /\ IF p = None
       THEN UNCHANGED <<scriptPc, readerPc>>
       ELSE /\ scriptPc' = [scriptPc EXCEPT ![e] = Opened(Readers(p) # {})]
            /\ readerPc' = Woken(readerPc, readerFile, p)
    /\ UNCHANGED <<message, creatable, path, data, execute, readerFile, received, written, handler>>

ScriptWrite(e) ==
  /\ scriptPc[e] = "opened" /\ written[e] < MaxChunks
  /\ written' = [written EXCEPT ![e] = @ + 1]
  /\ Write(scriptFile[e], Chunk(e, written'[e]))
  /\ UNCHANGED <<message, creatable, path, execute, reader, scriptPc, scriptFile, opens, handler>>

ScriptClose(e) ==
  /\ scriptPc[e] = "opened" /\ scriptPc' = [scriptPc EXCEPT ![e] = "running"]
  /\ scriptFile' = [scriptFile EXCEPT ![e] = None]
  /\ UNCHANGED <<message, creatable, path, data, execute, reader, opens, written, handler>>

ScriptExit(e) ==
  /\ scriptPc[e] \in {"running", "opened"}
  /\ \E status \in {"ok", "failed"} : scriptPc' = [scriptPc EXCEPT ![e] = status]
  /\ scriptFile' = [scriptFile EXCEPT ![e] = None] /\ opens' = [opens EXCEPT ![e] = 0]
  /\ UNCHANGED <<message, creatable, path, data, execute, reader, written, handler>>

-----------------------------------------------------------------------------
(* Execute *)

\* CreatePipe; Mkfifo fails if something is there, or if it cannot be created.
CreatePipe(e) ==
  LET m == PipePath(e) IN
    /\ pc[e] = "create" /\ pc' = [pc EXCEPT ![e] = "run"]
    /\ path' = [path EXCEPT ![m] = IF @ = None /\ m \in creatable THEN e ELSE @]
    /\ readerPc' = [readerPc EXCEPT ![e] = "start"] /\ scriptPc' = [scriptPc EXCEPT ![e] = "running"]
    /\ UNCHANGED <<message, creatable, data, file, readerFile, received, scriptFile, opens, written, handler>>

\* Mutant: no message for a reader that waits.
ClosePipeSilently(e) ==
  /\ pc[e] = "run" /\ scriptPc[e] \in {"ok", "failed"}
  /\ pc' = [pc EXCEPT ![e] = "return"]
  /\ UNCHANGED <<message, creatable, path, data, file, reader, script, handler>>

\* cmd.Run returns; ClosePipe looks at the flag ...
ClosePipe(e) ==
  /\ pc[e] = "run" /\ scriptPc[e] \in {"ok", "failed"}
  /\ pc' = [pc EXCEPT ![e] = IF pipeOpenedByScript[e] THEN "return" ELSE "open"]
  /\ UNCHANGED <<message, creatable, path, data, file, reader, script, handler>>

\* ... opens the pipe, if it is still there ...
ClosePipeOpen(e) ==
  LET p == path[PipePath(e)] IN
    /\ pc[e] = "open" /\ file' = [file EXCEPT ![e] = p]
    /\ IF p = None
       THEN pc' = [pc EXCEPT ![e] = "return"] /\ UNCHANGED readerPc
       ELSE /\ pc' = [pc EXCEPT ![e] = Opened(Readers(p) # {})]
            /\ readerPc' = Woken(readerPc, readerFile, p)
    /\ UNCHANGED <<message, creatable, path, data, readerFile, received, script, handler>>

\* ... writes the default message and closes it.
ClosePipeWrite(e) ==
  /\ pc[e] = "opened" /\ pc' = [pc EXCEPT ![e] = "return"]
  /\ Write(file[e], DefaultMessage) /\ file' = [file EXCEPT ![e] = None]
  /\ UNCHANGED <<message, creatable, path, reader, script, handler>>

ExecuteReturn(e) ==
  /\ pc[e] = "return" /\ pc' = [pc EXCEPT ![e] = "returned"]
  /\ callbackContext' = [callbackContext EXCEPT ![e] =
       IF scriptPc[e] = "ok" THEN callbackContextBuffer[e] ELSE <<>>]
  /\ UNCHANGED <<message, creatable, path, data, file, reader, script, pipeOpenedByScript, callbackContextBuffer>>

-----------------------------------------------------------------------------
Read(e) ==
  ReadOpen(e) \/ ReadOpened(e) \/ ReadData(e) \/ ReadEnd(e) \/ Copy(e) \/ Remove(e) \/ ReadReturn(e)

Script(e) == ScriptOpen(e) \/ ScriptWrite(e) \/ ScriptClose(e) \/ ScriptExit(e)

Execute(e) ==
  CreatePipe(e) \/ ClosePipe(e) \/ ClosePipeOpen(e) \/ ClosePipeWrite(e) \/ ExecuteReturn(e)

Next == \E e \in Executions : Read(e) \/ Script(e) \/ Execute(e)

Spec == Init /\ [][Next]_vars

-----------------------------------------------------------------------------
(* Properties *)

Unique(e) == \A f \in Executions : message[f] = message[e] => f = e

(* Execute does not wait for Read, so the context may be empty or cut short;  *)
(* but what it returns for a message that is executed once is the beginning   *)
(* of what the script wrote, with the default message behind it at most when  *)
(* it is complete, and for a message executed twice it comes from the scripts *)
(* of that message.                                                           *)
ContextGenuine == \A e \in Executions :
  LET context  == callbackContext[e]
      complete == Append([n \in 1 .. written[e] |-> Chunk(e, n)], DefaultMessage)
  IN /\ Unique(e) => \E n \in 0 .. Len(complete) : context = SubSeq(complete, 1, n)
     /\ \A i \in 1 .. Len(context) : context[i] = DefaultMessage \/ message[context[i].from] = message[e]

\* At most two executions of the message of e.
Few(e) == \A f, g, h \in Executions :
  message[f] = message[e] /\ message[g] = message[e] /\ message[h] = message[e] => f = g \/ g = h \/ f = h

(* Some actor of the execution can take a step: the guards of its actions, a  *)
(* script being able to exit whenever it is not blocked.                      *)
Ready(e) ==
  \/ readerPc[e] \in {"start", "opened", "closing"}
  \/ readerPc[e] = "copying" /\ Len(callbackContextBuffer[e]) <= CopyLength(e)
  \/ /\ readerPc[e] = "reading"
     /\ readerFile[e] # None => data[readerFile[e]] # <<>> \/ NoWriter(readerFile[e])
  \/ scriptPc[e] \in {"running", "opened"}
  \/ pc[e] \in {"create", "open", "opened", "return"}
  \/ pc[e] = "run" /\ scriptPc[e] \in {"ok", "failed"}

(* No behaviour has more than a bounded number of steps, so where no actor of *)
(* a message can go on is where goroutines and scripts that run while they    *)
(* can end up.  Then every Execute has returned, although the open of a pipe  *)
(* may block it or its script, and Read has ended too ("write default         *)
(* message, so that can terminate") unless another execution of the same      *)
(* message used the pipe: then a reader may be left that is blocked for ever. *)
(* With a third one even a script may, and with it a worker: a late reader    *)
(* removes the path of a pipe that it never opened, on which the script waits.*)
NobodyLeftBlocked == \A e \in Executions :
  Few(e) /\ (\A f \in Executions : message[f] = message[e] => ~Ready(f)) =>
    pc[e] = "returned" /\ readerPc[e] \in IF Unique(e) THEN {"done"} ELSE {"done", "blocked"}
=============================================================================
