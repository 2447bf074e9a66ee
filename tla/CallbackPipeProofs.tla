-------------------------- MODULE CallbackPipeProofs --------------------------
(***************************************************************************)
(* ContextGenuine and NobodyLeftBlocked for any executions, scripts and    *)
(* sizes of the buffer.                                                    *)
(*                                                                         *)
(* A pipe belongs to a message, so data never crosses from one message to  *)
(* another.  A message that is executed once has one pipe, whose one       *)
(* reader and two writers are of the same execution: what Read has got and *)
(* what is still in the pipe are then, in order, everything that the       *)
(* script has written, because nobody can write before Read has opened the *)
(* pipe.                                                                   *)
(*                                                                         *)
(* Whether somebody stays blocked depends on what is at the path: a writer *)
(* waits on a pipe that is still there, and it is still there because a    *)
(* Read that removes it has opened it before.  That is so with at most two *)
(* executions of a message.  A variant shows that the actors do come to    *)
(* where none of them can go on.                                           *)
(***************************************************************************)
EXTENDS CallbackPipe, SequenceTheorems, TLAPS

\* What can be in a pipe.
Values == [from : Executions \cup {None}, n : Nat]

TypeInv ==
  /\ message \in [Executions -> Executions] /\ path \in [Executions -> Pipes \cup {None}]
  /\ data \in [Pipes -> Seq(Values)]
  /\ pc \in [Executions -> {"create", "run", "open", "blocked", "opened", "return", "returned"}]
  /\ readerPc \in [Executions -> {"off", "start", "blocked", "opened", "reading", "copying", "closing", "done"}]
  /\ scriptPc \in [Executions -> {"off", "running", "blocked", "opened", "ok", "failed"}]
  /\ file \in [Executions -> Pipes \cup {None}] /\ readerFile \in [Executions -> Pipes \cup {None}]
  /\ scriptFile \in [Executions -> Pipes \cup {None}]
  /\ opens \in [Executions -> Nat] /\ written \in [Executions -> Nat]
  /\ received \in [Executions -> Seq(Values)] /\ callbackContextBuffer \in [Executions -> Seq(Values)]
  /\ callbackContext \in [Executions -> Seq(Values)] /\ pipeOpenedByScript \in [Executions -> BOOLEAN]

\* The pipes at the path of message m: one that was left, and those its executions create.
PipeOf(p, m) == p = <<Left, m>> \/ (p \in Executions /\ message[p] = m)

\* An actor has opened nothing, or a pipe of its message.
OwnFile(p, m) == p = None \/ PipeOf(p, m)

FileInv ==
  /\ \A m \in Executions : OwnFile(path[m], m)
  /\ \A e \in Executions : \A p \in {file[e], readerFile[e], scriptFile[e]} : OwnFile(p, message[e])

\* All of s was written by scripts of message m, or is the default message.
OfMessage(s, m) == \A i \in 1 .. Len(s) : s[i] = DefaultMessage \/ message[s[i].from] = m

MessageInv ==
  /\ \A m \in Executions, p \in Pipes : PipeOf(p, m) => OfMessage(data[p], m)
  /\ \A e \in Executions :
       \A s \in {received[e], callbackContextBuffer[e], callbackContext[e]} : OfMessage(s, message[e])

(* What the actors of one execution have done tells where the others are: the *)
(* script ends before the pipe is closed, and whoever has opened the pipe for *)
(* writing has met its reader.                                                *)
ControlInv(e) ==
  /\ pc[e] = "create" => readerPc[e] = "off" /\ scriptPc[e] = "off" /\ file[e] = None
  /\ pc[e] \in {"open", "blocked", "opened", "return", "returned"} => scriptPc[e] \in {"ok", "failed"}
  /\ pc[e] \in {"blocked", "opened"} => file[e] # None
  /\ scriptFile[e] # None <=> scriptPc[e] \in {"blocked", "opened"}
  /\ readerPc[e] \in {"off", "start", "done"} => readerFile[e] = None
  /\ readerPc[e] = "blocked" => readerFile[e] # None

\* One pipe for all actors of the execution.
OnePipe(e) ==
  \A p, q \in {path[message[e]], file[e], readerFile[e], scriptFile[e]} : p = None \/ q = None \/ p = q

Waiting(e) == readerPc[e] \in {"off", "start", "blocked"}

MetReader(e) == scriptPc[e] = "opened" \/ written[e] > 0 \/ pc[e] = "opened" => ~Waiting(e)

(* s is a beginning of the first w chunks of the script, and of the default   *)
(* message after them once the pipe has been closed.                          *)
Beginning(e, s, w, closed) ==
  /\ Len(s) <= w + 1 /\ (Len(s) = w + 1 => closed)
  /\ \A i \in 1 .. Len(s) : s[i] = IF i <= w THEN Chunk(e, i) ELSE DefaultMessage

Closed(e) == pc[e] \in {"return", "returned"}

Genuine(e, s) == Beginning(e, s, written[e], Closed(e))

\* From the script through the pipe, Read and the buffer to Execute.
StreamInv(e) ==
  /\ Waiting(e) => received[e] = <<>> /\ callbackContextBuffer[e] = <<>>
                   /\ \A p \in Pipes : PipeOf(p, message[e]) => data[p] = <<>>
  /\ readerPc[e] \in {"opened", "reading"} =>
       /\ callbackContextBuffer[e] = <<>>
       /\ IF readerFile[e] = None THEN received[e] = <<>>
          ELSE LET s == received[e] \o data[readerFile[e]] IN Genuine(e, s) /\ written[e] <= Len(s)
  /\ readerPc[e] = "copying" =>
       /\ Genuine(e, received[e]) /\ Len(callbackContextBuffer[e]) <= Len(received[e])
       /\ \A i \in 1 .. Len(callbackContextBuffer[e]) : callbackContextBuffer[e][i] = received[e][i]
  /\ Genuine(e, callbackContextBuffer[e]) /\ Genuine(e, callbackContext[e])

UniqueOne(e) == OnePipe(e) /\ MetReader(e) /\ StreamInv(e)

UniqueInv == \A e \in Executions : Unique(e) => UniqueOne(e)

IInv == TypeInv /\ FileInv /\ MessageInv /\ (\A e \in Executions : ControlInv(e)) /\ UniqueInv

-----------------------------------------------------------------------------
(* Pipes *)

\* A pipe belongs to one message.
LEMMA PipeOfOne ==
  ASSUME NEW m \in Executions, NEW k \in Executions, NEW p, PipeOf(p, m), PipeOf(p, k)
  PROVE  m = k
BY PipeAssumption DEF PipeOf

LEMMA NoneIsNoPipe == None \notin Pipes
BY PipeAssumption DEF Pipes

LEMMA DefaultIsValue == DefaultMessage \in Values
BY DEF DefaultMessage, Values

LEMMA ChunkIsValue ==
  ASSUME NEW e \in Executions, NEW n \in Nat
  PROVE  Chunk(e, n) \in Values /\ Chunk(e, n).from = e
BY DEF Chunk, Values

\* A write appends to the pipe or is lost.
LEMMA WriteType ==
  ASSUME TypeInv, NEW p \in Pipes, NEW c \in Values, Write(p, c)
  PROVE  /\ data' \in [Pipes -> Seq(Values)] /\ \A q \in Pipes \ {p} : data'[q] = data[q]
         /\ data'[p] = IF Readers(p) # {} THEN Append(data[p], c) ELSE data[p]
<1>1. Append(data[p], c) \in Seq(Values)
  BY AppendProperties DEF TypeInv
<1>2. data' = [data EXCEPT ![p] = Append(data[p], c)] \/ data' = data
  BY DEF Write
<1>. QED BY <1>1, <1>2 DEF Write, TypeInv

\* The types, after a step of Read.
LEMMA TypeRead ==
  ASSUME TypeInv, NEW e \in Executions, Read(e)
  PROVE  TypeInv'
<1>. USE DEF TypeInv, execute, reader, script, handler
<1>1. CASE ReadOpen(e)
  <2>1. path[PipePath(e)] \in Pipes \cup {None}
    BY DEF PipePath
  <2>2. /\ pc' \in [Executions -> {"create", "run", "open", "blocked", "opened", "return", "returned"}]
        /\ scriptPc' \in [Executions -> {"off", "running", "blocked", "opened", "ok", "failed"}]
    <3>1. \/ pc' = pc /\ scriptPc' = scriptPc
          \/ pc' = Woken(pc, file, path[PipePath(e)]) /\ scriptPc' = Woken(scriptPc, scriptFile, path[PipePath(e)])
      BY <1>1 DEF ReadOpen
    <3>. QED BY <3>1 DEF Woken
  <2>. QED BY <1>1, <2>1, <2>2 DEF ReadOpen, Opened
<1>2. CASE ReadOpened(e) \/ ReadEnd(e)
  BY <1>2 DEF ReadOpened, ReadEnd
<1>3. CASE ReadData(e)
  <2>1. received[e] \o data[readerFile[e]] \in Seq(Values) /\ <<>> \in Seq(Values)
    BY <1>3, ConcatProperties, EmptySeq DEF ReadData
  <2>. QED BY <1>3, <2>1 DEF ReadData
<1>4. CASE Copy(e)
  <2>. DEFINE n == Len(callbackContextBuffer[e])
  <2>1. n \in Nat /\ Len(received[e]) \in Nat /\ n < Len(received[e])
    BY <1>4, LenProperties, PipeAssumption DEF Copy, CopyLength
  <2>2. received[e][n + 1] \in Values
    BY <2>1, ElementOfSeq
  <2>3. Append(callbackContextBuffer[e], received[e][n + 1]) \in Seq(Values)
    BY <2>2, AppendProperties
  <2>. QED BY <1>4, <2>3 DEF Copy
<1>5. CASE Remove(e)
  <2>1. <<>> \in Seq(Values)
    BY EmptySeq
  <2>. QED BY <1>5, <2>1 DEF Remove, PipePath
<1>6. CASE ReadReturn(e)
  BY <1>6 DEF ReadReturn
<1>. QED BY <1>1, <1>2, <1>3, <1>4, <1>5, <1>6 DEF Read

\* The types, after a step of the script.
LEMMA TypeScript ==
  ASSUME TypeInv, FileInv, NEW e \in Executions, ControlInv(e), Script(e)
  PROVE  TypeInv'
<1>. USE DEF TypeInv, execute, reader, script, handler
<1>1. CASE ScriptOpen(e)
  <2>1. path[PipePath(e)] \in Pipes \cup {None}
    BY DEF PipePath
  <2>2. readerPc' \in [Executions -> {"off", "start", "blocked", "opened", "reading", "copying", "closing", "done"}]
    <3>1. readerPc' = readerPc \/ readerPc' = Woken(readerPc, readerFile, path[PipePath(e)])
      BY <1>1 DEF ScriptOpen
    <3>. QED BY <3>1 DEF Woken
  <2>3. scriptPc' \in [Executions -> {"off", "running", "blocked", "opened", "ok", "failed"}]
    BY <1>1 DEF ScriptOpen, Opened
  <2>4. opens' \in [Executions -> Nat] /\ scriptFile' \in [Executions -> Pipes \cup {None}]
    BY <1>1, <2>1 DEF ScriptOpen
  <2>. QED BY <1>1, <2>2, <2>3, <2>4 DEF ScriptOpen
<1>2. CASE ScriptWrite(e)
  <2>1. scriptFile[e] \in Pipes
    BY <1>2 DEF ScriptWrite, ControlInv
  <2>2. written'[e] = written[e] + 1 /\ written' \in [Executions -> Nat]
    BY <1>2 DEF ScriptWrite
  <2>3. data' \in [Pipes -> Seq(Values)]
    BY <1>2, <2>1, <2>2, ChunkIsValue, WriteType DEF ScriptWrite
  <2>. QED BY <1>2, <2>2, <2>3 DEF ScriptWrite
<1>3. CASE ScriptClose(e)
  BY <1>3 DEF ScriptClose
<1>4. CASE ScriptExit(e)
  BY <1>4 DEF ScriptExit
<1>. QED BY <1>1, <1>2, <1>3, <1>4 DEF Script

\* The types, after a step of Execute.
LEMMA TypeExecute ==
  ASSUME TypeInv, FileInv, NEW e \in Executions, ControlInv(e), Execute(e)
  PROVE  TypeInv'
<1>. USE DEF TypeInv, execute, reader, script, handler
<1>1. CASE CreatePipe(e)
  <2>1. path' \in [Executions -> Pipes \cup {None}]
    BY <1>1 DEF CreatePipe, PipePath, Pipes
  <2>. QED BY <1>1, <2>1 DEF CreatePipe
<1>2. CASE ClosePipe(e)
  BY <1>2 DEF ClosePipe
<1>3. CASE ClosePipeOpen(e)
  <2>1. path[PipePath(e)] \in Pipes \cup {None}
    BY DEF PipePath
  <2>2. readerPc' \in [Executions -> {"off", "start", "blocked", "opened", "reading", "copying", "closing", "done"}]
    <3>1. readerPc' = readerPc \/ readerPc' = Woken(readerPc, readerFile, path[PipePath(e)])
      BY <1>3 DEF ClosePipeOpen
    <3>. QED BY <3>1 DEF Woken
  <2>. QED BY <1>3, <2>1, <2>2 DEF ClosePipeOpen, Opened
<1>4. CASE ClosePipeWrite(e)
  <2>1. file[e] \in Pipes
    BY <1>4 DEF ClosePipeWrite, ControlInv
  <2>2. data' \in [Pipes -> Seq(Values)]
    BY <1>4, <2>1, DefaultIsValue, WriteType DEF ClosePipeWrite
  <2>. QED BY <1>4, <2>2 DEF ClosePipeWrite
<1>5. CASE ExecuteReturn(e)
  <2>1. <<>> \in Seq(Values)
    BY EmptySeq
  <2>. QED BY <1>5, <2>1 DEF ExecuteReturn
<1>. QED BY <1>1, <1>2, <1>3, <1>4, <1>5 DEF Execute

-----------------------------------------------------------------------------
(* Who has which file *)

\* Nobody opens the pipe of another message.
LEMMA FileStep ==
  ASSUME TypeInv, FileInv, NEW e \in Executions, Read(e) \/ Script(e) \/ Execute(e)
  PROVE  FileInv' /\ message' = message
<1>. USE DEF execute, reader, script, handler
<1>0. message' = message
  BY DEF Read, ReadOpen, ReadOpened, ReadData, ReadEnd, Copy, Remove, ReadReturn,
         Script, ScriptOpen, ScriptWrite, ScriptClose, ScriptExit,
         Execute, CreatePipe, ClosePipe, ClosePipeOpen, ClosePipeWrite, ExecuteReturn
<1>1. ASSUME NEW p, NEW m, OwnFile(p, m) PROVE OwnFile(p, m)'
  BY <1>0, <1>1 DEF OwnFile, PipeOf
<1>2. OwnFile(None, message[e]) /\ OwnFile(e, message[e]) /\ OwnFile(path[message[e]], message[e])
  BY DEF OwnFile, PipeOf, FileInv, TypeInv
<1>3. ASSUME NEW m \in Executions PROVE OwnFile(path'[m], m)
  <2>1. CASE CreatePipe(e)
    BY <1>2, <2>1 DEF CreatePipe, PipePath, TypeInv, FileInv
  <2>2. CASE ~CreatePipe(e)
    <3>1. path' = path \/ path' = [path EXCEPT ![message[e]] = None]
      BY <2>2 DEF Read, ReadOpen, ReadOpened, ReadData, ReadEnd, Copy, Remove, ReadReturn,
             Script, ScriptOpen, ScriptWrite, ScriptClose, ScriptExit, PipePath,
             Execute, ClosePipe, ClosePipeOpen, ClosePipeWrite, ExecuteReturn
    <3>2. path'[m] = path[m] \/ path'[m] = None
      BY <3>1 DEF TypeInv
    <3>. QED BY <3>2 DEF FileInv, OwnFile
  <2>. QED BY <2>1, <2>2
<1>4. \A d \in Executions :
        /\ file'[d] = file[d] \/ (d = e /\ file'[d] \in {None, path[message[e]]})
        /\ readerFile'[d] = readerFile[d] \/ (d = e /\ readerFile'[d] \in {None, path[message[e]]})
        /\ scriptFile'[d] = scriptFile[d] \/ (d = e /\ scriptFile'[d] \in {None, path[message[e]]})
  <2>1. file' = file \/ file' = [file EXCEPT ![e] = path[message[e]]] \/ file' = [file EXCEPT ![e] = None]
    BY DEF Read, ReadOpen, ReadOpened, ReadData, ReadEnd, Copy, Remove, ReadReturn,
           Script, ScriptOpen, ScriptWrite, ScriptClose, ScriptExit, PipePath,
           Execute, CreatePipe, ClosePipe, ClosePipeOpen, ClosePipeWrite, ExecuteReturn
  <2>2. \/ readerFile' = readerFile
        \/ readerFile' = [readerFile EXCEPT ![e] = path[message[e]]] \/ readerFile' = [readerFile EXCEPT ![e] = None]
    BY DEF Read, ReadOpen, ReadOpened, ReadData, ReadEnd, Copy, Remove, ReadReturn,
           Script, ScriptOpen, ScriptWrite, ScriptClose, ScriptExit, PipePath,
           Execute, CreatePipe, ClosePipe, ClosePipeOpen, ClosePipeWrite, ExecuteReturn
  <2>3. \/ scriptFile' = scriptFile
        \/ scriptFile' = [scriptFile EXCEPT ![e] = path[message[e]]] \/ scriptFile' = [scriptFile EXCEPT ![e] = None]
    BY DEF Read, ReadOpen, ReadOpened, ReadData, ReadEnd, Copy, Remove, ReadReturn,
           Script, ScriptOpen, ScriptWrite, ScriptClose, ScriptExit, PipePath,
           Execute, CreatePipe, ClosePipe, ClosePipeOpen, ClosePipeWrite, ExecuteReturn
  <2>. QED BY <2>1, <2>2, <2>3 DEF TypeInv
<1>5. \A d \in Executions :
        OwnFile(file'[d], message[d]) /\ OwnFile(readerFile'[d], message[d]) /\ OwnFile(scriptFile'[d], message[d])
  BY <1>2, <1>4 DEF FileInv
<1>. QED BY <1>0, <1>1, <1>3, <1>5 DEF FileInv

\* Where the actors of an execution are, after a step of any of them.
LEMMA ControlStep ==
  ASSUME TypeInv, NEW e \in Executions, Read(e) \/ Script(e) \/ Execute(e),
         NEW d \in Executions, ControlInv(d)
  PROVE  ControlInv(d)'
<1>. USE DEF TypeInv, ControlInv, execute, reader, script, handler
<1>1. CASE ReadOpen(e)
  <2>. DEFINE p == path[PipePath(e)]
  <2>1. /\ \/ pc'[d] = pc[d] \/ (pc[d] = "blocked" /\ pc'[d] = "opened")
        /\ \/ scriptPc'[d] = scriptPc[d] \/ (scriptPc[d] = "blocked" /\ scriptPc'[d] = "opened")
    BY <1>1 DEF ReadOpen, Woken
  <2>2. readerPc[e] = "start" /\ readerPc'[e] \in {"blocked", "opened"} /\ (p = None => readerPc'[e] = "opened")
    BY <1>1 DEF ReadOpen, Opened
  <2>3. /\ file' = file /\ scriptFile' = scriptFile /\ readerFile'[e] = p
        /\ d # e => readerPc'[d] = readerPc[d] /\ readerFile'[d] = readerFile[d]
    BY <1>1 DEF ReadOpen
  <2>. HIDE DEF p
  <2>. QED BY <2>1, <2>2, <2>3
<1>2. CASE ReadOpened(e) \/ ReadEnd(e)
  BY <1>2 DEF ReadOpened, ReadEnd
<1>3. CASE ReadData(e) \/ Copy(e)
  BY <1>3 DEF ReadData, Copy
<1>4. CASE Remove(e) \/ ReadReturn(e)
  BY <1>4 DEF Remove, ReadReturn
<1>5. CASE ScriptOpen(e)
  <2>. DEFINE p == path[PipePath(e)]
  <2>1. readerPc'[d] = readerPc[d] \/ (readerPc[d] = "blocked" /\ readerPc'[d] = "opened")
    BY <1>5 DEF ScriptOpen, Woken
  <2>2. /\ scriptPc[e] = "running" /\ (p = None => scriptPc'[e] = "running")
        /\ p # None => scriptPc'[e] \in {"blocked", "opened"}
    BY <1>5 DEF ScriptOpen, Opened
  <2>3. /\ file' = file /\ pc' = pc /\ readerFile' = readerFile /\ scriptFile'[e] = p
        /\ d # e => scriptPc'[d] = scriptPc[d] /\ scriptFile'[d] = scriptFile[d]
    BY <1>5 DEF ScriptOpen
  <2>. HIDE DEF p
  <2>. QED BY <2>1, <2>2, <2>3
<1>6. CASE ScriptWrite(e) \/ ScriptClose(e)
  BY <1>6 DEF ScriptWrite, ScriptClose
<1>7. CASE ScriptExit(e)
  BY <1>7 DEF ScriptExit
<1>8. CASE CreatePipe(e)
  BY <1>8 DEF CreatePipe
<1>9. CASE ClosePipe(e) \/ ClosePipeWrite(e) \/ ExecuteReturn(e)
  BY <1>9 DEF ClosePipe, ClosePipeWrite, ExecuteReturn
<1>10. CASE ClosePipeOpen(e)
  <2>. DEFINE p == path[PipePath(e)]
  <2>1. readerPc'[d] = readerPc[d] \/ (readerPc[d] = "blocked" /\ readerPc'[d] = "opened")
    BY <1>10 DEF ClosePipeOpen, Woken
  <2>2. /\ pc[e] = "open" /\ (p = None => pc'[e] = "return")
        /\ p # None => pc'[e] \in {"blocked", "opened"}
    BY <1>10 DEF ClosePipeOpen, Opened
  <2>3. /\ scriptFile' = scriptFile /\ scriptPc' = scriptPc /\ readerFile' = readerFile /\ file'[e] = p
        /\ d # e => pc'[d] = pc[d] /\ file'[d] = file[d]
    BY <1>10 DEF ClosePipeOpen
  <2>. HIDE DEF p
  <2>. QED BY <2>1, <2>2, <2>3
<1>. QED BY <1>1, <1>2, <1>3, <1>4, <1>5, <1>6, <1>7, <1>8, <1>9, <1>10 DEF Read, Script, Execute

-----------------------------------------------------------------------------
(* Data stays with its message *)

LEMMA OfMessageAppend ==
  ASSUME NEW s \in Seq(Values), NEW c \in Values, NEW m \in Executions,
         OfMessage(s, m), c = DefaultMessage \/ message[c.from] = m
  PROVE  OfMessage(Append(s, c), m)
<1>1. /\ Len(s) \in Nat /\ Len(Append(s, c)) = Len(s) + 1
      /\ \A i \in 1 .. Len(s) : Append(s, c)[i] = s[i]
      /\ Append(s, c)[Len(s) + 1] = c
  BY AppendProperties, LenProperties
<1>2. \A i \in 1 .. Len(s) + 1 : i \in 1 .. Len(s) \/ i = Len(s) + 1
  BY <1>1
<1>. QED BY <1>1, <1>2 DEF OfMessage

LEMMA OfMessageConcat ==
  ASSUME NEW s \in Seq(Values), NEW t \in Seq(Values), NEW m \in Executions,
         OfMessage(s, m), OfMessage(t, m)
  PROVE  OfMessage(s \o t, m)
<1>1. /\ Len(s) \in Nat /\ Len(t) \in Nat /\ Len(s \o t) = Len(s) + Len(t)
      /\ \A i \in 1 .. Len(s) + Len(t) : (s \o t)[i] = IF i <= Len(s) THEN s[i] ELSE t[i - Len(s)]
  BY ConcatProperties, LenProperties
<1>2. \A i \in 1 .. Len(s) + Len(t) : i \in 1 .. Len(s) \/ (~(i <= Len(s)) /\ i - Len(s) \in 1 .. Len(t))
  BY <1>1
<1>3. \A i \in 1 .. Len(s) + Len(t) :
        (s \o t)[i] = DefaultMessage \/ message[(s \o t)[i].from] = m
  <2>1. TAKE i \in 1 .. Len(s) + Len(t)
  <2>2. CASE i \in 1 .. Len(s)
    <3>1. (s \o t)[i] = s[i]
      BY <1>1, <2>2
    <3>. QED BY <3>1, <2>2 DEF OfMessage
  <2>3. CASE ~(i <= Len(s)) /\ i - Len(s) \in 1 .. Len(t)
    <3>1. (s \o t)[i] = t[i - Len(s)]
      BY <1>1, <2>3
    <3>. QED BY <3>1, <2>3 DEF OfMessage
  <2>. QED BY <1>2, <2>2, <2>3
<1>. QED BY <1>1, <1>3 DEF OfMessage

\* What a step does to a pipe: it may empty it or append to it, if it is of its message.
LEMMA DataStep ==
  ASSUME TypeInv, FileInv, NEW e \in Executions, ControlInv(e), Read(e) \/ Script(e) \/ Execute(e),
         NEW p \in Pipes
  PROVE  \/ data'[p] = data[p]
         \/ PipeOf(p, message[e]) /\ data'[p] = <<>>
         \/ /\ PipeOf(p, message[e])
            /\ \E c \in Values : (c = DefaultMessage \/ c.from = e) /\ data'[p] = Append(data[p], c)
<1>. USE DEF execute, reader, script, handler
<1>1. CASE ReadData(e)
  <2>1. readerFile[e] # None /\ data' = [data EXCEPT ![readerFile[e]] = <<>>]
    BY <1>1 DEF ReadData
  <2>2. OwnFile(readerFile[e], message[e])
    BY DEF FileInv
  <2>. QED BY <2>1, <2>2 DEF TypeInv, OwnFile
<1>2. CASE ScriptWrite(e)
  <2>1. scriptFile[e] \in Pipes /\ PipeOf(scriptFile[e], message[e])
    BY <1>2, NoneIsNoPipe DEF ScriptWrite, ControlInv, FileInv, OwnFile, TypeInv
  <2>2. written'[e] = written[e] + 1 /\ written'[e] \in Nat
    BY <1>2 DEF ScriptWrite, TypeInv
  <2>3. Chunk(e, written'[e]) \in Values /\ Chunk(e, written'[e]).from = e
    BY <2>2, ChunkIsValue
  <2>4. Write(scriptFile[e], Chunk(e, written'[e]))
    BY <1>2 DEF ScriptWrite
  <2>5. \/ data'[p] = data[p]
        \/ p = scriptFile[e] /\ data'[p] = Append(data[p], Chunk(e, written'[e]))
    BY <2>1, <2>3, <2>4, WriteType
  <2>. QED BY <2>1, <2>3, <2>5
<1>3. CASE ClosePipeWrite(e)
  <2>1. file[e] \in Pipes /\ PipeOf(file[e], message[e])
    BY <1>3, NoneIsNoPipe DEF ClosePipeWrite, ControlInv, FileInv, OwnFile, TypeInv
  <2>2. Write(file[e], DefaultMessage)
    BY <1>3 DEF ClosePipeWrite
  <2>3. \/ data'[p] = data[p]
        \/ p = file[e] /\ data'[p] = Append(data[p], DefaultMessage)
    BY <2>1, <2>2, DefaultIsValue, WriteType
  <2>. QED BY <2>1, <2>3, DefaultIsValue
<1>4. CASE ~ReadData(e) /\ ~ScriptWrite(e) /\ ~ClosePipeWrite(e)
  <2>1. data' = data
    BY <1>4 DEF Read, ReadOpen, ReadOpened, ReadEnd, Copy, Remove, ReadReturn,
           Script, ScriptOpen, ScriptClose, ScriptExit,
           Execute, CreatePipe, ClosePipe, ClosePipeOpen, ExecuteReturn
  <2>. QED BY <2>1
<1>. QED BY <1>1, <1>2, <1>3, <1>4

LEMMA MessageStep ==
  ASSUME TypeInv, FileInv, MessageInv, NEW e \in Executions, ControlInv(e), Read(e) \/ Script(e) \/ Execute(e)
  PROVE  MessageInv'
<1>. USE DEF execute, reader, script, handler
<1>0. message' = message
  BY FileStep
<1>1. \A m : OfMessage(<<>>, m)
  BY DEF OfMessage
<1>2. ASSUME NEW m \in Executions, NEW p \in Pipes, PipeOf(p, m) PROVE OfMessage(data'[p], m)
  <2>1. OfMessage(data[p], m) /\ data[p] \in Seq(Values)
    BY <1>2 DEF MessageInv, TypeInv
  <2>2. CASE data'[p] = data[p] \/ data'[p] = <<>>
    BY <1>1, <2>1, <2>2
  <2>3. CASE /\ PipeOf(p, message[e])
             /\ \E c \in Values : (c = DefaultMessage \/ c.from = e) /\ data'[p] = Append(data[p], c)
    <3>1. PICK c \in Values : (c = DefaultMessage \/ c.from = e) /\ data'[p] = Append(data[p], c)
      BY <2>3
    <3>2. m = message[e]
      BY <1>2, <2>3, PipeOfOne DEF TypeInv
    <3>. QED BY <2>1, <3>1, <3>2, OfMessageAppend
  <2>. QED BY <2>2, <2>3, DataStep
<1>3. ASSUME NEW d \in Executions PROVE OfMessage(received'[d], message[d])
  <2>1. OfMessage(received[d], message[d])
    BY DEF MessageInv
  <2>2. CASE ReadData(e)
    <3>1. readerFile[e] \in Pipes /\ PipeOf(readerFile[e], message[e])
      BY <2>2, NoneIsNoPipe DEF ReadData, FileInv, OwnFile, TypeInv
    <3>2. OfMessage(data[readerFile[e]], message[e]) /\ data[readerFile[e]] \in Seq(Values)
      BY <3>1 DEF MessageInv, TypeInv
    <3>3. OfMessage(received[e], message[e]) /\ received[e] \in Seq(Values) /\ message[e] \in Executions
      BY DEF MessageInv, TypeInv
    <3>4. OfMessage(received[e] \o data[readerFile[e]], message[e])
      BY <3>2, <3>3, OfMessageConcat
    <3>5. received' = [received EXCEPT ![e] = received[e] \o data[readerFile[e]]]
      BY <2>2 DEF ReadData
    <3>. QED BY <2>1, <3>4, <3>5 DEF TypeInv
  <2>3. CASE ~ReadData(e)
    <3>1. received' = received \/ received' = [received EXCEPT ![e] = <<>>]
      BY <2>3 DEF Read, ReadOpen, ReadOpened, ReadEnd, Copy, Remove, ReadReturn,
             Script, ScriptOpen, ScriptWrite, ScriptClose, ScriptExit,
             Execute, CreatePipe, ClosePipe, ClosePipeOpen, ClosePipeWrite, ExecuteReturn
    <3>2. received'[d] = received[d] \/ received'[d] = <<>>
      BY <3>1 DEF TypeInv
    <3>. QED BY <1>1, <2>1, <3>2
  <2>. QED BY <2>2, <2>3
<1>4. ASSUME NEW d \in Executions PROVE OfMessage(callbackContextBuffer'[d], message[d])
  <2>1. OfMessage(callbackContextBuffer[d], message[d])
    BY DEF MessageInv
  <2>2. CASE Copy(e)
    <3>. DEFINE n == Len(callbackContextBuffer[e])
    <3>1. n \in Nat /\ Len(received[e]) \in Nat /\ n < Len(received[e])
      BY <2>2, LenProperties, PipeAssumption DEF Copy, CopyLength, TypeInv
    <3>2. received[e][n + 1] \in Values
      BY <3>1, ElementOfSeq DEF TypeInv
    <3>3. received[e][n + 1] = DefaultMessage \/ message[received[e][n + 1].from] = message[e]
      BY <3>1 DEF MessageInv, OfMessage
    <3>4. OfMessage(callbackContextBuffer[e], message[e]) /\ callbackContextBuffer[e] \in Seq(Values)
          /\ message[e] \in Executions
      BY DEF MessageInv, TypeInv
    <3>5. callbackContextBuffer' = [callbackContextBuffer EXCEPT ![e] = Append(callbackContextBuffer[e], received[e][n + 1])]
      BY <2>2 DEF Copy
    <3>. HIDE DEF n
    <3>6. OfMessage(Append(callbackContextBuffer[e], received[e][n + 1]), message[e])
      BY <3>2, <3>3, <3>4, OfMessageAppend
    <3>. QED BY <2>1, <3>5, <3>6 DEF TypeInv
  <2>3. CASE ~Copy(e)
    <3>1. callbackContextBuffer' = callbackContextBuffer
      BY <2>3 DEF Read, ReadOpen, ReadOpened, ReadData, ReadEnd, Remove, ReadReturn,
             Script, ScriptOpen, ScriptWrite, ScriptClose, ScriptExit,
             Execute, CreatePipe, ClosePipe, ClosePipeOpen, ClosePipeWrite, ExecuteReturn
    <3>. QED BY <2>1, <3>1
  <2>. QED BY <2>2, <2>3
<1>5. ASSUME NEW d \in Executions PROVE OfMessage(callbackContext'[d], message[d])
  <2>1. OfMessage(callbackContext[d], message[d]) /\ OfMessage(callbackContextBuffer[d], message[d])
    BY DEF MessageInv
  <2>2. \/ callbackContext' = callbackContext
        \/ callbackContext' = [callbackContext EXCEPT ![e] = callbackContextBuffer[e]]
        \/ callbackContext' = [callbackContext EXCEPT ![e] = <<>>]
    BY DEF Read, ReadOpen, ReadOpened, ReadData, ReadEnd, Copy, Remove, ReadReturn,
           Script, ScriptOpen, ScriptWrite, ScriptClose, ScriptExit,
           Execute, CreatePipe, ClosePipe, ClosePipeOpen, ClosePipeWrite, ExecuteReturn
  <2>3. callbackContext'[d] \in {callbackContext[d], callbackContextBuffer[d], <<>>}
    BY <2>2 DEF TypeInv
  <2>. QED BY <1>1, <2>1, <2>3
<1>6. \A m \in Executions, p \in Pipes : PipeOf(p, m)' => OfMessage(data'[p], m)
  BY <1>0, <1>2 DEF PipeOf
<1>. QED BY <1>0, <1>3, <1>4, <1>5, <1>6 DEF MessageInv, OfMessage

-----------------------------------------------------------------------------
(* A message that is executed once *)

\* No other execution has a pipe of the message open.
LEMMA OnlyActors ==
  ASSUME TypeInv, FileInv, NEW e \in Executions, Unique(e), NEW p \in Pipes, PipeOf(p, message[e])
  PROVE  /\ Readers(p) # {} <=> readerFile[e] = p
         /\ NoWriter(p) <=> file[e] # p /\ scriptFile[e] # p
<1>1. ASSUME NEW f \in Executions, f # e PROVE file[f] # p /\ readerFile[f] # p /\ scriptFile[f] # p
  <2>1. message[f] # message[e] /\ message[f] \in Executions /\ message[e] \in Executions
    BY <1>1 DEF Unique, TypeInv
  <2>2. OwnFile(file[f], message[f]) /\ OwnFile(readerFile[f], message[f]) /\ OwnFile(scriptFile[f], message[f])
    BY DEF FileInv
  <2>3. p # None /\ ~PipeOf(p, message[f])
    BY <2>1, PipeOfOne, NoneIsNoPipe
  <2>. QED BY <2>2, <2>3 DEF OwnFile
<1>. QED BY <1>1 DEF Readers, NoWriter

\* What a step of another message leaves alone.
LEMMA OthersAlone ==
  ASSUME TypeInv, FileInv, NEW e \in Executions, ControlInv(e), Read(e) \/ Script(e) \/ Execute(e),
         NEW d \in Executions, message[d] # message[e]
  PROVE  /\ path'[message[d]] = path[message[d]]
         /\ pc'[d] = pc[d] /\ file'[d] = file[d] /\ readerPc'[d] = readerPc[d] /\ readerFile'[d] = readerFile[d]
         /\ scriptPc'[d] = scriptPc[d] /\ scriptFile'[d] = scriptFile[d] /\ written'[d] = written[d]
         /\ received'[d] = received[d] /\ callbackContextBuffer'[d] = callbackContextBuffer[d]
         /\ callbackContext'[d] = callbackContext[d]
         /\ \A p \in Pipes : PipeOf(p, message[d]) => data'[p] = data[p]
<1>. USE DEF execute, reader, script, handler
<1>1. d # e /\ message[d] \in Executions /\ message[e] \in Executions
  BY DEF TypeInv
<1>2. \A p \in Pipes : PipeOf(p, message[d]) => data'[p] = data[p]
  BY <1>1, PipeOfOne, DataStep
<1>. DEFINE q == path[message[e]]
<1>3. q # None => file[d] # q /\ readerFile[d] # q /\ scriptFile[d] # q
  <2>1. OwnFile(file[d], message[d]) /\ OwnFile(readerFile[d], message[d]) /\ OwnFile(scriptFile[d], message[d])
        /\ OwnFile(q, message[e])
    BY <1>1 DEF FileInv
  <2>. HIDE DEF q
  <2>. QED BY <1>1, <2>1, PipeOfOne DEF OwnFile
<1>4. CASE ReadOpen(e)
  <2>1. (pc' = pc /\ scriptPc' = scriptPc) \/ (q # None /\ pc' = Woken(pc, file, q) /\ scriptPc' = Woken(scriptPc, scriptFile, q))
    BY <1>4 DEF ReadOpen, PipePath
  <2>2. pc'[d] = pc[d] /\ scriptPc'[d] = scriptPc[d]
    BY <1>3, <2>1 DEF Woken
  <2>3. readerPc'[d] = readerPc[d] /\ readerFile'[d] = readerFile[d]
    BY <1>1, <1>4 DEF ReadOpen, TypeInv
  <2>. QED BY <1>2, <1>4, <2>2, <2>3 DEF ReadOpen
<1>5. CASE ScriptOpen(e)
  <2>1. readerPc' = readerPc \/ (q # None /\ readerPc' = Woken(readerPc, readerFile, q))
    BY <1>5 DEF ScriptOpen, PipePath
  <2>2. readerPc'[d] = readerPc[d]
    BY <1>3, <2>1 DEF Woken
  <2>3. scriptPc'[d] = scriptPc[d] /\ scriptFile'[d] = scriptFile[d]
    BY <1>1, <1>5 DEF ScriptOpen, TypeInv
  <2>. QED BY <1>2, <1>5, <2>2, <2>3 DEF ScriptOpen
<1>6. CASE ClosePipeOpen(e)
  <2>1. readerPc' = readerPc \/ (q # None /\ readerPc' = Woken(readerPc, readerFile, q))
    BY <1>6 DEF ClosePipeOpen, PipePath
  <2>2. readerPc'[d] = readerPc[d]
    BY <1>3, <2>1 DEF Woken
  <2>3. pc'[d] = pc[d] /\ file'[d] = file[d]
    BY <1>1, <1>6 DEF ClosePipeOpen, TypeInv
  <2>. QED BY <1>2, <1>6, <2>2, <2>3 DEF ClosePipeOpen
<1>7. CASE ReadOpened(e) \/ ReadData(e) \/ ReadEnd(e) \/ Copy(e)
  BY <1>1, <1>2, <1>7 DEF ReadOpened, ReadData, ReadEnd, Copy, TypeInv
<1>8. CASE Remove(e) \/ ReadReturn(e) \/ ScriptWrite(e) \/ ScriptClose(e) \/ ScriptExit(e)
  BY <1>1, <1>2, <1>8 DEF Remove, ReadReturn, ScriptWrite, ScriptClose, ScriptExit, PipePath, TypeInv
<1>9. CASE CreatePipe(e) \/ ClosePipe(e) \/ ClosePipeWrite(e) \/ ExecuteReturn(e)
  BY <1>1, <1>2, <1>9 DEF CreatePipe, ClosePipe, ClosePipeWrite, ExecuteReturn, PipePath, TypeInv
<1>. QED BY <1>4, <1>5, <1>6, <1>7, <1>8, <1>9 DEF Read, Script, Execute

LEMMA OthersUnique ==
  ASSUME TypeInv, FileInv, NEW e \in Executions, ControlInv(e), Read(e) \/ Script(e) \/ Execute(e),
         NEW d \in Executions, message[d] # message[e], UniqueOne(d)
  PROVE  UniqueOne(d)'
<1>0. message' = message
  BY FileStep
<1>. DEFINE Same == 
       /\ path'[message[d]] = path[message[d]]
       /\ pc'[d] = pc[d] /\ file'[d] = file[d] /\ readerPc'[d] = readerPc[d] /\ readerFile'[d] = readerFile[d]
       /\ scriptPc'[d] = scriptPc[d] /\ scriptFile'[d] = scriptFile[d] /\ written'[d] = written[d]
       /\ received'[d] = received[d] /\ callbackContextBuffer'[d] = callbackContextBuffer[d]
       /\ callbackContext'[d] = callbackContext[d]
<1>1. Same /\ \A p \in Pipes : PipeOf(p, message[d]) => data'[p] = data[p]
  BY OthersAlone
<1>2. OnePipe(d)' /\ MetReader(d)'
  BY <1>0, <1>1 DEF UniqueOne, OnePipe, MetReader, Waiting
<1>3. \A p \in Pipes : PipeOf(p, message[d])' => data'[p] = data[p] /\ PipeOf(p, message[d])
  BY <1>0, <1>1 DEF PipeOf
<1>4. readerFile[d] # None => data'[readerFile[d]] = data[readerFile[d]]
  BY <1>1 DEF FileInv, OwnFile, TypeInv
<1>5. Waiting(d)' = Waiting(d) /\ Closed(d)' = Closed(d)
  BY <1>1 DEF Waiting, Closed
<1>6. StreamInv(d)'
  BY <1>1, <1>3, <1>4, <1>5 DEF UniqueOne, StreamInv, Genuine
<1>. QED BY <1>2, <1>6 DEF UniqueOne

\* An actor opens what is at the path, and a pipe is created only before that.
LEMMA OnePipeStep ==
  ASSUME TypeInv, NEW e \in Executions, ControlInv(e), OnePipe(e), Read(e) \/ Script(e) \/ Execute(e),
         message' = message
  PROVE  OnePipe(e)'
<1>. USE DEF execute, reader, script, handler
<1>. DEFINE q == path[message[e]]
<1>0. message[e] \in Executions
  BY DEF TypeInv
<1>1. CASE CreatePipe(e)
  <2>1. file[e] = None /\ readerFile[e] = None /\ scriptFile[e] = None
    BY <1>1 DEF CreatePipe, ControlInv
  <2>2. file' = file /\ readerFile' = readerFile /\ scriptFile' = scriptFile
    BY <1>1 DEF CreatePipe
  <2>. QED BY <2>1, <2>2 DEF OnePipe
<1>2. CASE ~CreatePipe(e)
  <2>1. path' = path \/ path' = [path EXCEPT ![message[e]] = None]
    BY <1>2 DEF Read, ReadOpen, ReadOpened, ReadData, ReadEnd, Copy, Remove, ReadReturn,
           Script, ScriptOpen, ScriptWrite, ScriptClose, ScriptExit, PipePath,
           Execute, ClosePipe, ClosePipeOpen, ClosePipeWrite, ExecuteReturn
  <2>2. file' = file \/ file' = [file EXCEPT ![e] = q] \/ file' = [file EXCEPT ![e] = None]
    BY DEF Read, ReadOpen, ReadOpened, ReadData, ReadEnd, Copy, Remove, ReadReturn,
           Script, ScriptOpen, ScriptWrite, ScriptClose, ScriptExit, PipePath,
           Execute, CreatePipe, ClosePipe, ClosePipeOpen, ClosePipeWrite, ExecuteReturn
  <2>3. \/ readerFile' = readerFile
        \/ readerFile' = [readerFile EXCEPT ![e] = q] \/ readerFile' = [readerFile EXCEPT ![e] = None]
    BY DEF Read, ReadOpen, ReadOpened, ReadData, ReadEnd, Copy, Remove, ReadReturn,
           Script, ScriptOpen, ScriptWrite, ScriptClose, ScriptExit, PipePath,
           Execute, CreatePipe, ClosePipe, ClosePipeOpen, ClosePipeWrite, ExecuteReturn
  <2>4. \/ scriptFile' = scriptFile
        \/ scriptFile' = [scriptFile EXCEPT ![e] = q] \/ scriptFile' = [scriptFile EXCEPT ![e] = None]
    BY DEF Read, ReadOpen, ReadOpened, ReadData, ReadEnd, Copy, Remove, ReadReturn,
           Script, ScriptOpen, ScriptWrite, ScriptClose, ScriptExit, PipePath,
           Execute, CreatePipe, ClosePipe, ClosePipeOpen, ClosePipeWrite, ExecuteReturn
  <2>5. /\ path'[message[e]] \in {q, None} /\ file'[e] \in {file[e], q, None}
        /\ readerFile'[e] \in {readerFile[e], q, None} /\ scriptFile'[e] \in {scriptFile[e], q, None}
    BY <1>0, <2>1, <2>2, <2>3, <2>4 DEF TypeInv
  <2>6. \A p \in {path'[message[e]], file'[e], readerFile'[e], scriptFile'[e]} :
          p = None \/ p \in {q, file[e], readerFile[e], scriptFile[e]}
    BY <2>5
  <2>. QED BY <2>6 DEF OnePipe
<1>. QED BY <1>1, <1>2

\* Whoever has opened the pipe for writing, or written, has met a reader.
LEMMA MetReaderStep ==
  ASSUME TypeInv, FileInv, NEW e \in Executions, ControlInv(e), Unique(e), MetReader(e),
         Read(e) \/ Script(e) \/ Execute(e)
  PROVE  MetReader(e)'
<1>. USE DEF TypeInv, MetReader, Waiting, execute, reader, script, handler
<1>. DEFINE q == path[message[e]]
<1>0. q # None => q \in Pipes /\ PipeOf(q, message[e])
  BY DEF FileInv, OwnFile
<1>1. CASE ReadOpen(e)
  <2>0. readerPc[e] = "start" /\ written' = written
    BY <1>1 DEF ReadOpen
  <2>1. CASE q = None
    BY <1>1, <2>1 DEF ReadOpen, PipePath
  <2>2. CASE q # None
    <3>1. readerPc'[e] = Opened(~NoWriter(q)) /\ pc' = Woken(pc, file, q) /\ scriptPc' = Woken(scriptPc, scriptFile, q)
      BY <1>1, <2>2 DEF ReadOpen, PipePath
    <3>2. NoWriter(q) => file[e] # q /\ scriptFile[e] # q
      BY DEF NoWriter
    <3>3. NoWriter(q) => pc'[e] = pc[e] /\ scriptPc'[e] = scriptPc[e]
      BY <3>1, <3>2 DEF Woken
    <3>. QED BY <2>0, <3>1, <3>3 DEF Opened
  <2>. QED BY <2>1, <2>2
<1>2. CASE ReadOpened(e) \/ ReadData(e) \/ ReadEnd(e) \/ Copy(e) \/ Remove(e) \/ ReadReturn(e)
  BY <1>2 DEF ReadOpened, ReadData, ReadEnd, Copy, Remove, ReadReturn
<1>3. CASE ScriptOpen(e)
  <2>0. pc' = pc /\ written' = written
    BY <1>3 DEF ScriptOpen
  <2>1. CASE q = None
    BY <1>3, <2>1 DEF ScriptOpen, PipePath
  <2>2. CASE q # None
    <3>1. scriptPc'[e] = Opened(Readers(q) # {}) /\ readerPc' = Woken(readerPc, readerFile, q)
      BY <1>3, <2>2 DEF ScriptOpen, PipePath
    <3>2. Readers(q) # {} => readerFile[e] = q
      BY <1>0, <2>2, OnlyActors
    <3>3. readerPc'[e] = IF readerPc[e] = "blocked" /\ readerFile[e] = q THEN "opened" ELSE readerPc[e]
      BY <3>1 DEF Woken
    <3>. QED BY <2>0, <2>2, <3>1, <3>2, <3>3 DEF Opened, ControlInv
  <2>. QED BY <2>1, <2>2
<1>4. CASE ScriptWrite(e) \/ ScriptClose(e) \/ ScriptExit(e)
  BY <1>4 DEF ScriptWrite, ScriptClose, ScriptExit
<1>5. CASE CreatePipe(e) \/ ClosePipe(e) \/ ClosePipeWrite(e) \/ ExecuteReturn(e)
  BY <1>5 DEF CreatePipe, ClosePipe, ClosePipeWrite, ExecuteReturn, ControlInv
<1>6. CASE ClosePipeOpen(e)
  <2>0. scriptPc' = scriptPc /\ written' = written
    BY <1>6 DEF ClosePipeOpen
  <2>1. CASE q = None
    BY <1>6, <2>1 DEF ClosePipeOpen, PipePath
  <2>2. CASE q # None
    <3>1. pc'[e] = Opened(Readers(q) # {}) /\ readerPc' = Woken(readerPc, readerFile, q)
      BY <1>6, <2>2 DEF ClosePipeOpen, PipePath
    <3>2. Readers(q) # {} => readerFile[e] = q
      BY <1>0, <2>2, OnlyActors
    <3>3. readerPc'[e] = IF readerPc[e] = "blocked" /\ readerFile[e] = q THEN "opened" ELSE readerPc[e]
      BY <3>1 DEF Woken
    <3>. QED BY <2>0, <2>2, <3>1, <3>2, <3>3 DEF Opened, ControlInv
  <2>. QED BY <2>1, <2>2
<1>. QED BY <1>1, <1>2, <1>3, <1>4, <1>5, <1>6 DEF Read, Script, Execute

-----------------------------------------------------------------------------
(* What a script writes arrives in order *)

\* It stays a beginning when the script writes more, and when the pipe is closed.
LEMMA BeginningKept ==
  ASSUME NEW e, NEW s \in Seq(Values), NEW w \in Nat, NEW closed, Beginning(e, s, w, closed),
         NEW x \in Nat, NEW closedThen, closed => closedThen, x = w \/ (x = w + 1 /\ ~closed)
  PROVE  Beginning(e, s, x, closedThen)
<1>1. Len(s) \in Nat
  BY LenProperties
<1>2. CASE x = w
  BY <1>1, <1>2 DEF Beginning
<1>3. CASE x = w + 1 /\ ~closed
  <2>1. Len(s) <= w
    BY <1>1, <1>3 DEF Beginning
  <2>. QED BY <1>1, <1>3, <2>1 DEF Beginning
<1>. QED BY <1>2, <1>3

LEMMA NothingIsBeginning ==
  ASSUME NEW e, NEW w \in Nat, NEW closed
  PROVE  Beginning(e, <<>>, w, closed)
BY DEF Beginning

\* All that has been written, and one more.
LEMMA BeginningGrows ==
  ASSUME NEW e, NEW s \in Seq(Values), NEW w \in Nat, NEW closed, Beginning(e, s, w, closed),
         Len(s) = w, NEW closedThen
  PROVE  /\ Len(Append(s, Chunk(e, w + 1))) = w + 1
         /\ Beginning(e, Append(s, Chunk(e, w + 1)), w + 1, closedThen)
         /\ Len(Append(s, DefaultMessage)) = w + 1
         /\ closedThen => Beginning(e, Append(s, DefaultMessage), w, closedThen)
<1>1. Len(s) \in Nat /\ Len(s) = w
  BY LenProperties
<1>2. ASSUME NEW c
      PROVE  /\ Len(Append(s, c)) = w + 1 /\ Append(s, c)[w + 1] = c
             /\ \A i \in 1 .. w : Append(s, c)[i] = s[i]
  BY <1>1
<1>3. \A i \in 1 .. w : s[i] = Chunk(e, i)
  BY <1>1 DEF Beginning
<1>4. \A i \in 1 .. w + 1 : i \in 1 .. w \/ (i = w + 1 /\ ~(i <= w))
  OBVIOUS
<1>5. \A i \in 1 .. w : i <= w /\ i <= w + 1
  OBVIOUS
<1>6. \A i \in 1 .. w + 1 : Append(s, Chunk(e, w + 1))[i] = IF i <= w + 1 THEN Chunk(e, i) ELSE DefaultMessage
  BY <1>2, <1>3, <1>4, <1>5
<1>7. \A i \in 1 .. w + 1 : Append(s, DefaultMessage)[i] = IF i <= w THEN Chunk(e, i) ELSE DefaultMessage
  BY <1>2, <1>3, <1>4, <1>5
<1>8. Beginning(e, Append(s, Chunk(e, w + 1)), w + 1, closedThen)
  BY <1>2, <1>6 DEF Beginning
<1>9. closedThen => Beginning(e, Append(s, DefaultMessage), w, closedThen)
  BY <1>2, <1>7 DEF Beginning
<1>. QED BY <1>2, <1>8, <1>9

\* A beginning of a beginning.
LEMMA BeginningPrefix ==
  ASSUME NEW e, NEW s \in Seq(Values), NEW t \in Seq(Values), NEW w \in Nat, NEW closed,
         Beginning(e, s, w, closed), Len(t) <= Len(s), \A i \in 1 .. Len(t) : t[i] = s[i]
  PROVE  Beginning(e, t, w, closed)
<1>1. Len(s) \in Nat /\ Len(t) \in Nat
  BY LenProperties
<1>. QED BY <1>1 DEF Beginning

LEMMA ConcatAppend ==
  ASSUME NEW s \in Seq(Values), NEW t \in Seq(Values), NEW c \in Values
  PROVE  s \o Append(t, c) = Append(s \o t, c)
<1>1. Append(t, c) \in Seq(Values) /\ s \o t \in Seq(Values)
  BY AppendProperties, ConcatProperties
<1>2. s \o Append(t, c) \in Seq(Values) /\ Append(s \o t, c) \in Seq(Values)
  BY <1>1, AppendProperties, ConcatProperties
<1>3. Len(s) \in Nat /\ Len(t) \in Nat
  BY LenProperties
<1>4. Len(s \o Append(t, c)) = Len(s) + Len(t) + 1 /\ Len(Append(s \o t, c)) = Len(s) + Len(t) + 1
  BY <1>1, <1>3, AppendProperties, ConcatProperties
<1>5. \A i \in 1 .. Len(s \o Append(t, c)) : (s \o Append(t, c))[i] = Append(s \o t, c)[i]
  OBVIOUS
<1>. QED BY <1>2, <1>4, <1>5, SeqEqual

\* A step that moves no data, after which Read may be past the open.
LEMMA StreamQuiet ==
  ASSUME TypeInv, TypeInv', FileInv', NEW e \in Executions, MetReader(e), StreamInv(e),
         message' = message, data' = data, received' = received,
         callbackContextBuffer' = callbackContextBuffer, callbackContext' = callbackContext,
         written' = written, Closed(e) => Closed(e)',
         \/ readerPc'[e] = readerPc[e] /\ readerFile'[e] = readerFile[e]
         \/ Waiting(e) /\ (Waiting(e)' \/ readerPc'[e] = "opened")
  PROVE  StreamInv(e)'
<1>1. \A p : PipeOf(p, message[e])' <=> PipeOf(p, message[e])
  BY DEF PipeOf
<1>2. ASSUME NEW s \in Seq(Values), Genuine(e, s)
      PROVE  Beginning(e, s, written'[e], Closed(e)')
  BY <1>2, BeginningKept DEF Genuine, TypeInv
<1>3. Genuine(e, callbackContextBuffer[e])' /\ Genuine(e, callbackContext[e])'
  BY <1>2 DEF StreamInv, Genuine, TypeInv
<1>4. CASE readerPc'[e] = readerPc[e] /\ readerFile'[e] = readerFile[e]
  <2>1. Waiting(e)' => Waiting(e)
    BY <1>4 DEF Waiting
  <2>2. readerPc[e] \in {"opened", "reading"} /\ readerFile[e] # None =>
          received[e] \o data[readerFile[e]] \in Seq(Values)
    BY ConcatProperties DEF TypeInv
  <2>3. received[e] \in Seq(Values)
    BY DEF TypeInv
  <2>4. readerPc[e] = "copying" => Genuine(e, received[e])'
    BY <1>2, <2>3 DEF StreamInv, Genuine
  <2>5. readerPc[e] \in {"opened", "reading"} /\ readerFile[e] # None =>
          Beginning(e, received[e] \o data[readerFile[e]], written'[e], Closed(e)')
    BY <1>2, <2>2 DEF StreamInv
  <2>. QED BY <1>1, <1>3, <1>4, <2>1, <2>4, <2>5 DEF StreamInv, Genuine
<1>5. CASE Waiting(e) /\ (Waiting(e)' \/ readerPc'[e] = "opened")
  <2>1. /\ received[e] = <<>> /\ callbackContextBuffer[e] = <<>>
        /\ \A p \in Pipes : PipeOf(p, message[e]) => data[p] = <<>>
    BY <1>5 DEF StreamInv
  <2>2. readerPc'[e] \notin {"reading", "copying"} /\ (readerPc'[e] = "opened" => ~Waiting(e)')
    BY <1>5 DEF Waiting
  <2>3. written[e] = 0 /\ written'[e] = 0
    BY <1>5 DEF MetReader, TypeInv
  <2>4. CASE readerFile'[e] # None
    <3>1. readerFile'[e] \in Pipes /\ PipeOf(readerFile'[e], message[e])
      BY <1>1, <2>4 DEF FileInv, OwnFile, TypeInv
    <3>2. data'[readerFile'[e]] = <<>>
      BY <2>1, <3>1
    <3>3. received'[e] \o data'[readerFile'[e]] = <<>>
      BY <2>1, <3>2
    <3>4. Beginning(e, <<>>, written'[e], Closed(e)')
      BY <2>3, NothingIsBeginning
    <3>. QED BY <1>1, <1>3, <1>5, <2>1, <2>2, <2>3, <2>4, <3>3, <3>4 DEF StreamInv, Genuine
  <2>5. CASE readerFile'[e] = None
    BY <1>1, <1>3, <1>5, <2>1, <2>2, <2>5 DEF StreamInv, Genuine
  <2>. QED BY <2>4, <2>5
<1>. QED BY <1>4, <1>5

\* A write by an actor that has met the reader; if that still reads, it is behind all the rest.
LEMMA StreamWritten ==
  ASSUME TypeInv, TypeInv', NEW e \in Executions, StreamInv(e), ~Waiting(e),
         message' = message, received' = received, readerPc' = readerPc, readerFile' = readerFile,
         callbackContextBuffer' = callbackContextBuffer, callbackContext' = callbackContext,
         NEW c \in Values,
         readerFile[e] # None => data'[readerFile[e]] = Append(data[readerFile[e]], c),
         ~Closed(e),
         \/ c = Chunk(e, written[e] + 1) /\ written'[e] = written[e] + 1
         \/ c = DefaultMessage /\ written'[e] = written[e] /\ Closed(e)'
  PROVE  StreamInv(e)'
<1>1. written[e] \in Nat /\ written'[e] \in Nat
  BY DEF TypeInv
<1>2. ASSUME NEW s \in Seq(Values), Genuine(e, s)
      PROVE  Beginning(e, s, written'[e], Closed(e)')
  BY <1>1, <1>2, BeginningKept DEF Genuine
<1>3. Genuine(e, callbackContextBuffer[e])' /\ Genuine(e, callbackContext[e])'
  BY <1>2 DEF StreamInv, Genuine, TypeInv
<1>4. ~Waiting(e)'
  BY DEF Waiting
<1>5. readerPc[e] = "copying" => Genuine(e, received[e])'
  BY <1>2 DEF StreamInv, Genuine, TypeInv
<1>6. CASE readerPc[e] \in {"opened", "reading"} /\ readerFile[e] # None
  <2>. DEFINE s == received[e] \o data[readerFile[e]]
  <2>1. received[e] \in Seq(Values) /\ data[readerFile[e]] \in Seq(Values)
    BY <1>6 DEF TypeInv
  <2>2. s \in Seq(Values)
    BY <2>1, ConcatProperties
  <2>3. received'[e] \o data'[readerFile'[e]] = Append(s, c)
    BY <1>6, <2>1, ConcatAppend
  <2>4. Beginning(e, s, written[e], Closed(e)) /\ written[e] <= Len(s)
    BY <1>6 DEF StreamInv, Genuine
  <2>. HIDE DEF s
  <2>5. Len(s) = written[e]
    <3>1. Len(s) \in Nat
      BY <2>2, LenProperties
    <3>. QED BY <1>1, <2>4, <3>1 DEF Beginning
  <2>6. /\ Len(Append(s, Chunk(e, written[e] + 1))) = written[e] + 1
        /\ Beginning(e, Append(s, Chunk(e, written[e] + 1)), written[e] + 1, Closed(e)')
        /\ Len(Append(s, DefaultMessage)) = written[e] + 1
        /\ Closed(e)' => Beginning(e, Append(s, DefaultMessage), written[e], Closed(e)')
    BY <1>1, <2>2, <2>4, <2>5, BeginningGrows
  <2>7. Beginning(e, Append(s, c), written'[e], Closed(e)') /\ written'[e] <= Len(Append(s, c))
    <3>1. CASE c = Chunk(e, written[e] + 1) /\ written'[e] = written[e] + 1
      BY <1>1, <2>6, <3>1
    <3>2. CASE c = DefaultMessage /\ written'[e] = written[e] /\ Closed(e)'
      <4>1. Append(s, c) = Append(s, DefaultMessage) /\ written'[e] = written[e]
        BY <3>2
      <4>2. Beginning(e, Append(s, DefaultMessage), written[e], Closed(e)')
        BY <2>6, <3>2
      <4>. QED BY <1>1, <2>6, <4>1, <4>2
    <3>. QED BY <3>1, <3>2
  <2>8. callbackContextBuffer[e] = <<>> /\ readerPc'[e] # "copying"
    BY <1>6 DEF StreamInv
  <2>. QED BY <1>3, <1>4, <1>6, <2>3, <2>7, <2>8 DEF StreamInv, Genuine
<1>7. CASE ~(readerPc[e] \in {"opened", "reading"} /\ readerFile[e] # None)
  BY <1>3, <1>4, <1>5, <1>7 DEF StreamInv
<1>. QED BY <1>6, <1>7

\* The stream of an execution, after a step of Read.
LEMMA StreamRead ==
  ASSUME TypeInv, TypeInv', FileInv, FileInv', NEW e \in Executions, MetReader(e), StreamInv(e), Read(e)
  PROVE  StreamInv(e)'
<1>. USE DEF execute, reader, script, handler
<1>1. CASE ReadOpen(e)
  <2>1. Waiting(e) /\ (Waiting(e)' \/ readerPc'[e] = "opened")
    BY <1>1 DEF ReadOpen, Waiting, Opened, TypeInv
  <2>2. Closed(e) => Closed(e)'
    <3>1. pc' = pc \/ pc' = Woken(pc, file, path[PipePath(e)])
      BY <1>1 DEF ReadOpen
    <3>. QED BY <3>1 DEF Closed, Woken
  <2>. QED BY <1>1, <2>1, <2>2, StreamQuiet DEF ReadOpen
<1>2. CASE ReadOpened(e)
  <2>1. readerPc[e] = "opened" /\ readerPc'[e] = "reading"
    BY <1>2 DEF ReadOpened, TypeInv
  <2>. QED BY <1>2, <2>1 DEF ReadOpened, StreamInv, Waiting, Genuine, Closed
<1>3. CASE ReadData(e)
  <2>. DEFINE p == readerFile[e]
  <2>1. readerPc[e] = "reading" /\ p \in Pipes /\ p # None /\ readerPc' = readerPc /\ readerFile' = readerFile
    BY <1>3 DEF ReadData, TypeInv
  <2>2. received'[e] = received[e] \o data[p] /\ data'[p] = <<>>
    BY <1>3, <2>1 DEF ReadData, TypeInv
  <2>3. received'[e] \in Seq(Values)
    BY DEF TypeInv
  <2>4. received'[e] \o data'[p] = received[e] \o data[p]
    BY <2>2, <2>3, ConcatEmptySeq
  <2>5. /\ written' = written /\ pc' = pc /\ callbackContextBuffer' = callbackContextBuffer
        /\ callbackContext' = callbackContext
    BY <1>3 DEF ReadData
  <2>6. Closed(e)' = Closed(e) /\ ~Waiting(e)'
    BY <2>1, <2>5 DEF Closed, Waiting
  <2>. HIDE DEF p
  <2>7. /\ callbackContextBuffer[e] = <<>> /\ Beginning(e, received[e] \o data[p], written[e], Closed(e))
        /\ written[e] <= Len(received[e] \o data[p])
        /\ Genuine(e, callbackContextBuffer[e]) /\ Genuine(e, callbackContext[e])
    BY <2>1 DEF StreamInv, Genuine, p
  <2>. QED BY <2>1, <2>4, <2>5, <2>6, <2>7 DEF StreamInv, Genuine, p
<1>4. CASE ReadEnd(e)
  <2>1. readerPc[e] = "reading" /\ readerPc'[e] = "copying"
    BY <1>4 DEF ReadEnd, TypeInv
  <2>2. Genuine(e, received[e])
    <3>1. CASE readerFile[e] = None
      <4>1. received[e] = <<>>
        BY <2>1, <3>1 DEF StreamInv
      <4>. QED BY <4>1, NothingIsBeginning DEF Genuine, TypeInv
    <3>2. CASE readerFile[e] # None
      <4>1. data[readerFile[e]] = <<>>
        BY <1>4, <3>2 DEF ReadEnd
      <4>2. received[e] \o data[readerFile[e]] = received[e]
        BY <4>1, ConcatEmptySeq DEF TypeInv
      <4>. QED BY <2>1, <3>2, <4>2 DEF StreamInv
    <3>. QED BY <3>1, <3>2
  <2>3. callbackContextBuffer[e] = <<>> /\ Len(received[e]) \in Nat
    BY <2>1, LenProperties DEF StreamInv, TypeInv
  <2>4. /\ received' = received /\ callbackContextBuffer' = callbackContextBuffer
        /\ callbackContext' = callbackContext /\ written' = written /\ pc' = pc
    BY <1>4 DEF ReadEnd
  <2>5. Closed(e)' = Closed(e) /\ ~Waiting(e)'
    BY <2>1, <2>4 DEF Closed, Waiting
  <2>6. Genuine(e, callbackContextBuffer[e]) /\ Genuine(e, callbackContext[e])
    BY DEF StreamInv
  <2>7. Len(callbackContextBuffer[e]) = 0
    BY <2>3
  <2>. QED BY <2>1, <2>2, <2>3, <2>4, <2>5, <2>6, <2>7 DEF StreamInv, Genuine
<1>5. CASE Copy(e)
  <2>. DEFINE b == callbackContextBuffer[e]
              r == received[e]
  <2>1. b \in Seq(Values) /\ r \in Seq(Values) /\ written[e] \in Nat
    BY DEF TypeInv
  <2>2. Len(b) \in Nat /\ Len(r) \in Nat /\ Len(b) < Len(r) /\ readerPc[e] = "copying"
    BY <1>5, <2>1, LenProperties, PipeAssumption DEF Copy, CopyLength
  <2>3. callbackContextBuffer'[e] = Append(b, r[Len(b) + 1])
    BY <1>5 DEF Copy, TypeInv
  <2>4. Genuine(e, r) /\ \A i \in 1 .. Len(b) : b[i] = r[i]
    BY <2>2 DEF StreamInv
  <2>. DEFINE a == Append(b, r[Len(b) + 1])
  <2>5. a \in Seq(Values)
    BY <2>3 DEF TypeInv
  <2>6. /\ received' = received /\ readerPc' = readerPc /\ written' = written /\ pc' = pc
        /\ callbackContext' = callbackContext
    BY <1>5 DEF Copy
  <2>7. Genuine(e, callbackContext[e])
    BY DEF StreamInv
  <2>. HIDE DEF b, r
  <2>8. /\ Len(a) = Len(b) + 1 /\ \A i \in 1 .. Len(b) : a[i] = b[i]
        /\ a[Len(b) + 1] = r[Len(b) + 1]
    BY <2>1, <2>2
  <2>9. Len(a) <= Len(r) /\ \A i \in 1 .. Len(a) : a[i] = r[i]
    BY <2>2, <2>4, <2>8
  <2>. HIDE DEF a
  <2>10. Beginning(e, a, written[e], Closed(e))
    BY <2>1, <2>4, <2>5, <2>9, BeginningPrefix DEF Genuine
  <2>11. Closed(e)' = Closed(e) /\ ~Waiting(e)' /\ readerPc'[e] = "copying" /\ received'[e] = r
         /\ callbackContextBuffer'[e] = a
    BY <2>2, <2>3, <2>6 DEF Closed, Waiting, r, a
  <2>. QED BY <2>4, <2>6, <2>7, <2>9, <2>10, <2>11 DEF StreamInv, Genuine
<1>6. CASE Remove(e) \/ ReadReturn(e)
  <2>1. /\ readerPc'[e] \in {"closing", "done"} /\ written' = written /\ pc' = pc
        /\ callbackContextBuffer' = callbackContextBuffer /\ callbackContext' = callbackContext
    BY <1>6 DEF Remove, ReadReturn, TypeInv
  <2>. QED BY <2>1 DEF StreamInv, Waiting, Genuine, Closed
<1>. QED BY <1>1, <1>2, <1>3, <1>4, <1>5, <1>6 DEF Read

\* The stream of an execution, after a step of its script.
LEMMA StreamScript ==
  ASSUME TypeInv, TypeInv', FileInv, FileInv', NEW e \in Executions, ControlInv(e), Unique(e),
         OnePipe(e), MetReader(e), StreamInv(e), Script(e)
  PROVE  StreamInv(e)'
<1>. USE DEF execute, reader, script, handler
<1>1. CASE ScriptOpen(e)
  <2>1. readerPc' = readerPc \/ readerPc' = Woken(readerPc, readerFile, path[PipePath(e)])
    BY <1>1 DEF ScriptOpen
  <2>2. readerPc'[e] = readerPc[e] \/ (Waiting(e) /\ readerPc'[e] = "opened")
    BY <2>1 DEF Waiting, Woken
  <2>. QED BY <1>1, <2>2, StreamQuiet DEF ScriptOpen, Closed
<1>2. CASE ScriptWrite(e)
  <2>. DEFINE q == scriptFile[e]
              c == Chunk(e, written[e] + 1)
  <2>1. q \in Pipes /\ q # None /\ PipeOf(q, message[e]) /\ ~Closed(e) /\ ~Waiting(e)
    BY <1>2, NoneIsNoPipe DEF ScriptWrite, ControlInv, FileInv, OwnFile, TypeInv, Closed, MetReader
  <2>2. written'[e] = written[e] + 1 /\ c \in Values
    BY <1>2, ChunkIsValue DEF ScriptWrite, TypeInv
  <2>3. Write(q, c)
    BY <1>2, <2>2 DEF ScriptWrite
  <2>4. readerFile[e] # None => readerFile[e] = q
    BY <2>1 DEF OnePipe
  <2>5. Readers(q) # {} <=> readerFile[e] = q
    BY <2>1, OnlyActors
  <2>6. readerFile[e] # None => data'[readerFile[e]] = Append(data[readerFile[e]], c)
    BY <2>1, <2>2, <2>3, <2>4, <2>5, WriteType
  <2>. QED BY <1>2, <2>1, <2>2, <2>6, StreamWritten DEF ScriptWrite
<1>3. CASE ScriptClose(e) \/ ScriptExit(e)
  BY <1>3, StreamQuiet DEF ScriptClose, ScriptExit, Closed
<1>. QED BY <1>1, <1>2, <1>3 DEF Script

\* The stream of an execution, after a step of Execute.
LEMMA StreamExecute ==
  ASSUME TypeInv, TypeInv', FileInv, FileInv', NEW e \in Executions, ControlInv(e), Unique(e),
         OnePipe(e), MetReader(e), StreamInv(e), Execute(e)
  PROVE  StreamInv(e)'
<1>. USE DEF execute, reader, script, handler
<1>1. CASE CreatePipe(e)
  <2>1. Waiting(e) /\ Waiting(e)' /\ ~Closed(e)
    BY <1>1 DEF CreatePipe, ControlInv, Waiting, Closed, TypeInv
  <2>. QED BY <1>1, <2>1, StreamQuiet DEF CreatePipe
<1>2. CASE ClosePipe(e)
  <2>1. ~Closed(e)
    BY <1>2 DEF ClosePipe, Closed
  <2>. QED BY <1>2, <2>1, StreamQuiet DEF ClosePipe
<1>3. CASE ClosePipeOpen(e)
  <2>1. readerPc' = readerPc \/ readerPc' = Woken(readerPc, readerFile, path[PipePath(e)])
    BY <1>3 DEF ClosePipeOpen
  <2>2. readerPc'[e] = readerPc[e] \/ (Waiting(e) /\ readerPc'[e] = "opened")
    BY <2>1 DEF Waiting, Woken
  <2>3. ~Closed(e)
    BY <1>3 DEF ClosePipeOpen, Closed
  <2>. QED BY <1>3, <2>2, <2>3, StreamQuiet DEF ClosePipeOpen
<1>4. CASE ClosePipeWrite(e)
  <2>. DEFINE q == file[e]
  <2>1. q \in Pipes /\ q # None /\ PipeOf(q, message[e]) /\ ~Closed(e) /\ Closed(e)' /\ ~Waiting(e)
    BY <1>4, NoneIsNoPipe DEF ClosePipeWrite, ControlInv, FileInv, OwnFile, TypeInv, Closed, MetReader
  <2>2. Write(q, DefaultMessage) /\ DefaultMessage \in Values
    BY <1>4, DefaultIsValue DEF ClosePipeWrite
  <2>3. readerFile[e] # None => readerFile[e] = q
    BY <2>1 DEF OnePipe
  <2>4. Readers(q) # {} <=> readerFile[e] = q
    BY <2>1, OnlyActors
  <2>5. readerFile[e] # None => data'[readerFile[e]] = Append(data[readerFile[e]], DefaultMessage)
    BY <2>1, <2>2, <2>3, <2>4, WriteType
  <2>. QED BY <1>4, <2>1, <2>2, <2>5, StreamWritten DEF ClosePipeWrite
<1>5. CASE ExecuteReturn(e)
  <2>1. callbackContext'[e] = callbackContextBuffer[e] \/ callbackContext'[e] = <<>>
    BY <1>5 DEF ExecuteReturn, TypeInv
  <2>2. Closed(e) /\ Closed(e)'
    BY <1>5 DEF ExecuteReturn, Closed, TypeInv
  <2>3. Beginning(e, <<>>, written[e], Closed(e))
    BY NothingIsBeginning DEF TypeInv
  <2>4. Beginning(e, callbackContext'[e], written[e], Closed(e)')
    BY <2>1, <2>2, <2>3 DEF StreamInv, Genuine, Beginning
  <2>5. /\ message' = message /\ data' = data /\ received' = received /\ readerPc' = readerPc
        /\ readerFile' = readerFile /\ callbackContextBuffer' = callbackContextBuffer /\ written' = written
    BY <1>5 DEF ExecuteReturn
  <2>6. (\A p : PipeOf(p, message[e])' <=> PipeOf(p, message[e])) /\ Closed(e)' = Closed(e) /\ Waiting(e)' = Waiting(e)
    BY <2>2, <2>5 DEF PipeOf, Closed, Waiting
  <2>. QED BY <2>4, <2>5, <2>6 DEF StreamInv, Genuine
<1>. QED BY <1>1, <1>2, <1>3, <1>4, <1>5 DEF Execute

-----------------------------------------------------------------------------
(* The invariant *)

LEMMA InvInit == Init => IInv
<1>. SUFFICES ASSUME Init PROVE IInv
  OBVIOUS
<1>1. message \in [Executions -> Executions]
  <2>1. ASSUME NEW e \in Executions PROVE (CHOOSE f \in Executions : TRUE) \in Executions
    OBVIOUS
  <2>. QED BY <2>1 DEF Init
<1>2. \A m \in Executions : path[m] \in {None, <<Left, m>>}
  BY DEF Init
<1>3. \E left : path = [m \in Executions |-> IF m \in left THEN <<Left, m>> ELSE None]
  BY DEF Init
<1>4. path \in [Executions -> Pipes \cup {None}]
  BY <1>3 DEF Pipes
<1>5. <<>> \in Seq(Values)
  BY EmptySeq
<1>6. TypeInv
  BY <1>1, <1>4, <1>5 DEF Init, TypeInv
<1>7. FileInv
  BY <1>2 DEF Init, FileInv, OwnFile, PipeOf
<1>8. MessageInv
  BY DEF Init, MessageInv, OfMessage
<1>9. ASSUME NEW e \in Executions PROVE ControlInv(e) /\ OnePipe(e) /\ MetReader(e)
  BY DEF Init, ControlInv, OnePipe, MetReader, Waiting
<1>10. ASSUME NEW e \in Executions PROVE StreamInv(e)
  <2>1. Beginning(e, <<>>, written[e], Closed(e))
    BY NothingIsBeginning DEF Init
  <2>2. readerPc[e] = "off" /\ received[e] = <<>> /\ callbackContextBuffer[e] = <<>> /\ callbackContext[e] = <<>>
        /\ \A p \in Pipes : data[p] = <<>>
    BY DEF Init
  <2>. QED BY <2>1, <2>2 DEF StreamInv, Genuine
<1>. QED BY <1>6, <1>7, <1>8, <1>9, <1>10 DEF IInv, UniqueInv, UniqueOne

LEMMA NextInv == IInv /\ [Next]_vars => IInv'
<1>. SUFFICES ASSUME IInv, [Next]_vars PROVE IInv'
  OBVIOUS
<1>1. ASSUME NEW e \in Executions, Read(e) \/ Script(e) \/ Execute(e) PROVE IInv'
  <2>1. TypeInv /\ FileInv /\ MessageInv /\ ControlInv(e)
    BY DEF IInv
  <2>2. TypeInv'
    BY <1>1, <2>1, TypeRead, TypeScript, TypeExecute
  <2>3. FileInv' /\ message' = message
    BY <1>1, <2>1, FileStep
  <2>4. MessageInv'
    BY <1>1, <2>1, MessageStep
  <2>5. \A d \in Executions : ControlInv(d)'
    BY <1>1, <2>1, ControlStep DEF IInv
  <2>6. ASSUME NEW d \in Executions, Unique(d) PROVE UniqueOne(d)'
    <3>0. UniqueOne(d)
      BY <2>6 DEF IInv, UniqueInv
    <3>1. CASE d # e
      <4>1. message[d] # message[e]
        BY <2>6, <3>1 DEF Unique
      <4>. QED BY <1>1, <2>1, <3>0, <4>1, OthersUnique
    <3>2. CASE d = e
      <4>1. Unique(e) /\ OnePipe(e) /\ MetReader(e) /\ StreamInv(e)
        BY <2>6, <3>0, <3>2 DEF UniqueOne
      <4>2. OnePipe(e)'
        BY <1>1, <2>1, <2>3, <4>1, OnePipeStep
      <4>3. MetReader(e)'
        BY <1>1, <2>1, <4>1, MetReaderStep
      <4>4. StreamInv(e)'
        BY <1>1, <2>1, <2>2, <2>3, <4>1, StreamRead, StreamScript, StreamExecute
      <4>. QED BY <3>2, <4>2, <4>3, <4>4 DEF UniqueOne
    <3>. QED BY <3>1, <3>2
  <2>7. \A d \in Executions : Unique(d)' => Unique(d)
    BY <2>3 DEF Unique
  <2>. QED BY <2>2, <2>3, <2>4, <2>5, <2>6, <2>7 DEF IInv, UniqueInv
<1>2. CASE UNCHANGED vars
  BY <1>2 DEF IInv, vars, execute, reader, script, handler, TypeInv, FileInv, OwnFile, PipeOf, MessageInv,
     OfMessage, ControlInv, UniqueInv, UniqueOne, Unique, OnePipe, MetReader, Waiting, StreamInv, Genuine, Closed
<1>. QED BY <1>1, <1>2 DEF Next

(* The pipes, the readers and the scripts stay in order, whatever the order   *)
(* in which Execute, Read and the script of callback_context_handler_unix.go  *)
(* and executor.go take their steps.                                          *)
THEOREM PipeInvariant == Spec => []IInv
<1>1. Init => IInv
  BY InvInit
<1>2. IInv /\ [Next]_vars => IInv'
  BY NextInv
<1>. QED BY <1>1, <1>2, PTL DEF Spec

\* A beginning, as an initial part of the whole.
LEMMA BeginningIsPrefix ==
  ASSUME NEW e \in Executions, NEW s \in Seq(Values), NEW w \in Nat, NEW closed, Beginning(e, s, w, closed)
  PROVE  LET complete == Append([n \in 1 .. w |-> Chunk(e, n)], DefaultMessage)
         IN  \E n \in 0 .. Len(complete) : s = SubSeq(complete, 1, n)
<1>. DEFINE chunks == [n \in 1 .. w |-> Chunk(e, n)]
            complete == Append(chunks, DefaultMessage)
            prefix == SubSeq(complete, 1, Len(s))
<1>1. chunks \in Seq(Values) /\ Len(chunks) = w /\ \A i \in 1 .. w : chunks[i] = Chunk(e, i)
  <2>1. \A n \in 1 .. w : Chunk(e, n) \in Values
    BY ChunkIsValue
  <2>. QED BY <2>1
<1>. HIDE DEF chunks
<1>2. /\ complete \in Seq(Values) /\ Len(complete) = w + 1
      /\ \A i \in 1 .. w : complete[i] = Chunk(e, i)
      /\ complete[w + 1] = DefaultMessage
  BY <1>1, DefaultIsValue, AppendProperties
<1>. HIDE DEF complete
<1>3. Len(s) \in Nat /\ Len(s) <= w + 1
  BY LenProperties DEF Beginning
<1>4. /\ prefix \in Seq(Values) /\ Len(prefix) = Len(s)
      /\ \A i \in 1 .. Len(s) : prefix[i] = complete[i]
  BY <1>2, <1>3
<1>. HIDE DEF prefix
<1>5. ASSUME NEW i \in 1 .. Len(s) PROVE s[i] = prefix[i]
  <2>1. s[i] = IF i <= w THEN Chunk(e, i) ELSE DefaultMessage
    BY DEF Beginning
  <2>2. i \in 1 .. w \/ (i = w + 1 /\ ~(i <= w))
    BY <1>3
  <2>. QED BY <1>2, <1>4, <2>1, <2>2
<1>6. s = prefix
  BY <1>4, <1>5, SeqEqual
<1>7. Len(s) \in 0 .. Len(complete) /\ s = SubSeq(complete, 1, Len(s))
  BY <1>2, <1>3, <1>6 DEF prefix
<1>. QED BY <1>7 DEF complete, chunks

(* The callback context that Execute returns is the beginning of what the     *)
(* script wrote, and the default message only at the end of all of it; with   *)
(* two executions of a message it is at least from that message.              *)
THEOREM PipeContextGenuine == Spec => []ContextGenuine
<1>1. IInv => ContextGenuine
  <2>. SUFFICES ASSUME IInv, NEW e \in Executions
       PROVE  LET context  == callbackContext[e]
                  complete == Append([n \in 1 .. written[e] |-> Chunk(e, n)], DefaultMessage)
              IN /\ Unique(e) => \E n \in 0 .. Len(complete) : context = SubSeq(complete, 1, n)
                 /\ \A i \in 1 .. Len(context) : context[i] = DefaultMessage \/ message[context[i].from] = message[e]
    BY DEF ContextGenuine
  <2>1. callbackContext[e] \in Seq(Values) /\ written[e] \in Nat
    BY DEF IInv, TypeInv
  <2>2. OfMessage(callbackContext[e], message[e])
    BY DEF IInv, MessageInv
  <2>3. ASSUME Unique(e)
        PROVE  LET complete == Append([n \in 1 .. written[e] |-> Chunk(e, n)], DefaultMessage)
               IN  \E n \in 0 .. Len(complete) : callbackContext[e] = SubSeq(complete, 1, n)
    <3>1. Beginning(e, callbackContext[e], written[e], Closed(e))
      BY <2>3 DEF IInv, UniqueInv, UniqueOne, StreamInv, Genuine
    <3>. QED BY <2>1, <3>1, BeginningIsPrefix
  <2>. QED BY <2>2, <2>3 DEF OfMessage
<1>. QED BY <1>1, PipeInvariant, PTL

-----------------------------------------------------------------------------
(* Who stays blocked *)

\* More of where the actors of an execution are, and how far Read has copied.
PlaceInv(e) ==
  /\ readerPc[e] = "off" \/ scriptPc[e] = "off" => pc[e] = "create"
  /\ file[e] # None => pc[e] \in {"blocked", "opened"}
  /\ Waiting(e) => ~pipeOpenedByScript[e]
  /\ readerPc[e] \notin {"copying", "closing", "done"} => callbackContextBuffer[e] = <<>>
  /\ readerPc[e] = "copying" => Len(callbackContextBuffer[e]) <= CopyLength(e)

\* Nobody has opened a pipe before it was created.
FreshInv(e) ==
  pc[e] = "create" => path[message[e]] # e /\ \A d \in Executions : readerFile[d] # e

\* A blocked writer waits on what is at the path.
BlockedInv(e) ==
  /\ scriptPc[e] = "blocked" => path[message[e]] = scriptFile[e] /\ Readers(scriptFile[e]) = {}
  /\ pc[e] = "blocked" => path[message[e]] = file[e] /\ Readers(file[e]) = {}

(* What is at the path has a reader or will have one, and Read removes only   *)
(* what it has read: a new pipe appears only when everybody who started       *)
(* before has removed the old one.                                            *)
PathInv(e) ==
  /\ path[message[e]] # None => \/ Readers(path[message[e]]) # {}
                                \/ \E f \in Executions : message[f] = message[e] /\ readerPc[f] \in {"off", "start"}
  /\ readerPc[e] \in {"blocked", "opened", "reading", "copying"} => path[message[e]] \in {readerFile[e], None}
  /\ readerPc[e] = "closing" => readerFile[e] = None \/ path[message[e]] # readerFile[e]
  /\ message[e] \notin creatable => path[message[e]] = None
  /\ message[e] \in creatable /\ readerPc[e] = "off" /\ path[message[e]] = None =>
       \A d \in Executions : message[d] = message[e] => readerPc[d] \in {"off", "closing", "done"}

\* Without another execution, Read will open what a writer waits on, and ClosePipe what Read waits on.
AloneInv(e) ==
  /\ scriptPc[e] = "blocked" \/ pc[e] = "blocked" => readerPc[e] = "start"
  /\ readerPc[e] = "blocked" => path[message[e]] = readerFile[e] /\ pc[e] \in {"run", "open"}
  /\ readerPc[e] = "start" /\ path[message[e]] # None => pc[e] \in {"run", "open", "blocked"}

EndInv == \A e \in Executions :
  /\ PlaceInv(e) /\ FreshInv(e)
  /\ Few(e) => BlockedInv(e) /\ PathInv(e)
  /\ Unique(e) => AloneInv(e)

LEMMA UniqueIsFew ==
  ASSUME NEW e \in Executions, Unique(e)
  PROVE  Few(e)
BY DEF Unique, Few

\* What follows from the invariant where nobody can go on.
LEMMA StuckHasEnded == IInv /\ EndInv => NobodyLeftBlocked
<1>. SUFFICES ASSUME IInv, EndInv, NEW e \in Executions, Few(e),
                     \A f \in Executions : message[f] = message[e] => ~Ready(f)
     PROVE  pc[e] = "returned" /\ readerPc[e] \in IF Unique(e) THEN {"done"} ELSE {"done", "blocked"}
  BY DEF NobodyLeftBlocked
<1>1. \A f \in Executions : ControlInv(f) /\ PlaceInv(f)
  BY DEF IInv, EndInv
<1>2. ~Ready(e) /\ ControlInv(e) /\ PlaceInv(e) /\ BlockedInv(e) /\ PathInv(e)
  BY <1>1 DEF EndInv
<1>3. scriptPc[e] # "blocked" /\ pc[e] # "blocked"
  <2>1. \A f \in Executions : message[f] = message[e] => readerPc[f] \notin {"off", "start"}
    BY <1>1 DEF Ready, PlaceInv
  <2>2. path[message[e]] # None => Readers(path[message[e]]) # {}
    BY <1>2, <2>1 DEF PathInv
  <2>. QED BY <1>2, <2>2 DEF BlockedInv, ControlInv
<1>4. pc[e] = "returned"
  BY <1>2, <1>3 DEF Ready, PlaceInv, IInv, TypeInv
<1>5. readerPc[e] \in {"done", "blocked", "reading"}
  BY <1>2, <1>4 DEF Ready, PlaceInv, IInv, TypeInv
<1>6. readerPc[e] # "reading"
  <2>. SUFFICES ASSUME readerPc[e] = "reading" PROVE FALSE
    OBVIOUS
  <2>1. readerFile[e] # None /\ ~NoWriter(readerFile[e])
    BY <1>2 DEF Ready
  <2>2. PICK w \in Executions : file[w] = readerFile[e] \/ scriptFile[w] = readerFile[e]
    BY <2>1 DEF NoWriter
  <2>3. message[w] = message[e]
    BY <2>1, <2>2, PipeOfOne DEF IInv, FileInv, OwnFile, TypeInv
  <2>4. Few(w) /\ ~Ready(w) /\ ControlInv(w) /\ PlaceInv(w)
    BY <1>1, <2>3 DEF Few
  <2>5. BlockedInv(w)
    BY <2>4 DEF EndInv
  <2>6. \/ pc[w] = "blocked" /\ file[w] = readerFile[e]
        \/ scriptPc[w] = "blocked" /\ scriptFile[w] = readerFile[e]
    BY <2>1, <2>2, <2>4 DEF Ready, ControlInv, PlaceInv
  <2>7. Readers(readerFile[e]) = {}
    BY <2>5, <2>6 DEF BlockedInv
  <2>. QED BY <2>7 DEF Readers
<1>7. Unique(e) => readerPc[e] # "blocked"
  BY <1>4 DEF EndInv, AloneInv
<1>. QED BY <1>4, <1>5, <1>6, <1>7

LEMMA PlaceStep ==
  ASSUME TypeInv, NEW e \in Executions, Read(e) \/ Script(e) \/ Execute(e),
         NEW d \in Executions, ControlInv(d), PlaceInv(d)
  PROVE  PlaceInv(d)'
<1>. USE DEF TypeInv, ControlInv, PlaceInv, Waiting, execute, reader, script, handler
<1>1. CASE ReadOpen(e)
  <2>1. /\ \/ pc'[d] = pc[d] \/ (pc[d] = "blocked" /\ pc'[d] = "opened")
        /\ \/ scriptPc'[d] = scriptPc[d] \/ (scriptPc[d] = "blocked" /\ scriptPc'[d] = "opened")
    BY <1>1 DEF ReadOpen, Woken
  <2>2. \/ readerPc'[d] = readerPc[d]
        \/ readerPc[d] = "start" /\ readerPc'[d] \in {"blocked", "opened"}
    BY <1>1 DEF ReadOpen, Opened
  <2>3. file' = file /\ callbackContextBuffer' = callbackContextBuffer /\ pipeOpenedByScript' = pipeOpenedByScript
        /\ CopyLength(d)' = CopyLength(d)
    BY <1>1 DEF ReadOpen, CopyLength
  <2>. QED BY <2>1, <2>2, <2>3
<1>2. CASE ReadOpened(e)
  <2>1. CopyLength(d)' = CopyLength(d)
    BY <1>2 DEF ReadOpened, CopyLength
  <2>. QED BY <1>2, <2>1 DEF ReadOpened
<1>3. CASE ReadData(e)
  <2>1. readerPc[e] = "reading" /\ (d # e => CopyLength(d)' = CopyLength(d))
    BY <1>3 DEF ReadData, CopyLength
  <2>. QED BY <1>3, <2>1 DEF ReadData
<1>4. CASE ReadEnd(e)
  <2>1. CopyLength(d)' = CopyLength(d) /\ CopyLength(d) \in Nat
    BY <1>4, LenProperties, PipeAssumption DEF ReadEnd, CopyLength
  <2>2. callbackContextBuffer[d] = <<>> => Len(callbackContextBuffer[d]) = 0
    OBVIOUS
  <2>. QED BY <1>4, <2>1, <2>2 DEF ReadEnd
<1>5. CASE Copy(e)
  <2>1. CopyLength(d)' = CopyLength(d)
    BY <1>5 DEF Copy, CopyLength
  <2>2. d # e => callbackContextBuffer'[d] = callbackContextBuffer[d]
    BY <1>5 DEF Copy
  <2>3. d = e => Len(callbackContextBuffer'[d]) <= CopyLength(d)
    <3>1. Len(callbackContextBuffer[e]) < CopyLength(e) /\ Len(callbackContextBuffer[e]) \in Nat
      BY <1>5, LenProperties DEF Copy
    <3>2. CopyLength(e) \in Nat
      BY LenProperties, PipeAssumption DEF CopyLength
    <3>3. callbackContextBuffer'[e] = Append(callbackContextBuffer[e], received[e][Len(callbackContextBuffer[e]) + 1])
      BY <1>5 DEF Copy
    <3>4. Len(callbackContextBuffer'[e]) = Len(callbackContextBuffer[e]) + 1
      BY <3>3
    <3>. QED BY <3>1, <3>2, <3>4
  <2>4. readerPc' = readerPc /\ scriptPc' = scriptPc /\ pc' = pc /\ file' = file
        /\ pipeOpenedByScript' = pipeOpenedByScript /\ readerPc[e] = "copying"
    BY <1>5 DEF Copy
  <2>. QED BY <2>1, <2>2, <2>3, <2>4
<1>6. CASE Remove(e) \/ ReadReturn(e)
  <2>1. d # e => CopyLength(d)' = CopyLength(d)
    BY <1>6 DEF Remove, ReadReturn, CopyLength
  <2>. QED BY <1>6, <2>1 DEF Remove, ReadReturn
<1>7. CASE ScriptOpen(e)
  <2>1. readerPc'[d] = readerPc[d] \/ (readerPc[d] = "blocked" /\ readerPc'[d] = "opened")
    BY <1>7 DEF ScriptOpen, Woken
  <2>2. scriptPc'[d] = scriptPc[d] \/ scriptPc'[d] \in {"blocked", "opened"}
    BY <1>7 DEF ScriptOpen, Opened
  <2>3. /\ file' = file /\ pc' = pc /\ callbackContextBuffer' = callbackContextBuffer
        /\ pipeOpenedByScript' = pipeOpenedByScript /\ CopyLength(d)' = CopyLength(d)
    BY <1>7 DEF ScriptOpen, CopyLength
  <2>. QED BY <2>1, <2>2, <2>3
<1>8. CASE ScriptWrite(e) \/ ScriptClose(e) \/ ScriptExit(e)
  <2>1. CopyLength(d)' = CopyLength(d)
    BY <1>8 DEF ScriptWrite, ScriptClose, ScriptExit, CopyLength
  <2>. QED BY <1>8, <2>1 DEF ScriptWrite, ScriptClose, ScriptExit
<1>9. CASE CreatePipe(e) \/ ClosePipe(e) \/ ClosePipeWrite(e) \/ ExecuteReturn(e)
  <2>1. CopyLength(d)' = CopyLength(d)
    BY <1>9 DEF CreatePipe, ClosePipe, ClosePipeWrite, ExecuteReturn, CopyLength
  <2>. QED BY <1>9, <2>1 DEF CreatePipe, ClosePipe, ClosePipeWrite, ExecuteReturn
<1>10. CASE ClosePipeOpen(e)
  <2>1. readerPc'[d] = readerPc[d] \/ (readerPc[d] = "blocked" /\ readerPc'[d] = "opened")
    BY <1>10 DEF ClosePipeOpen, Woken
  <2>2. /\ pc[e] = "open" /\ file'[e] # None => pc'[e] \in {"blocked", "opened"}
        /\ pc'[e] \in {"blocked", "opened", "return"}
    BY <1>10 DEF ClosePipeOpen, Opened
  <2>3. /\ scriptPc' = scriptPc /\ callbackContextBuffer' = callbackContextBuffer
        /\ pipeOpenedByScript' = pipeOpenedByScript /\ CopyLength(d)' = CopyLength(d)
        /\ d # e => pc'[d] = pc[d] /\ file'[d] = file[d]
    BY <1>10 DEF ClosePipeOpen, CopyLength
  <2>4. pc[e] = "open"
    BY <1>10 DEF ClosePipeOpen
  <2>. QED BY <2>1, <2>2, <2>3, <2>4
<1>. QED BY <1>1, <1>2, <1>3, <1>4, <1>5, <1>6, <1>7, <1>8, <1>9, <1>10 DEF Read, Script, Execute

\* What a step does to the path and to the files of readers.
LEMMA PathStep ==
  ASSUME TypeInv, NEW e \in Executions, Read(e) \/ Script(e) \/ Execute(e)
  PROVE  /\ \A m \in Executions \ {message[e]} : path'[m] = path[m]
         /\ \/ path'[message[e]] = path[message[e]]
            \/ Remove(e) /\ path'[message[e]] = None
            \/ /\ CreatePipe(e) /\ path[message[e]] = None /\ message[e] \in creatable
               /\ path'[message[e]] = e
         /\ CreatePipe(e) /\ path[message[e]] = None /\ message[e] \in creatable => path'[message[e]] = e
         /\ \A d \in Executions \ {e} : readerFile'[d] = readerFile[d]
         /\ \/ readerFile'[e] = readerFile[e]
            \/ ReadOpen(e) /\ readerFile'[e] = path[message[e]]
            \/ ReadReturn(e) /\ readerFile'[e] = None
         /\ creatable' = creatable
         /\ \A d \in Executions : pc'[d] = "create" => pc[d] = "create" /\ ~(CreatePipe(e) /\ d = e)
<1>. USE DEF execute, reader, script, handler
<1>0. message[e] \in Executions
  BY DEF TypeInv
<1>1. /\ path' = path \/ (Remove(e) /\ path' = [path EXCEPT ![message[e]] = None])
         \/ (CreatePipe(e) /\ path' = [path EXCEPT ![message[e]] =
                IF path[message[e]] = None /\ message[e] \in creatable THEN e ELSE path[message[e]]])
      /\ CreatePipe(e) => path' = [path EXCEPT ![message[e]] =
                IF path[message[e]] = None /\ message[e] \in creatable THEN e ELSE path[message[e]]]
  BY DEF Read, ReadOpen, ReadOpened, ReadData, ReadEnd, Copy, Remove, ReadReturn, PipePath,
         Script, ScriptOpen, ScriptWrite, ScriptClose, ScriptExit,
         Execute, CreatePipe, ClosePipe, ClosePipeOpen, ClosePipeWrite, ExecuteReturn
<1>2. \/ readerFile' = readerFile
      \/ ReadOpen(e) /\ readerFile' = [readerFile EXCEPT ![e] = path[message[e]]]
      \/ ReadReturn(e) /\ readerFile' = [readerFile EXCEPT ![e] = None]
  BY DEF Read, ReadOpen, ReadOpened, ReadData, ReadEnd, Copy, Remove, ReadReturn, PipePath,
         Script, ScriptOpen, ScriptWrite, ScriptClose, ScriptExit,
         Execute, CreatePipe, ClosePipe, ClosePipeOpen, ClosePipeWrite, ExecuteReturn
<1>3. creatable' = creatable
  BY DEF Read, ReadOpen, ReadOpened, ReadData, ReadEnd, Copy, Remove, ReadReturn,
         Script, ScriptOpen, ScriptWrite, ScriptClose, ScriptExit,
         Execute, CreatePipe, ClosePipe, ClosePipeOpen, ClosePipeWrite, ExecuteReturn
<1>4. \A d \in Executions : pc'[d] = "create" => pc[d] = "create" /\ ~(CreatePipe(e) /\ d = e)
  <2>1. CASE Read(e) \/ Script(e)
    <3>1. pc' = pc \/ pc' = Woken(pc, file, path[PipePath(e)])
      BY <2>1 DEF Read, ReadOpen, ReadOpened, ReadData, ReadEnd, Copy, Remove, ReadReturn,
             Script, ScriptOpen, ScriptWrite, ScriptClose, ScriptExit
    <3>2. ~(CreatePipe(e))
      <4>1. CreatePipe(e) => pc'[e] = "run" /\ pc[e] = "create"
        BY DEF CreatePipe, TypeInv
      <4>. QED BY <3>1, <4>1 DEF Woken
    <3>. QED BY <3>1, <3>2 DEF Woken
  <2>2. CASE Execute(e)
    BY <2>2 DEF Execute, CreatePipe, ClosePipe, ClosePipeOpen, ClosePipeWrite, ExecuteReturn, Opened, TypeInv
  <2>. QED BY <2>1, <2>2
<1>5. /\ \A m \in Executions \ {message[e]} : path'[m] = path[m]
      /\ \/ path'[message[e]] = path[message[e]]
         \/ Remove(e) /\ path'[message[e]] = None
         \/ /\ CreatePipe(e) /\ path[message[e]] = None /\ message[e] \in creatable
            /\ path'[message[e]] = e
      /\ CreatePipe(e) /\ path[message[e]] = None /\ message[e] \in creatable => path'[message[e]] = e
  BY <1>0, <1>1 DEF TypeInv
<1>6. /\ \A d \in Executions \ {e} : readerFile'[d] = readerFile[d]
      /\ \/ readerFile'[e] = readerFile[e]
         \/ ReadOpen(e) /\ readerFile'[e] = path[message[e]]
         \/ ReadReturn(e) /\ readerFile'[e] = None
  BY <1>2 DEF TypeInv
<1>. QED BY <1>3, <1>4, <1>5, <1>6

LEMMA FreshStep ==
  ASSUME TypeInv, FileInv, NEW e \in Executions, Read(e) \/ Script(e) \/ Execute(e),
         NEW d \in Executions, FreshInv(d)
  PROVE  FreshInv(d)'
<1>0. message' = message
  BY FileStep
<1>. SUFFICES ASSUME pc'[d] = "create"
     PROVE  path'[message[d]] # d /\ \A f \in Executions : readerFile'[f] # d
  BY <1>0 DEF FreshInv
<1>1. /\ pc[d] = "create" /\ ~(CreatePipe(e) /\ d = e) /\ path[message[d]] # d
      /\ \A f \in Executions : readerFile[f] # d
  BY PathStep DEF FreshInv
<1>2. message[d] \in Executions /\ message[e] \in Executions /\ d # None
  BY PipeAssumption DEF TypeInv
<1>3. path'[message[d]] # d
  <2>1. CASE message[d] # message[e]
    BY <1>1, <1>2, <2>1, PathStep
  <2>2. CASE message[d] = message[e]
    BY <1>1, <1>2, <2>2, PathStep
  <2>. QED BY <2>1, <2>2
<1>4. path[message[e]] # d
  <2>1. path[message[e]] = d => message[d] = message[e]
    <3>1. OwnFile(path[message[e]], message[e])
      BY <1>2 DEF FileInv
    <3>2. d # <<Left, message[e]>>
      BY <1>2, PipeAssumption
    <3>. QED BY <1>2, <3>1, <3>2 DEF OwnFile, PipeOf
  <2>. QED BY <1>1, <2>1
<1>5. \A f \in Executions : readerFile'[f] # d
  BY <1>1, <1>2, <1>4, PathStep
<1>. QED BY <1>3, <1>5

\* The readers of a pipe of another message stay.
LEMMA ReadersAlone ==
  ASSUME TypeInv, FileInv, NEW e \in Executions, Read(e) \/ Script(e) \/ Execute(e),
         NEW m \in Executions, m # message[e], NEW p, p # None, OwnFile(p, m)
  PROVE  Readers(p)' = Readers(p)
<1>1. FileInv' /\ message' = message
  BY FileStep
<1>2. OwnFile(readerFile[e], message[e]) /\ OwnFile(readerFile[e], message[e])' /\ message[e] \in Executions
  BY <1>1 DEF FileInv, TypeInv
<1>3. OwnFile(readerFile'[e], message[e])
  BY <1>1, <1>2 DEF OwnFile, PipeOf
<1>4. readerFile[e] # p /\ readerFile'[e] # p
  BY <1>2, <1>3, PipeOfOne DEF OwnFile
<1>5. \A d \in Executions : readerFile'[d] = p <=> readerFile[d] = p
  BY <1>4, PathStep
<1>. QED BY <1>5 DEF Readers

LEMMA OthersEnd ==
  ASSUME TypeInv, FileInv, NEW e \in Executions, ControlInv(e), Read(e) \/ Script(e) \/ Execute(e),
         NEW d \in Executions, message[d] # message[e], ControlInv(d)
  PROVE  /\ BlockedInv(d) /\ PathInv(d) => BlockedInv(d)' /\ PathInv(d)'
         /\ AloneInv(d) => AloneInv(d)'
<1>0. message' = message /\ message[d] \in Executions /\ creatable' = creatable
  BY FileStep, PathStep DEF TypeInv
<1>1. \A f \in Executions : message[f] = message[d] =>
        /\ pc'[f] = pc[f] /\ file'[f] = file[f] /\ readerPc'[f] = readerPc[f] /\ readerFile'[f] = readerFile[f]
        /\ scriptPc'[f] = scriptPc[f] /\ scriptFile'[f] = scriptFile[f]
  BY OthersAlone
<1>2. path'[message[d]] = path[message[d]]
  BY OthersAlone
<1>3. AloneInv(d) => AloneInv(d)'
  BY <1>0, <1>1, <1>2 DEF AloneInv
<1>4. ASSUME BlockedInv(d) PROVE BlockedInv(d)'
  <2>1. scriptPc[d] = "blocked" => Readers(scriptFile[d])' = {}
    <3>. SUFFICES ASSUME scriptPc[d] = "blocked" PROVE Readers(scriptFile[d])' = {}
      OBVIOUS
    <3>1. scriptFile[d] # None /\ OwnFile(scriptFile[d], message[d]) /\ Readers(scriptFile[d]) = {}
      BY <1>4 DEF ControlInv, FileInv, BlockedInv
    <3>2. \A f \in Executions : readerFile'[f] # scriptFile[d]
      <4>. DEFINE p == scriptFile[d]
      <4>1. p # None /\ OwnFile(p, message[d]) /\ Readers(p) = {}
        BY <3>1
      <4>. HIDE DEF p
      <4>2. {f \in Executions : readerFile'[f] = p} = {f \in Executions : readerFile[f] = p}
        BY <1>0, <4>1, ReadersAlone DEF Readers
      <4>. QED BY <4>1, <4>2 DEF Readers, p
    <3>. QED BY <1>1, <3>2 DEF Readers
  <2>2. pc[d] = "blocked" => Readers(file[d])' = {}
    <3>. SUFFICES ASSUME pc[d] = "blocked" PROVE Readers(file[d])' = {}
      OBVIOUS
    <3>1. file[d] # None /\ OwnFile(file[d], message[d]) /\ Readers(file[d]) = {}
      BY <1>4 DEF ControlInv, FileInv, BlockedInv
    <3>2. \A f \in Executions : readerFile'[f] # file[d]
      <4>. DEFINE p == file[d]
      <4>1. p # None /\ OwnFile(p, message[d]) /\ Readers(p) = {}
        BY <3>1
      <4>. HIDE DEF p
      <4>2. {f \in Executions : readerFile'[f] = p} = {f \in Executions : readerFile[f] = p}
        BY <1>0, <4>1, ReadersAlone DEF Readers
      <4>. QED BY <4>1, <4>2 DEF Readers, p
    <3>. QED BY <1>1, <3>2 DEF Readers
  <2>. QED BY <1>0, <1>1, <1>2, <1>4, <2>1, <2>2 DEF BlockedInv
<1>5. ASSUME PathInv(d) PROVE PathInv(d)'
  <2>. DEFINE p == path[message[d]]
  <2>1. p # None /\ Readers(p) # {} => Readers(path[message[d]])' # {}
    <3>. SUFFICES ASSUME p # None, Readers(p) # {} PROVE Readers(path[message[d]])' # {}
      OBVIOUS
    <3>1. OwnFile(p, message[d])
      BY <1>0 DEF FileInv
    <3>. HIDE DEF p
    <3>2. {f \in Executions : readerFile'[f] = p} = {f \in Executions : readerFile[f] = p}
      BY <1>0, <3>1, ReadersAlone DEF Readers
    <3>. QED BY <1>0, <1>2, <3>2 DEF Readers, p
  <2>2. p # None => \/ Readers(path[message[d]])' # {}
                    \/ \E f \in Executions : message[f] = message[d] /\ readerPc'[f] \in {"off", "start"}
    BY <1>1, <1>5, <2>1 DEF PathInv
  <2>. HIDE DEF p
  <2>3. (path'[message'[d]] # None) =>
           \/ Readers(path[message[d]])' # {}
           \/ \E f \in Executions : message'[f] = message'[d] /\ readerPc'[f] \in {"off", "start"}
    BY <1>0, <1>2, <2>2 DEF p
  <2>. QED BY <1>0, <1>1, <1>2, <1>5, <2>3 DEF PathInv
<1>. QED BY <1>3, <1>4, <1>5

\* Which step takes a reader where.
LEMMA ReaderStep ==
  ASSUME TypeInv, NEW e \in Executions, Read(e) \/ Script(e) \/ Execute(e), NEW d \in Executions
  PROVE  /\ readerPc'[d] = "off" => readerPc[d] = "off" /\ ~(CreatePipe(e) /\ d = e)
         /\ readerPc'[d] \in {"blocked", "opened", "reading", "copying"} =>
              readerPc[d] \in {"blocked", "opened", "reading", "copying"} \/ (ReadOpen(e) /\ d = e)
         /\ readerPc'[d] = "closing" => readerPc[d] = "closing" \/ (Remove(e) /\ d = e)
         /\ readerPc[d] \in {"off", "start"} => readerPc'[d] \in {"off", "start"} \/ (ReadOpen(e) /\ d = e)
         /\ readerPc[d] \in {"off", "closing", "done"} =>
              readerPc'[d] \in {"off", "closing", "done"} \/ (CreatePipe(e) /\ d = e)
         /\ Remove(e) => readerPc[e] = "copying" /\ readerPc'[e] = "closing"
         /\ ReadReturn(e) => readerPc[e] = "closing"
         /\ ReadOpen(e) => readerPc[e] = "start"
         /\ CreatePipe(e) => pc[e] = "create" /\ readerPc'[e] = "start"
<1>. USE DEF TypeInv, execute, reader, script, handler
<1>1. /\ Remove(e) => readerPc[e] = "copying" /\ readerPc'[e] = "closing"
      /\ ReadReturn(e) => readerPc[e] = "closing"
      /\ ReadOpen(e) => readerPc[e] = "start"
      /\ CreatePipe(e) => pc[e] = "create" /\ readerPc'[e] = "start"
  BY DEF Remove, ReadReturn, ReadOpen, CreatePipe
<1>2. CASE Read(e)
  <2>1. ~CreatePipe(e) \/ readerPc'[e] = "start"
    BY <1>1
  <2>2. readerPc'[e] # "start" /\ (d # e => readerPc'[d] = readerPc[d])
    BY <1>2 DEF Read, ReadOpen, ReadOpened, ReadData, ReadEnd, Copy, Remove, ReadReturn, Opened
  <2>3. \/ ReadOpen(e) /\ readerPc[e] = "start" /\ readerPc'[e] \in {"blocked", "opened"}
        \/ readerPc[e] \in {"blocked", "opened", "reading", "copying"}
           /\ readerPc'[e] \in {"blocked", "opened", "reading", "copying"}
        \/ Remove(e)
        \/ readerPc[e] = "closing" /\ readerPc'[e] = "done"
    BY <1>2 DEF Read, ReadOpen, ReadOpened, ReadData, ReadEnd, Copy, ReadReturn, Opened
  <2>. QED BY <1>1, <2>1, <2>2, <2>3
<1>3. CASE Script(e) \/ ClosePipe(e) \/ ClosePipeOpen(e) \/ ClosePipeWrite(e) \/ ExecuteReturn(e)
  <2>1. readerPc' = readerPc \/ readerPc' = Woken(readerPc, readerFile, path[message[e]])
    BY <1>3 DEF Script, ScriptOpen, ScriptWrite, ScriptClose, ScriptExit, ClosePipe, ClosePipeOpen,
                ClosePipeWrite, ExecuteReturn, PipePath
  <2>2. readerPc'[d] = readerPc[d] \/ (readerPc[d] = "blocked" /\ readerPc'[d] = "opened")
    BY <2>1 DEF Woken
  <2>3. ~CreatePipe(e)
    <3>1. pc[e] = "create" => Script(e)
      BY <1>3 DEF ClosePipe, ClosePipeOpen, ClosePipeWrite, ExecuteReturn
    <3>2. Script(e) => pc' = pc
      BY DEF Script, ScriptOpen, ScriptWrite, ScriptClose, ScriptExit
    <3>3. CreatePipe(e) => pc[e] = "create" /\ pc'[e] = "run"
      BY DEF CreatePipe
    <3>. QED BY <3>1, <3>2, <3>3
  <2>. QED BY <1>1, <2>2, <2>3
<1>4. CASE CreatePipe(e)
  <2>1. readerPc' = [readerPc EXCEPT ![e] = "start"]
    BY <1>4 DEF CreatePipe
  <2>2. d # e => readerPc'[d] = readerPc[d]
    BY <2>1
  <2>. QED BY <1>1, <1>4, <2>2
<1>. QED BY <1>2, <1>3, <1>4 DEF Execute

\* Which step takes a writer where.
LEMMA WriterStep ==
  ASSUME TypeInv, NEW e \in Executions, Read(e) \/ Script(e) \/ Execute(e), NEW d \in Executions
  PROVE  LET p == path[message[e]] IN
         /\ scriptPc'[d] = "blocked" =>
              \/ /\ scriptPc[d] = "blocked" /\ scriptFile'[d] = scriptFile[d]
                 /\ ReadOpen(e) => p = None \/ scriptFile[d] # p
              \/ d = e /\ ScriptOpen(e) /\ p # None /\ scriptFile'[d] = p /\ Readers(p) = {}
         /\ pc'[d] = "blocked" =>
              \/ /\ pc[d] = "blocked" /\ file'[d] = file[d]
                 /\ ReadOpen(e) => p = None \/ file[d] # p
              \/ d = e /\ ClosePipeOpen(e) /\ p # None /\ file'[d] = p /\ Readers(p) = {}
<1>. USE DEF TypeInv, execute, reader, script, handler
<1>. DEFINE p == path[message[e]]
<1>1. CASE Read(e)
  <2>1. scriptFile' = scriptFile /\ file' = file
    BY <1>1 DEF Read, ReadOpen, ReadOpened, ReadData, ReadEnd, Copy, Remove, ReadReturn
  <2>2. CASE ReadOpen(e)
    <3>1. CASE p = None
      <4>1. scriptPc' = scriptPc /\ pc' = pc
        BY <2>2, <3>1 DEF ReadOpen, PipePath
      <4>. QED BY <2>1, <3>1, <4>1
    <3>2. CASE p # None
      <4>1. scriptPc' = Woken(scriptPc, scriptFile, p) /\ pc' = Woken(pc, file, p)
        BY <2>2, <3>2 DEF ReadOpen, PipePath
      <4>2. /\ scriptPc'[d] = "blocked" => scriptPc[d] = "blocked" /\ scriptFile[d] # p
            /\ pc'[d] = "blocked" => pc[d] = "blocked" /\ file[d] # p
        BY <4>1 DEF Woken
      <4>. QED BY <2>1, <4>2
    <3>. QED BY <3>1, <3>2
  <2>3. CASE ~ReadOpen(e)
    <3>1. scriptPc' = scriptPc /\ pc' = pc
      BY <1>1, <2>3 DEF Read, ReadOpened, ReadData, ReadEnd, Copy, Remove, ReadReturn
    <3>. QED BY <2>1, <2>3, <3>1
  <2>. QED BY <2>2, <2>3
<1>2. ASSUME Script(e) \/ Execute(e), ReadOpen(e) PROVE FALSE
  <2>1. readerPc[e] = "start" /\ (readerPc'[e] = "blocked" \/ readerPc'[e] = "opened")
    BY <1>2 DEF ReadOpen, Opened
  <2>2. CreatePipe(e) => readerPc'[e] = "start"
    BY DEF CreatePipe
  <2>3. Script(e) \/ (Execute(e) /\ ~CreatePipe(e)) =>
          readerPc' = readerPc \/ readerPc' = Woken(readerPc, readerFile, path[message[e]])
    BY DEF Script, ScriptOpen, ScriptWrite, ScriptClose, ScriptExit, Execute, ClosePipe, ClosePipeOpen,
           ClosePipeWrite, ExecuteReturn, PipePath
  <2>. QED BY <1>2, <2>1, <2>2, <2>3 DEF Woken
<1>3. CASE Script(e)
  <2>1. pc' = pc /\ file' = file
    BY <1>3 DEF Script, ScriptOpen, ScriptWrite, ScriptClose, ScriptExit
  <2>2. CASE ScriptOpen(e)
    <3>1. scriptFile' = [scriptFile EXCEPT ![e] = p] /\ scriptPc[e] = "running"
      BY <2>2 DEF ScriptOpen, PipePath
    <3>2. CASE p = None
      <4>1. scriptPc' = scriptPc
        BY <2>2, <3>2 DEF ScriptOpen, PipePath
      <4>. QED BY <1>2, <1>3, <2>1, <3>1, <4>1
    <3>3. CASE p # None
      <4>1. scriptPc' = [scriptPc EXCEPT ![e] = Opened(Readers(p) # {})]
        BY <2>2, <3>3 DEF ScriptOpen, PipePath
      <4>2. scriptPc'[e] = "blocked" => Readers(p) = {}
        <5>1. Readers(p) # {} => scriptPc'[e] = "opened"
          BY <4>1 DEF Opened
        <5>. QED BY <5>1
      <4>. QED BY <1>2, <1>3, <2>1, <2>2, <3>1, <3>3, <4>1, <4>2
    <3>. QED BY <3>2, <3>3
  <2>3. CASE ~ScriptOpen(e)
    <3>1. /\ scriptPc'[e] # "blocked" \/ (scriptPc' = scriptPc /\ scriptFile' = scriptFile)
          /\ d # e => scriptPc'[d] = scriptPc[d] /\ scriptFile'[d] = scriptFile[d]
      BY <1>3, <2>3 DEF Script, ScriptWrite, ScriptClose, ScriptExit
    <3>. QED BY <1>2, <1>3, <2>1, <3>1
  <2>. QED BY <2>2, <2>3
<1>4. CASE Execute(e)
  <2>1. scriptFile' = scriptFile /\ (scriptPc'[d] = "blocked" => scriptPc[d] = "blocked")
    BY <1>4 DEF Execute, CreatePipe, ClosePipe, ClosePipeOpen, ClosePipeWrite, ExecuteReturn
  <2>2. CASE ClosePipeOpen(e)
    <3>1. file' = [file EXCEPT ![e] = p] /\ pc[e] = "open"
      BY <2>2 DEF ClosePipeOpen, PipePath
    <3>2. CASE p = None
      <4>1. pc' = [pc EXCEPT ![e] = "return"]
        BY <2>2, <3>2 DEF ClosePipeOpen, PipePath
      <4>. QED BY <1>2, <1>4, <2>1, <3>1, <4>1
    <3>3. CASE p # None
      <4>1. pc' = [pc EXCEPT ![e] = Opened(Readers(p) # {})]
        BY <2>2, <3>3 DEF ClosePipeOpen, PipePath
      <4>2. pc'[e] = "blocked" => Readers(p) = {}
        <5>1. Readers(p) # {} => pc'[e] = "opened"
          BY <4>1 DEF Opened
        <5>. QED BY <5>1
      <4>. QED BY <1>2, <1>4, <2>1, <2>2, <3>1, <3>3, <4>1, <4>2
    <3>. QED BY <3>2, <3>3
  <2>3. CASE ~ClosePipeOpen(e)
    <3>1. pc'[e] # "blocked" /\ (d # e => pc'[d] = pc[d] /\ file'[d] = file[d])
      BY <1>4, <2>3 DEF Execute, CreatePipe, ClosePipe, ClosePipeWrite, ExecuteReturn
    <3>. QED BY <1>2, <1>4, <2>1, <3>1
  <2>. QED BY <2>2, <2>3
<1>. QED BY <1>1, <1>3, <1>4

(* A step of an execution of the same message.  Whoever opens the pipe for    *)
(* reading wakes all who wait, because they wait on the same pipe, and Read   *)
(* removes no pipe on which somebody waits.                                   *)
LEMMA BlockedStep ==
  ASSUME TypeInv, NEW e \in Executions, Read(e) \/ Script(e) \/ Execute(e), PathInv(e), message' = message,
         NEW d \in Executions, message[d] = message[e], ControlInv(d), BlockedInv(d)
  PROVE  BlockedInv(d)'
<1>. DEFINE q == path[message[e]]
<1>1. /\ scriptPc[d] = "blocked" => scriptFile[d] = q /\ q # None /\ Readers(q) = {}
      /\ pc[d] = "blocked" => file[d] = q /\ q # None /\ Readers(q) = {}
  BY DEF BlockedInv, ControlInv
<1>2. scriptPc'[d] = "blocked" =>
        scriptFile'[d] = q /\ q # None /\ Readers(q) = {} /\ (ReadOpen(e) => scriptPc'[d] # "blocked")
  <2>1. scriptPc'[d] = "blocked" /\ d = e /\ ScriptOpen(e) /\ ReadOpen(e) => FALSE
    BY DEF ScriptOpen, ReadOpen, Opened, TypeInv, Woken
  <2>. QED BY <1>1, <2>1, WriterStep
<1>3. pc'[d] = "blocked" =>
        file'[d] = q /\ q # None /\ Readers(q) = {} /\ (ReadOpen(e) => pc'[d] # "blocked")
  <2>1. pc'[d] = "blocked" /\ d = e /\ ClosePipeOpen(e) /\ ReadOpen(e) => FALSE
    BY DEF ClosePipeOpen, ReadOpen, Opened, TypeInv, Woken
  <2>. QED BY <1>1, <2>1, WriterStep
<1>4. ASSUME q # None, Readers(q) = {}, ~ReadOpen(e)
      PROVE  path'[message[e]] = q /\ \A f \in Executions : readerFile'[f] # q
  <2>1. \A f \in Executions : readerFile[f] # q
    BY <1>4 DEF Readers
  <2>2. ~Remove(e)
    BY <1>4, <2>1, ReaderStep DEF PathInv
  <2>. QED BY <1>4, <2>1, <2>2, PathStep
<1>5. scriptPc'[d] = "blocked" => path'[message[d]] = scriptFile'[d] /\ \A f \in Executions : readerFile'[f] # scriptFile'[d]
  BY <1>2, <1>4
<1>6. pc'[d] = "blocked" => path'[message[d]] = file'[d] /\ \A f \in Executions : readerFile'[f] # file'[d]
  BY <1>3, <1>4
<1>7. /\ scriptPc'[d] = "blocked" => Readers(scriptFile[d])' = {}
      /\ pc'[d] = "blocked" => Readers(file[d])' = {}
  BY <1>5, <1>6 DEF Readers
<1>. QED BY <1>5, <1>6, <1>7 DEF BlockedInv

LEMMA PathInvStep ==
  ASSUME TypeInv, NEW e \in Executions, Read(e) \/ Script(e) \/ Execute(e), PathInv(e), FreshInv(e), ControlInv(e),
         message' = message, NEW d \in Executions, message[d] = message[e], Few(d), PathInv(d)
  PROVE  PathInv(d)'
<1>. DEFINE m == message[e]
<1>0. m \in Executions /\ message'[d] = m /\ message[d] = m /\ e # None
  BY PipeAssumption DEF TypeInv
<1>1. path'[m] # None => \/ \E f \in Executions : readerFile'[f] = path'[m]
                         \/ \E f \in Executions : message[f] = m /\ readerPc'[f] \in {"off", "start"}
  <2>. SUFFICES ASSUME path'[m] # None
       PROVE  \/ \E f \in Executions : readerFile'[f] = path'[m]
              \/ \E f \in Executions : message[f] = m /\ readerPc'[f] \in {"off", "start"}
    OBVIOUS
  <2>1. CASE CreatePipe(e)
    BY <2>1, ReaderStep
  <2>2. CASE ~CreatePipe(e)
    <3>1. path'[m] = path[m]
      BY <2>2, PathStep
    <3>2. CASE ReadOpen(e)
      <4>1. readerFile'[e] = path[m]
        BY <3>2 DEF ReadOpen, PipePath, TypeInv
      <4>. QED BY <3>1, <4>1
    <3>3. CASE ~ReadOpen(e)
      <4>1. (\E f \in Executions : readerFile[f] = path[m])
             \/ \E f \in Executions : message[f] = m /\ readerPc[f] \in {"off", "start"}
        BY <3>1 DEF PathInv, Readers
      <4>2. ASSUME NEW f \in Executions, readerFile[f] = path[m] PROVE readerFile'[f] = path[m]
        BY <3>1, <3>3, <4>2, PathStep, ReaderStep DEF PathInv
      <4>3. ASSUME NEW f \in Executions, readerPc[f] \in {"off", "start"} PROVE readerPc'[f] \in {"off", "start"}
        BY <3>3, <4>3, ReaderStep
      <4>. QED BY <3>1, <4>1, <4>2, <4>3
    <3>. QED BY <3>2, <3>3
  <2>. QED BY <2>1, <2>2
<1>2. readerPc'[d] \in {"blocked", "opened", "reading", "copying"} => path'[m] \in {readerFile'[d], None}
  <2>. SUFFICES ASSUME readerPc'[d] \in {"blocked", "opened", "reading", "copying"} PROVE path'[m] \in {readerFile'[d], None}
    OBVIOUS
  <2>1. CASE ReadOpen(e) /\ d = e
    <3>1. readerFile'[e] = path[m] /\ path' = path
      BY <2>1 DEF ReadOpen, PipePath, TypeInv
    <3>. QED BY <2>1, <3>1
  <2>2. CASE ~(ReadOpen(e) /\ d = e)
    <3>1. readerPc[d] \in {"blocked", "opened", "reading", "copying"} /\ path[m] \in {readerFile[d], None}
      BY <2>2, ReaderStep DEF PathInv
    <3>2. readerFile'[d] = readerFile[d]
      BY <2>2, <3>1, PathStep, ReaderStep
    <3>3. path'[m] = path[m] \/ path'[m] = None
      <4>. SUFFICES ASSUME CreatePipe(e), path[m] = None, m \in creatable PROVE FALSE
        BY PathStep
      <4>1. readerPc[e] = "off"
        BY ReaderStep DEF ControlInv
      <4>2. readerPc[d] \in {"off", "closing", "done"}
        BY <4>1 DEF PathInv
      <4>. QED BY <3>1, <4>2
    <3>. QED BY <3>1, <3>2, <3>3
  <2>. QED BY <2>1, <2>2
<1>3. readerPc'[d] = "closing" => readerFile'[d] = None \/ path'[m] # readerFile'[d]
  <2>. SUFFICES ASSUME readerPc'[d] = "closing", readerFile'[d] # None PROVE path'[m] # readerFile'[d]
    OBVIOUS
  <2>1. CASE Remove(e)
    <3>1. path'[m] = None
      BY <1>0, <2>1 DEF Remove, PipePath, TypeInv
    <3>. QED BY <3>1
  <2>2. CASE ~Remove(e)
    <3>1. readerPc[d] = "closing"
      BY <2>2, ReaderStep
    <3>2. readerFile'[d] = readerFile[d]
      BY <3>1, PathStep, ReaderStep
    <3>3. path[m] # readerFile[d]
      BY <3>1, <3>2 DEF PathInv
    <3>4. CreatePipe(e) => readerFile[d] # e
      BY ReaderStep DEF FreshInv
    <3>. QED BY <2>2, <3>2, <3>3, <3>4, PathStep
  <2>. QED BY <2>1, <2>2
<1>4. creatable' = creatable /\ (m \notin creatable => path'[m] = None)
  BY PathStep DEF PathInv
<1>5. m \in creatable /\ readerPc'[d] = "off" /\ path'[m] = None =>
        \A f \in Executions : message[f] = m => readerPc'[f] \in {"off", "closing", "done"}
  <2>. SUFFICES ASSUME m \in creatable, readerPc'[d] = "off", path'[m] = None, NEW f \in Executions, message[f] = m
       PROVE  readerPc'[f] \in {"off", "closing", "done"}
    OBVIOUS
  <2>1. readerPc[d] = "off" /\ ~(CreatePipe(e) /\ d = e)
    BY ReaderStep
  <2>2. CASE Remove(e)
    <3>1. readerPc[e] = "copying" /\ readerPc'[e] = "closing" /\ d # e
      BY <2>1, <2>2, ReaderStep
    <3>2. f = e \/ f = d
      BY <1>0, <3>1 DEF Few
    <3>. QED BY <3>1, <3>2
  <2>3. CASE ~Remove(e)
    <3>1. path[m] = None
      BY <1>0, <2>3, PathStep
    <3>2. ~CreatePipe(e)
      <4>1. CreatePipe(e) => path'[m] = e
        BY <3>1, PathStep
      <4>. QED BY <1>0, <4>1
    <3>3. readerPc[f] \in {"off", "closing", "done"}
      BY <1>0, <2>1, <3>1 DEF PathInv
    <3>. QED BY <3>2, <3>3, ReaderStep
  <2>. QED BY <2>2, <2>3
<1>6. path'[m] # None => \/ Readers(path[message[d]])' # {}
                         \/ \E f \in Executions : message'[f] = m /\ readerPc'[f] \in {"off", "start"}
  BY <1>0, <1>1 DEF Readers
<1>. HIDE DEF m
<1>. QED BY <1>0, <1>2, <1>3, <1>4, <1>5, <1>6 DEF PathInv

\* A step of the only execution of a message.
LEMMA AloneStep ==
  ASSUME TypeInv, FileInv, NEW e \in Executions, Unique(e), Read(e) \/ Script(e) \/ Execute(e), message' = message,
         ControlInv(e), PlaceInv(e), BlockedInv(e), PathInv(e), AloneInv(e)
  PROVE  AloneInv(e)'
<1>. DEFINE p == path[message[e]]
<1>0. message[e] \in Executions /\ message'[e] = message[e]
  BY DEF TypeInv
<1>1. p # None /\ Readers(p) = {} => readerPc[e] \in {"off", "start"}
  BY DEF PathInv, Unique
<1>2. p # None /\ Readers(p) # {} => readerFile[e] = p
  <2>. SUFFICES ASSUME p # None, Readers(p) # {} PROVE readerFile[e] = p
    OBVIOUS
  <2>1. PICK f \in Executions : readerFile[f] = p
    BY DEF Readers
  <2>2. PipeOf(p, message[e]) /\ PipeOf(p, message[f]) /\ message[f] \in Executions
    BY <1>0, <2>1 DEF FileInv, OwnFile, TypeInv
  <2>3. message[f] = message[e]
    <3>. HIDE DEF p
    <3>. QED BY <1>0, <2>2, PipeOfOne
  <2>. QED BY <2>1, <2>3 DEF Unique
<1>3. readerPc[e] # "off" \/ pc[e] = "create"
  BY DEF PlaceInv
<1>. USE DEF execute, reader, script, handler
<1>4. CASE ReadOpen(e)
  <2>1. readerFile'[e] = p /\ path' = path /\ readerPc[e] = "start"
    BY <1>4 DEF ReadOpen, PipePath, TypeInv
  <2>2. CASE p = None
    <3>1. readerPc'[e] = "opened" /\ pc' = pc /\ scriptPc' = scriptPc
      BY <1>4, <2>2 DEF ReadOpen, PipePath, TypeInv
    <3>2. scriptPc[e] # "blocked" /\ pc[e] # "blocked"
      BY <2>2 DEF BlockedInv, ControlInv
    <3>. QED BY <3>1, <3>2 DEF AloneInv
  <2>3. CASE p # None
    <3>1. /\ pc'[e] = IF pc[e] = "blocked" /\ file[e] = p THEN "opened" ELSE pc[e]
          /\ scriptPc'[e] = IF scriptPc[e] = "blocked" /\ scriptFile[e] = p THEN "opened" ELSE scriptPc[e]
          /\ readerPc'[e] \in {"blocked", "opened"}
      BY <1>4, <2>3 DEF ReadOpen, PipePath, TypeInv, Woken, Opened
    <3>2. scriptPc'[e] # "blocked" /\ pc'[e] # "blocked"
      BY <3>1 DEF BlockedInv
    <3>3. pc[e] \in {"run", "open", "blocked"}
      BY <2>1, <2>3 DEF AloneInv
    <3>4. readerPc'[e] = "blocked" => NoWriter(p)
      BY <1>4, <2>3 DEF ReadOpen, PipePath, TypeInv, Opened
    <3>5. readerPc'[e] = "blocked" => pc[e] # "blocked"
      BY <3>4 DEF NoWriter, BlockedInv
    <3>. QED BY <1>0, <2>1, <3>1, <3>2, <3>3, <3>5 DEF AloneInv
  <2>. QED BY <2>2, <2>3
<1>5. CASE ReadOpened(e) \/ ReadData(e) \/ ReadEnd(e) \/ Copy(e) \/ Remove(e) \/ ReadReturn(e)
  <2>1. readerPc[e] \notin {"start", "blocked"} /\ readerPc'[e] \notin {"start", "blocked"}
        /\ pc' = pc /\ scriptPc' = scriptPc
    BY <1>5 DEF ReadOpened, ReadData, ReadEnd, Copy, Remove, ReadReturn, TypeInv
  <2>. QED BY <2>1 DEF AloneInv
<1>6. ASSUME p # None,
             readerPc'[e] = IF readerPc[e] = "blocked" /\ readerFile[e] = p THEN "opened" ELSE readerPc[e],
             pc[e] # "create"
      PROVE  /\ readerPc'[e] # "blocked"
             /\ readerPc'[e] = "start" <=> readerPc[e] = "start"
             /\ Readers(p) = {} => readerPc'[e] = "start"
             /\ Readers(p) # {} => readerPc'[e] # "start"
  <2>1. readerPc'[e] # "blocked"
    BY <1>6 DEF AloneInv
  <2>2. Readers(p) = {} => readerPc'[e] = "start"
    BY <1>1, <1>3, <1>6
  <2>3. Readers(p) # {} => readerPc'[e] # "start"
    BY <1>2, <1>6 DEF ControlInv
  <2>. QED BY <1>6, <2>1, <2>2, <2>3
<1>7. CASE ScriptOpen(e)
  <2>1. path' = path /\ pc' = pc /\ scriptPc[e] = "running" /\ pc[e] # "create" /\ pc[e] # "blocked"
    BY <1>7 DEF ScriptOpen, ControlInv
  <2>2. CASE p = None
    <3>1. scriptPc' = scriptPc /\ readerPc' = readerPc /\ readerFile' = readerFile
      BY <1>7, <2>2 DEF ScriptOpen, PipePath
    <3>. QED BY <1>0, <2>1, <3>1 DEF AloneInv
  <2>3. CASE p # None
    <3>1. /\ readerPc'[e] = IF readerPc[e] = "blocked" /\ readerFile[e] = p THEN "opened" ELSE readerPc[e]
          /\ Readers(p) # {} => scriptPc'[e] = "opened"
          /\ Readers(p) = {} => scriptPc'[e] = "blocked"
      <4>1. /\ readerPc' = Woken(readerPc, readerFile, p)
            /\ scriptPc' = [scriptPc EXCEPT ![e] = Opened(Readers(p) # {})]
        BY <1>7, <2>3 DEF ScriptOpen, PipePath
      <4>2. scriptPc'[e] = Opened(Readers(p) # {})
        BY <4>1 DEF TypeInv
      <4>3. readerPc'[e] = IF readerPc[e] = "blocked" /\ readerFile[e] = p THEN "opened" ELSE readerPc[e]
        BY <4>1 DEF Woken
      <4>. QED BY <4>2, <4>3 DEF Opened
    <3>. QED BY <1>0, <1>6, <2>1, <2>3, <3>1 DEF AloneInv
  <2>. QED BY <2>2, <2>3
<1>8. CASE ScriptWrite(e) \/ ScriptClose(e) \/ ScriptExit(e)
  <2>1. path' = path /\ pc' = pc /\ readerPc' = readerPc /\ readerFile' = readerFile
        /\ (scriptPc'[e] = "blocked" => scriptPc[e] = "blocked")
    BY <1>8 DEF ScriptWrite, ScriptClose, ScriptExit, TypeInv
  <2>. QED BY <1>0, <2>1 DEF AloneInv
<1>9. CASE CreatePipe(e)
  <2>1. pc'[e] = "run" /\ readerPc'[e] = "start" /\ scriptPc'[e] = "running"
    BY <1>9 DEF CreatePipe, TypeInv
  <2>. QED BY <2>1 DEF AloneInv
<1>10. CASE ClosePipe(e)
  <2>1. path' = path /\ readerPc' = readerPc /\ readerFile' = readerFile /\ scriptPc' = scriptPc
        /\ pc'[e] \in {"open", "return"} /\ (~pipeOpenedByScript[e] => pc'[e] = "open")
    BY <1>10 DEF ClosePipe, TypeInv
  <2>2. readerPc[e] \in {"start", "blocked"} => pc'[e] = "open"
    BY <2>1 DEF PlaceInv, Waiting
  <2>3. scriptPc[e] # "blocked"
    BY <1>10 DEF ClosePipe
  <2>. QED BY <1>0, <2>1, <2>2, <2>3 DEF AloneInv
<1>11. CASE ClosePipeOpen(e)
  <2>1. path' = path /\ scriptPc' = scriptPc /\ readerFile' = readerFile /\ pc[e] = "open" /\ scriptPc[e] # "blocked"
    BY <1>11 DEF ClosePipeOpen, ControlInv
  <2>2. CASE p = None
    <3>1. readerPc' = readerPc /\ pc'[e] = "return"
      BY <1>11, <2>2 DEF ClosePipeOpen, PipePath, TypeInv
    <3>2. readerPc[e] # "blocked"
      BY <2>2 DEF AloneInv, ControlInv
    <3>. QED BY <1>0, <2>1, <2>2, <3>1, <3>2 DEF AloneInv
  <2>3. CASE p # None
    <3>1. /\ readerPc'[e] = IF readerPc[e] = "blocked" /\ readerFile[e] = p THEN "opened" ELSE readerPc[e]
          /\ Readers(p) # {} => pc'[e] = "opened"
          /\ Readers(p) = {} => pc'[e] = "blocked"
      <4>1. /\ readerPc' = Woken(readerPc, readerFile, p)
            /\ pc' = [pc EXCEPT ![e] = Opened(Readers(p) # {})]
        BY <1>11, <2>3 DEF ClosePipeOpen, PipePath
      <4>2. pc'[e] = Opened(Readers(p) # {})
        BY <4>1 DEF TypeInv
      <4>3. readerPc'[e] = IF readerPc[e] = "blocked" /\ readerFile[e] = p THEN "opened" ELSE readerPc[e]
        BY <4>1 DEF Woken
      <4>. QED BY <4>2, <4>3 DEF Opened
    <3>. QED BY <1>0, <1>6, <2>1, <2>3, <3>1 DEF AloneInv
  <2>. QED BY <2>2, <2>3
<1>12. CASE ClosePipeWrite(e) \/ ExecuteReturn(e)
  <2>1. path' = path /\ readerPc' = readerPc /\ readerFile' = readerFile /\ scriptPc' = scriptPc
        /\ pc[e] \in {"opened", "return"} /\ pc'[e] \in {"return", "returned"}
    BY <1>12 DEF ClosePipeWrite, ExecuteReturn, TypeInv
  <2>2. scriptPc[e] # "blocked"
    BY <2>1 DEF ControlInv
  <2>. QED BY <1>0, <2>1, <2>2 DEF AloneInv
<1>. QED BY <1>4, <1>5, <1>7, <1>8, <1>9, <1>10, <1>11, <1>12 DEF Read, Script, Execute

LEMMA EndInit == Init => EndInv
<1>. SUFFICES ASSUME Init, NEW e \in Executions PROVE PlaceInv(e) /\ FreshInv(e) /\ BlockedInv(e) /\ PathInv(e) /\ AloneInv(e)
  BY DEF EndInv
<1>0. message[e] \in Executions
  <2>1. (CHOOSE f \in Executions : TRUE) \in Executions
    OBVIOUS
  <2>. QED BY <2>1 DEF Init
<1>1. PlaceInv(e) /\ BlockedInv(e) /\ AloneInv(e)
  BY DEF Init, PlaceInv, BlockedInv, AloneInv
<1>2. path[message[e]] \in {None, <<Left, message[e]>>} /\ (message[e] \notin creatable => path[message[e]] = None)
  BY <1>0 DEF Init
<1>3. FreshInv(e)
  <2>1. e # None /\ e # <<Left, message[e]>>
    BY <1>0, PipeAssumption
  <2>2. \A d \in Executions : readerFile[d] = None
    BY DEF Init
  <2>. QED BY <1>2, <2>1, <2>2 DEF FreshInv
<1>4. PathInv(e)
  <2>1. \A d \in Executions : readerPc[d] = "off"
    BY DEF Init
  <2>. QED BY <1>2, <2>1 DEF PathInv
<1>. QED BY <1>1, <1>3, <1>4

LEMMA EndStep == IInv /\ EndInv /\ [Next]_vars => EndInv'
<1>. SUFFICES ASSUME IInv, EndInv, [Next]_vars PROVE EndInv'
  OBVIOUS
<1>1. ASSUME NEW e \in Executions, Read(e) \/ Script(e) \/ Execute(e) PROVE EndInv'
  <2>. SUFFICES ASSUME NEW d \in Executions
       PROVE  /\ PlaceInv(d)' /\ FreshInv(d)'
              /\ Few(d)' => BlockedInv(d)' /\ PathInv(d)'
              /\ Unique(d)' => AloneInv(d)'
    BY DEF EndInv
  <2>1. TypeInv /\ FileInv /\ ControlInv(e) /\ ControlInv(d)
    BY DEF IInv
  <2>2. PlaceInv(e) /\ PlaceInv(d) /\ FreshInv(e) /\ FreshInv(d)
    BY DEF EndInv
  <2>3. message' = message
    BY <1>1, <2>1, FileStep
  <2>4. (Few(d)' => Few(d)) /\ (Unique(d)' => Unique(d))
    BY <2>3 DEF Few, Unique
  <2>5. PlaceInv(d)' /\ FreshInv(d)'
    BY <1>1, <2>1, <2>2, PlaceStep, FreshStep
  <2>6. CASE message[d] # message[e]
    <3>1. BlockedInv(d) /\ PathInv(d) => BlockedInv(d)' /\ PathInv(d)'
      BY <1>1, <2>1, <2>6, OthersEnd
    <3>2. AloneInv(d) => AloneInv(d)'
      BY <1>1, <2>1, <2>6, OthersEnd
    <3>. QED BY <2>4, <2>5, <3>1, <3>2 DEF EndInv
  <2>7. CASE message[d] = message[e]
    <3>1. ASSUME Few(d) PROVE BlockedInv(d)' /\ PathInv(d)'
      <4>1. Few(e)
        BY <2>7, <3>1 DEF Few
      <4>2. BlockedInv(d) /\ PathInv(d) /\ PathInv(e)
        BY <3>1, <4>1 DEF EndInv
      <4>3. BlockedInv(d)'
        BY <1>1, <2>1, <2>3, <2>7, <4>2, BlockedStep
      <4>4. PathInv(d)'
        BY <1>1, <2>1, <2>2, <2>3, <2>7, <3>1, <4>2, PathInvStep
      <4>. QED BY <4>3, <4>4
    <3>2. ASSUME Unique(d) PROVE AloneInv(d)'
      <4>1. d = e /\ Few(e) /\ Unique(e)
        BY <2>7, <3>2, UniqueIsFew DEF Unique
      <4>2. BlockedInv(e) /\ PathInv(e) /\ AloneInv(e)
        BY <4>1 DEF EndInv
      <4>3. AloneInv(e)'
        BY <1>1, <2>1, <2>2, <2>3, <4>1, <4>2, AloneStep
      <4>. QED BY <4>1, <4>3
    <3>. QED BY <2>4, <2>5, <3>1, <3>2
  <2>. QED BY <2>6, <2>7
<1>2. CASE UNCHANGED vars
  <2>. SUFFICES ASSUME NEW d \in Executions
       PROVE  /\ PlaceInv(d)' /\ FreshInv(d)'
              /\ Few(d)' => BlockedInv(d)' /\ PathInv(d)'
              /\ Unique(d)' => AloneInv(d)'
    BY DEF EndInv
  <2>. USE <1>2 DEF vars, execute, reader, script, handler
  <2>1. PlaceInv(d)' /\ FreshInv(d)'
    BY DEF EndInv, PlaceInv, FreshInv, Waiting, CopyLength
  <2>2. Few(d) => BlockedInv(d) /\ PathInv(d)
    BY DEF EndInv
  <2>3. Few(d)' => BlockedInv(d)' /\ PathInv(d)'
    BY <2>2 DEF Few, BlockedInv, PathInv, Readers
  <2>4. Unique(d)' => AloneInv(d)'
    BY DEF EndInv, Unique, AloneInv
  <2>. QED BY <2>1, <2>3, <2>4
<1>. QED BY <1>1, <1>2 DEF Next

(* Where no actor of a message that is executed at most twice can go on,      *)
(* Execute has returned, and Read has ended too if the message is executed    *)
(* once: the default message of ClosePipe does reach every Read that waits,   *)
(* however many scripts open and write whatever they like.                    *)
THEOREM PipeNobodyLeftBlocked == Spec => []NobodyLeftBlocked
<1>1. Init => EndInv
  BY EndInit
<1>2. IInv /\ IInv' /\ EndInv /\ [Next]_vars => EndInv'
  BY EndStep
<1>3. IInv /\ EndInv => NobodyLeftBlocked
  BY StuckHasEnded
<1>. QED BY <1>1, <1>2, <1>3, PipeInvariant, PTL DEF Spec

-----------------------------------------------------------------------------
(* How long it takes *)

ReaderRank(s) ==
  CASE s = "off" -> 7 [] s = "start" -> 6 [] s = "blocked" -> 5 [] s = "opened" -> 4
    [] s = "reading" -> 3 [] s = "copying" -> 2 [] s = "closing" -> 1 [] OTHER -> 0
ExecuteRank(s) ==
  CASE s = "create" -> 6 [] s = "run" -> 5 [] s = "open" -> 4 [] s = "blocked" -> 3
    [] s = "opened" -> 2 [] s = "return" -> 1 [] OTHER -> 0
ScriptRank(s, n) ==
  CASE s = "off" -> 4 * n + 4 [] s = "running" -> 4 * n + 1 [] s = "blocked" -> 4 * n + 3
    [] s = "opened" -> 4 * n + 2 [] OTHER -> 0

\* More than the steps that the actors of e still take, but for the reads.
Rank(e) ==
  ReaderRank(readerPc[e]) + ExecuteRank(pc[e]) + ScriptRank(scriptPc[e], MaxOpens - opens[e])
  + (MaxChunks - written[e]) + (BufferSize - Len(callbackContextBuffer[e]))

RankInv == \A e \in Executions :
  opens[e] <= MaxOpens /\ written[e] <= MaxChunks /\ Len(callbackContextBuffer[e]) <= BufferSize

RankNat == \A e \in Executions : Rank(e) \in Nat

(* A step brings an execution nearer to its end and none farther from it, or  *)
(* it empties a pipe; a pipe is filled again only by a step of the first kind.*)
Progress ==
  \/ \E e \in Executions : Rank(e)' < Rank(e) /\ \A d \in Executions : Rank(d)' <= Rank(d)
  \/ \E p \in Pipes : /\ data[p] # <<>> /\ data' = [data EXCEPT ![p] = <<>>]
                      /\ \A d \in Executions : Rank(d)' = Rank(d)

LEMMA ReaderRankIs ==
  /\ ReaderRank("off") = 7 /\ ReaderRank("start") = 6 /\ ReaderRank("blocked") = 5 /\ ReaderRank("opened") = 4
  /\ ReaderRank("reading") = 3 /\ ReaderRank("copying") = 2 /\ ReaderRank("closing") = 1 /\ ReaderRank("done") = 0
BY DEF ReaderRank

LEMMA ExecuteRankIs ==
  /\ ExecuteRank("create") = 6 /\ ExecuteRank("run") = 5 /\ ExecuteRank("open") = 4 /\ ExecuteRank("blocked") = 3
  /\ ExecuteRank("opened") = 2 /\ ExecuteRank("return") = 1 /\ ExecuteRank("returned") = 0
BY DEF ExecuteRank

LEMMA ScriptRankIs ==
  ASSUME NEW n \in Nat
  PROVE  /\ ScriptRank("off", n) = 4 * n + 4 /\ ScriptRank("running", n) = 4 * n + 1
         /\ ScriptRank("blocked", n) = 4 * n + 3 /\ ScriptRank("opened", n) = 4 * n + 2
         /\ ScriptRank("ok", n) = 0 /\ ScriptRank("failed", n) = 0
BY DEF ScriptRank

LEMMA ReaderRankStep ==
  ASSUME TypeInv, NEW e \in Executions, Read(e) \/ Script(e) \/ Execute(e), ControlInv(e), NEW d \in Executions
  PROVE  readerPc'[d] = readerPc[d] \/ ReaderRank(readerPc'[d]) < ReaderRank(readerPc[d])
<1>. USE DEF TypeInv, execute, reader, script, handler
<1>1. \/ readerPc'[d] = readerPc[d]
      \/ readerPc[d] = "off" /\ readerPc'[d] = "start"
      \/ readerPc[d] = "start" /\ readerPc'[d] \in {"blocked", "opened"}
      \/ readerPc[d] = "blocked" /\ readerPc'[d] = "opened"
      \/ readerPc[d] = "opened" /\ readerPc'[d] = "reading"
      \/ readerPc[d] = "reading" /\ readerPc'[d] = "copying"
      \/ readerPc[d] = "copying" /\ readerPc'[d] = "closing"
      \/ readerPc[d] = "closing" /\ readerPc'[d] = "done"
  <2>1. CASE Read(e)
    BY <2>1 DEF Read, ReadOpen, ReadOpened, ReadData, ReadEnd, Copy, Remove, ReadReturn, Opened
  <2>2. CASE CreatePipe(e)
    BY <2>2 DEF CreatePipe, ControlInv
  <2>3. CASE Script(e) \/ ClosePipe(e) \/ ClosePipeOpen(e) \/ ClosePipeWrite(e) \/ ExecuteReturn(e)
    <3>1. readerPc' = readerPc \/ readerPc' = Woken(readerPc, readerFile, path[message[e]])
      BY <2>3 DEF Script, ScriptOpen, ScriptWrite, ScriptClose, ScriptExit, ClosePipe, ClosePipeOpen,
                  ClosePipeWrite, ExecuteReturn, PipePath
    <3>. QED BY <3>1 DEF Woken
  <2>. QED BY <2>1, <2>2, <2>3 DEF Execute
<1>. QED BY <1>1, ReaderRankIs

LEMMA ExecuteRankStep ==
  ASSUME TypeInv, NEW e \in Executions, Read(e) \/ Script(e) \/ Execute(e), NEW d \in Executions
  PROVE  pc'[d] = pc[d] \/ ExecuteRank(pc'[d]) < ExecuteRank(pc[d])
<1>. USE DEF TypeInv, execute, reader, script, handler
<1>1. \/ pc'[d] = pc[d]
      \/ pc[d] = "create" /\ pc'[d] = "run"
      \/ pc[d] = "run" /\ pc'[d] \in {"open", "return"}
      \/ pc[d] = "open" /\ pc'[d] \in {"blocked", "opened", "return"}
      \/ pc[d] = "blocked" /\ pc'[d] = "opened"
      \/ pc[d] = "opened" /\ pc'[d] = "return"
      \/ pc[d] = "return" /\ pc'[d] = "returned"
  <2>1. CASE Execute(e)
    BY <2>1 DEF Execute, CreatePipe, ClosePipe, ClosePipeOpen, ClosePipeWrite, ExecuteReturn, Opened
  <2>2. CASE Read(e) \/ Script(e)
    <3>1. pc' = pc \/ pc' = Woken(pc, file, path[message[e]])
      BY <2>2 DEF Read, ReadOpen, ReadOpened, ReadData, ReadEnd, Copy, Remove, ReadReturn, Script, ScriptOpen,
                  ScriptWrite, ScriptClose, ScriptExit, PipePath
    <3>. QED BY <3>1 DEF Woken
  <2>. QED BY <2>1, <2>2
<1>. QED BY <1>1, ExecuteRankIs

\* How a script goes on, and what it counts.
LEMMA CountStep ==
  ASSUME TypeInv, NEW e \in Executions, Read(e) \/ Script(e) \/ Execute(e), ControlInv(e), NEW d \in Executions
  PROVE  \/ /\ opens'[d] = opens[d]
            /\ \/ scriptPc'[d] = scriptPc[d]
               \/ scriptPc[d] \in {"off", "opened"} /\ scriptPc'[d] = "running"
               \/ scriptPc[d] = "blocked" /\ scriptPc'[d] = "opened"
         \/ /\ scriptPc[d] = "running" /\ opens[d] < MaxOpens /\ opens'[d] = opens[d] + 1
            /\ scriptPc'[d] \in {"running", "blocked", "opened"}
         \/ scriptPc[d] \in {"running", "opened"} /\ scriptPc'[d] \in {"ok", "failed"} /\ opens'[d] = 0
<1>. USE DEF TypeInv, execute, reader, script, handler
<1>1. CASE Read(e)
  <2>1. opens' = opens
        /\ (scriptPc' = scriptPc \/ scriptPc' = Woken(scriptPc, scriptFile, path[message[e]]))
    BY <1>1 DEF Read, ReadOpen, ReadOpened, ReadData, ReadEnd, Copy, Remove, ReadReturn, PipePath
  <2>. QED BY <2>1 DEF Woken
<1>2. CASE Script(e)
  <2>1. CASE ScriptOpen(e)
    BY <2>1 DEF ScriptOpen, Opened
  <2>2. CASE ScriptWrite(e) \/ ScriptClose(e) \/ ScriptExit(e)
    BY <2>2 DEF ScriptWrite, ScriptClose, ScriptExit
  <2>. QED BY <1>2, <2>1, <2>2 DEF Script
<1>3. CASE Execute(e)
  BY <1>3 DEF Execute, CreatePipe, ClosePipe, ClosePipeOpen, ClosePipeWrite, ExecuteReturn, ControlInv
<1>. QED BY <1>1, <1>2, <1>3

LEMMA ScriptRankStep ==
  ASSUME TypeInv, RankInv, NEW e \in Executions, Read(e) \/ Script(e) \/ Execute(e), ControlInv(e), NEW d \in Executions
  PROVE  /\ opens'[d] \in Nat /\ opens'[d] <= MaxOpens
         /\ \/ scriptPc'[d] = scriptPc[d] /\ opens'[d] = opens[d]
            \/ ScriptRank(scriptPc'[d], MaxOpens - opens'[d]) < ScriptRank(scriptPc[d], MaxOpens - opens[d])
<1>. DEFINE n == MaxOpens - opens[d]
            k == MaxOpens - opens'[d]
<1>1. MaxOpens \in Nat /\ opens[d] \in Nat /\ opens[d] <= MaxOpens /\ n \in Nat
  BY PipeAssumption DEF TypeInv, RankInv
<1>2. opens'[d] \in Nat /\ opens'[d] <= MaxOpens /\ k \in Nat
  <2>1. opens'[d] \in Nat /\ opens'[d] <= MaxOpens
    BY <1>1, CountStep
  <2>. QED BY <1>1, <2>1
<1>3. \/ scriptPc'[d] = scriptPc[d] /\ opens'[d] = opens[d]
      \/ k = n /\ scriptPc[d] = "off" /\ scriptPc'[d] = "running"
      \/ k = n /\ scriptPc[d] = "opened" /\ scriptPc'[d] = "running"
      \/ k = n /\ scriptPc[d] = "blocked" /\ scriptPc'[d] = "opened"
      \/ k = n - 1 /\ scriptPc[d] = "running" /\ scriptPc'[d] \in {"running", "blocked", "opened"}
      \/ scriptPc[d] \in {"running", "opened"} /\ scriptPc'[d] \in {"ok", "failed"}
  BY <1>1, CountStep
<1>. HIDE DEF n, k
<1>4. /\ ScriptRank("off", n) = 4 * n + 4 /\ ScriptRank("running", n) = 4 * n + 1
      /\ ScriptRank("blocked", n) = 4 * n + 3 /\ ScriptRank("opened", n) = 4 * n + 2
  BY <1>1, ScriptRankIs
<1>5. /\ ScriptRank("running", k) = 4 * k + 1
      /\ ScriptRank("blocked", k) = 4 * k + 3 /\ ScriptRank("opened", k) = 4 * k + 2
      /\ ScriptRank("ok", k) = 0 /\ ScriptRank("failed", k) = 0
  BY <1>2, ScriptRankIs
<1>6. (scriptPc'[d] = scriptPc[d] /\ opens'[d] = opens[d])
      \/ ScriptRank(scriptPc'[d], k) < ScriptRank(scriptPc[d], n)
  BY <1>1, <1>2, <1>3, <1>4, <1>5
<1>. QED BY <1>2, <1>6 DEF n, k

LEMMA WrittenStep ==
  ASSUME TypeInv, RankInv, NEW e \in Executions, Read(e) \/ Script(e) \/ Execute(e), NEW d \in Executions
  PROVE  /\ written'[d] = written[d] \/ (written[d] < MaxChunks /\ written'[d] = written[d] + 1)
         /\ \/ callbackContextBuffer'[d] = callbackContextBuffer[d]
            \/ /\ Len(callbackContextBuffer[d]) < BufferSize
               /\ Len(callbackContextBuffer'[d]) = Len(callbackContextBuffer[d]) + 1
<1>. USE DEF TypeInv, execute, reader, script, handler
<1>1. written'[d] = written[d] \/ (written[d] < MaxChunks /\ written'[d] = written[d] + 1)
  BY DEF Read, ReadOpen, ReadOpened, ReadData, ReadEnd, Copy, Remove, ReadReturn,
         Script, ScriptOpen, ScriptWrite, ScriptClose, ScriptExit,
         Execute, CreatePipe, ClosePipe, ClosePipeOpen, ClosePipeWrite, ExecuteReturn
<1>2. callbackContextBuffer' = callbackContextBuffer \/ Copy(e)
  BY DEF Read, ReadOpen, ReadOpened, ReadData, ReadEnd, Remove, ReadReturn,
         Script, ScriptOpen, ScriptWrite, ScriptClose, ScriptExit,
         Execute, CreatePipe, ClosePipe, ClosePipeOpen, ClosePipeWrite, ExecuteReturn
<1>3. ASSUME Copy(e)
      PROVE  /\ Len(callbackContextBuffer[e]) < BufferSize
             /\ Len(callbackContextBuffer'[e]) = Len(callbackContextBuffer[e]) + 1
             /\ d # e => callbackContextBuffer'[d] = callbackContextBuffer[d]
  <2>1. Len(callbackContextBuffer[e]) < CopyLength(e) /\ Len(callbackContextBuffer[e]) \in Nat
    BY <1>3, LenProperties DEF Copy
  <2>2. CopyLength(e) \in Nat /\ BufferSize \in Nat /\ CopyLength(e) <= BufferSize
    BY LenProperties, PipeAssumption DEF CopyLength
  <2>3. callbackContextBuffer' = [callbackContextBuffer EXCEPT ![e] = Append(@, received[e][Len(callbackContextBuffer[e]) + 1])]
    BY <1>3 DEF Copy
  <2>4. callbackContextBuffer'[e] = Append(callbackContextBuffer[e], received[e][Len(callbackContextBuffer[e]) + 1])
        /\ (d # e => callbackContextBuffer'[d] = callbackContextBuffer[d])
    BY <2>3
  <2>5. Len(callbackContextBuffer'[e]) = Len(callbackContextBuffer[e]) + 1
    BY <2>4
  <2>. QED BY <2>1, <2>2, <2>4, <2>5
<1>. QED BY <1>1, <1>2, <1>3

LEMMA RanksAreNat ==
  /\ \A r : ReaderRank(r) \in Nat
  /\ \A x : ExecuteRank(x) \in Nat
  /\ \A s, n : n \in Nat => ScriptRank(s, n) \in Nat
<1>1. ASSUME NEW r PROVE ReaderRank(r) \in Nat
  BY DEF ReaderRank
<1>2. ASSUME NEW x PROVE ExecuteRank(x) \in Nat
  BY DEF ExecuteRank
<1>3. ASSUME NEW s, NEW n, n \in Nat PROVE ScriptRank(s, n) \in Nat
  <2>1. 4 * n + 4 \in Nat /\ 4 * n + 1 \in Nat /\ 4 * n + 3 \in Nat /\ 4 * n + 2 \in Nat /\ 0 \in Nat
    BY <1>3
  <2>. QED BY <2>1 DEF ScriptRank
<1>. QED BY <1>1, <1>2, <1>3

LEMMA RankParts ==
  ASSUME TypeInv, RankInv, NEW d \in Executions
  PROVE  /\ ReaderRank(readerPc[d]) \in Nat /\ ExecuteRank(pc[d]) \in Nat
         /\ ScriptRank(scriptPc[d], MaxOpens - opens[d]) \in Nat
         /\ MaxChunks - written[d] \in Nat /\ BufferSize - Len(callbackContextBuffer[d]) \in Nat
<1>1. MaxOpens - opens[d] \in Nat /\ MaxChunks - written[d] \in Nat
  BY PipeAssumption DEF TypeInv, RankInv
<1>2. BufferSize - Len(callbackContextBuffer[d]) \in Nat
  BY PipeAssumption, LenProperties DEF TypeInv, RankInv
<1>3. /\ ReaderRank(readerPc[d]) \in Nat /\ ExecuteRank(pc[d]) \in Nat
      /\ ScriptRank(scriptPc[d], MaxOpens - opens[d]) \in Nat
  BY <1>1, RanksAreNat
<1>. QED BY <1>1, <1>2, <1>3

\* The same of the next state.
LEMMA RankPartsNext ==
  ASSUME TypeInv', RankInv', NEW d \in Executions
  PROVE  /\ ReaderRank(readerPc'[d]) \in Nat /\ ExecuteRank(pc'[d]) \in Nat
         /\ ScriptRank(scriptPc'[d], MaxOpens - opens'[d]) \in Nat
         /\ MaxChunks - written'[d] \in Nat /\ BufferSize - Len(callbackContextBuffer'[d]) \in Nat
<1>1. MaxOpens - opens'[d] \in Nat /\ MaxChunks - written'[d] \in Nat
  BY PipeAssumption DEF TypeInv, RankInv
<1>2. BufferSize - Len(callbackContextBuffer'[d]) \in Nat
  BY PipeAssumption, LenProperties DEF TypeInv, RankInv
<1>3. /\ ReaderRank(readerPc'[d]) \in Nat /\ ExecuteRank(pc'[d]) \in Nat
      /\ ScriptRank(scriptPc'[d], MaxOpens - opens'[d]) \in Nat
  BY <1>1, RanksAreNat
<1>. QED BY <1>1, <1>2, <1>3

LEMMA RankInvStep ==
  ASSUME TypeInv, RankInv, NEW e \in Executions, Read(e) \/ Script(e) \/ Execute(e), ControlInv(e)
  PROVE  RankInv'
<1>. SUFFICES ASSUME NEW d \in Executions
     PROVE  opens'[d] <= MaxOpens /\ written'[d] <= MaxChunks /\ Len(callbackContextBuffer'[d]) <= BufferSize
  BY DEF RankInv
<1>1. opens'[d] <= MaxOpens
  BY ScriptRankStep
<1>2. /\ written[d] \in Nat /\ written[d] <= MaxChunks /\ MaxChunks \in Nat
      /\ Len(callbackContextBuffer[d]) \in Nat /\ Len(callbackContextBuffer[d]) <= BufferSize /\ BufferSize \in Nat
  BY PipeAssumption, LenProperties DEF TypeInv, RankInv
<1>3. written'[d] <= MaxChunks /\ Len(callbackContextBuffer'[d]) <= BufferSize
  BY <1>2, WrittenStep
<1>. QED BY <1>1, <1>3

\* Unless it only reads, a step changes something that is counted.
LEMMA SomethingChanges ==
  ASSUME TypeInv, NEW e \in Executions, Read(e) \/ Script(e) \/ Execute(e), ~ReadData(e)
  PROVE  \/ readerPc'[e] # readerPc[e] \/ pc'[e] # pc[e] \/ scriptPc'[e] # scriptPc[e] \/ opens'[e] # opens[e]
         \/ written'[e] # written[e] \/ callbackContextBuffer'[e] # callbackContextBuffer[e]
<1>. USE DEF TypeInv, execute, reader, script, handler
<1>1. CASE Copy(e)
  <2>1. callbackContextBuffer'[e] = Append(callbackContextBuffer[e], received[e][Len(callbackContextBuffer[e]) + 1])
    BY <1>1 DEF Copy
  <2>2. Len(callbackContextBuffer'[e]) = Len(callbackContextBuffer[e]) + 1 /\ Len(callbackContextBuffer[e]) \in Nat
    BY <2>1
  <2>. QED BY <2>2
<1>2. CASE Read(e) /\ ~Copy(e)
  BY <1>2 DEF Read, ReadOpen, ReadOpened, ReadEnd, Remove, ReadReturn, Opened
<1>3. CASE Script(e)
  BY <1>3 DEF Script, ScriptOpen, ScriptWrite, ScriptClose, ScriptExit
<1>4. CASE Execute(e)
  BY <1>4 DEF Execute, CreatePipe, ClosePipe, ClosePipeOpen, ClosePipeWrite, ExecuteReturn, Opened
<1>. QED BY <1>1, <1>2, <1>3, <1>4

LEMMA RankStep ==
  ASSUME TypeInv, TypeInv', RankInv, RankInv', NEW e \in Executions, Read(e) \/ Script(e) \/ Execute(e), ControlInv(e),
         NEW d \in Executions
  PROVE  /\ Rank(d)' <= Rank(d)
         /\ \/ readerPc'[d] # readerPc[d] \/ pc'[d] # pc[d] \/ scriptPc'[d] # scriptPc[d] \/ opens'[d] # opens[d]
            \/ written'[d] # written[d] \/ callbackContextBuffer'[d] # callbackContextBuffer[d]
            => Rank(d)' < Rank(d)
<1>. DEFINE r == ReaderRank(readerPc[d])   r1 == ReaderRank(readerPc'[d])
            x == ExecuteRank(pc[d])        x1 == ExecuteRank(pc'[d])
            s == ScriptRank(scriptPc[d], MaxOpens - opens[d])
            s1 == ScriptRank(scriptPc'[d], MaxOpens - opens'[d])
            w == MaxChunks - written[d]    w1 == MaxChunks - written'[d]
            b == BufferSize - Len(callbackContextBuffer[d])
            b1 == BufferSize - Len(callbackContextBuffer'[d])
<1>1. r \in Nat /\ x \in Nat /\ s \in Nat /\ w \in Nat /\ b \in Nat
  BY RankParts
<1>2. r1 \in Nat /\ x1 \in Nat /\ s1 \in Nat /\ w1 \in Nat /\ b1 \in Nat
  BY RankPartsNext
<1>3. readerPc'[d] = readerPc[d] \/ r1 < r
  BY ReaderRankStep
<1>4. pc'[d] = pc[d] \/ x1 < x
  BY ExecuteRankStep
<1>5. (scriptPc'[d] = scriptPc[d] /\ opens'[d] = opens[d]) \/ s1 < s
  BY ScriptRankStep
<1>6. written'[d] = written[d] \/ w1 < w
  <2>1. written[d] \in Nat /\ MaxChunks \in Nat
    BY PipeAssumption DEF TypeInv
  <2>. QED BY <2>1, WrittenStep
<1>7. callbackContextBuffer'[d] = callbackContextBuffer[d] \/ b1 < b
  <2>1. Len(callbackContextBuffer[d]) \in Nat /\ BufferSize \in Nat
    BY PipeAssumption, LenProperties DEF TypeInv
  <2>. QED BY <2>1, WrittenStep
<1>8. Rank(d) = r + x + s + w + b /\ Rank(d)' = r1 + x1 + s1 + w1 + b1
  BY DEF Rank
<1>9. /\ readerPc'[d] = readerPc[d] => r1 = r
      /\ pc'[d] = pc[d] => x1 = x
      /\ scriptPc'[d] = scriptPc[d] /\ opens'[d] = opens[d] => s1 = s
      /\ written'[d] = written[d] => w1 = w
      /\ callbackContextBuffer'[d] = callbackContextBuffer[d] => b1 = b
  OBVIOUS
<1>. HIDE DEF r, r1, x, x1, s, s1, w, w1, b, b1
<1>10. r1 <= r /\ x1 <= x /\ s1 <= s /\ w1 <= w /\ b1 <= b
  BY <1>1, <1>2, <1>3, <1>4, <1>5, <1>6, <1>7, <1>9
<1>. QED BY <1>1, <1>2, <1>3, <1>4, <1>5, <1>6, <1>7, <1>8, <1>10

LEMMA ProgressStep == IInv /\ IInv' /\ RankInv /\ [Next]_vars => RankInv' /\ [Progress]_vars
<1>. SUFFICES ASSUME IInv, IInv', RankInv, [Next]_vars PROVE RankInv' /\ [Progress]_vars
  OBVIOUS
<1>1. ASSUME NEW e \in Executions, Read(e) \/ Script(e) \/ Execute(e) PROVE RankInv' /\ Progress
  <2>1. TypeInv /\ TypeInv' /\ ControlInv(e)
    BY DEF IInv
  <2>2. RankInv'
    BY <1>1, <2>1, RankInvStep
  <2>3. \A d \in Executions : Rank(d)' <= Rank(d)
    BY <1>1, <2>1, <2>2, RankStep
  <2>4. CASE ReadData(e)
    <3>1. readerFile[e] \in Pipes /\ data[readerFile[e]] # <<>> /\ data' = [data EXCEPT ![readerFile[e]] = <<>>]
      BY <2>1, <2>4 DEF ReadData, TypeInv
    <3>2. \A d \in Executions : Rank(d)' = Rank(d)
      BY <2>4 DEF ReadData, Rank, execute, script, handler
    <3>. QED BY <2>2, <3>1, <3>2 DEF Progress
  <2>5. CASE ~ReadData(e)
    <3>1. Rank(e)' < Rank(e)
      BY <1>1, <2>1, <2>2, <2>5, RankStep, SomethingChanges
    <3>. QED BY <2>2, <2>3, <3>1 DEF Progress
  <2>. QED BY <2>4, <2>5
<1>2. CASE UNCHANGED vars
  BY <1>2 DEF RankInv, vars, script, handler
<1>. QED BY <1>1, <1>2 DEF Next

LEMMA RankInit == Init => RankInv
<1>1. Len(<<>>) = 0 /\ MaxOpens \in Nat /\ MaxChunks \in Nat /\ BufferSize \in Nat
  BY PipeAssumption
<1>2. ASSUME Init, NEW e \in Executions
      PROVE  opens[e] = 0 /\ written[e] = 0 /\ callbackContextBuffer[e] = <<>>
  BY <1>2 DEF Init
<1>3. ASSUME Init, NEW e \in Executions
      PROVE  opens[e] <= MaxOpens /\ written[e] <= MaxChunks /\ Len(callbackContextBuffer[e]) <= BufferSize
  <2>1. Len(callbackContextBuffer[e]) = 0
    BY <1>1, <1>2, <1>3
  <2>. QED BY <1>1, <1>2, <1>3, <2>1
<1>. QED BY <1>3 DEF RankInv

(* What is left to do of each execution is a natural number, and every step   *)
(* makes one of these numbers smaller and none larger, but for a read, which  *)
(* empties a pipe.  So Execute, Read and the script of executor.go and        *)
(* callback_context_handler_unix.go come to where none of them can go on,     *)
(* which NobodyLeftBlocked is about.                                          *)
THEOREM PipeProgress == Spec => []RankNat /\ [][Progress]_vars
<1>1. Init => RankInv
  BY RankInit
<1>2. IInv /\ IInv' /\ RankInv /\ [Next]_vars => RankInv' /\ [Progress]_vars
  BY ProgressStep
<1>3. IInv /\ RankInv => RankNat
  <2>. SUFFICES ASSUME IInv, RankInv, NEW e \in Executions PROVE Rank(e) \in Nat
    BY DEF RankNat
  <2>1. TypeInv
    BY DEF IInv
  <2>. QED BY <2>1, RankParts DEF Rank
<1>. QED BY <1>1, <1>2, <1>3, PipeInvariant, PTL DEF Spec
=============================================================================
