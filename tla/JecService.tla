------------------------------ MODULE JecService ------------------------------
(***************************************************************************)
(* The Windows service, src/windows_service/main/jecService.go, composed   *)
(* with the process that it runs: Processor, whose exit is "off" until     *)
(* the process has been created.                                           *)
(*                                                                         *)
(* The service manager calls Start and Stop of the Program and ends the    *)
(* process of the service when Stop has returned.  Start leaves the work   *)
(* to the goroutine run, which ends with the process of the service, while *)
(* that of JEC goes on.  p.cmd.Process is nil until runnerPc is "wait",    *)
(* p.cmd.ProcessState until run is behind it.                              *)
(*                                                                         *)
(* Definitions marked "Mutant" are explained in WorkerPool.                *)
(***************************************************************************)
EXTENDS Processor

VARIABLES
  service,              \* "off", "starting", "running", "stopped", "crashed"
  stopRequested,        \* a stop is on its way through the service manager
  runnerPc,             \* func run: "off", "files", "created", "wait", "noProcess", "ended", "done"
  ctrlC                 \* history: "none", "sent", "failed"

serviceVars == <<service, stopRequested, runnerPc, ctrlC>>
allVars     == <<vars, serviceVars>>

ServiceInit ==
  /\ NewProcessor /\ exit = "off"
  /\ service = "off" /\ stopRequested = FALSE /\ runnerPc = "off" /\ ctrlC = "none"

-----------------------------------------------------------------------------
(* main, on the command line, and the service manager *)

\* "start", after validateConfig.
ControlStart ==
  /\ service = "off" /\ service' = "starting"
  /\ UNCHANGED <<vars, stopRequested, runnerPc, ctrlC>>

\* "stop", or the end of the system.
ControlStop ==
  /\ service = "running" /\ stopRequested' = TRUE
  /\ UNCHANGED <<vars, service, runnerPc, ctrlC>>

\* Start of the Program.
ServiceStart ==
  /\ service = "starting" /\ service' = "running" /\ runnerPc' = "files"
  /\ UNCHANGED <<vars, stopRequested, ctrlC>>

-----------------------------------------------------------------------------
(* run of the Program *)

\* A log file cannot be opened, or the process cannot be created.
RunnerFails ==
  /\ service = "running" /\ runnerPc = "files" /\ runnerPc' = "noProcess"
  /\ UNCHANGED <<vars, service, stopRequested, ctrlC>>

\* p.cmd.Run() creates the process of JEC, and then assigns p.cmd.Process.
RunnerCreates ==
  /\ service = "running" /\ runnerPc = "files" /\ runnerPc' = "created"
  /\ exit' = "no"
  /\ UNCHANGED <<gitActions, threads, flags, map, refresh, zeroPeriods, work, service, stopRequested, ctrlC>>

RunnerWaits ==
  /\ service = "running" /\ runnerPc = "created" /\ runnerPc' = "wait"
  /\ UNCHANGED <<vars, service, stopRequested, ctrlC>>

\* p.cmd.Run() returns when JEC has ended.
RunnerWaited ==
  /\ service = "running" /\ runnerPc = "wait" /\ exit # "no" /\ runnerPc' = "ended"
  /\ UNCHANGED <<vars, service, stopRequested, ctrlC>>

\* p.service.Stop() asks the service manager for a Stop; its error is ignored.
RunnerStops ==
  /\ service = "running" /\ runnerPc \in {"noProcess", "ended"} /\ runnerPc' = "done"
  /\ stopRequested' \in {stopRequested, TRUE}
  /\ UNCHANGED <<vars, service, ctrlC>>

-----------------------------------------------------------------------------
(* Stop of the Program *)

\* Mutant: a process that is running counts as terminated already.
ProcessEndedAny == runnerPc \in {"wait", "ended", "done"}

\* p.cmd.ProcessState is not nil.
ProcessEnded == runnerPc \in {"ended", "done"} /\ exit # "off"

\* "already terminated ungracefully"
StopEnded ==
  /\ service = "running" /\ stopRequested /\ ProcessEnded
  /\ service' = "stopped"
  /\ UNCHANGED <<vars, stopRequested, runnerPc, ctrlC>>

\* sendCtrlCEvent, which main of JEC gets as a signal.
StopCtrlC ==
  /\ service = "running" /\ stopRequested /\ ~ProcessEnded /\ runnerPc = "wait"
  /\ service' = "stopped" /\ ctrlC' = "sent"
  /\ stopPc' = IF stopPc = "off" /\ exit = "no" THEN "signal" ELSE stopPc
  /\ UNCHANGED <<gitActions, startPc, runPc, pullPc, flags, map, refresh, zeroPeriods, work, exit, stopRequested, runnerPc>>

\* One of its calls fails, which it writes into a log; JEC runs on.
StopCtrlCFails ==
  /\ service = "running" /\ stopRequested /\ ~ProcessEnded /\ runnerPc = "wait"
  /\ service' = "stopped" /\ ctrlC' = "failed"
  /\ UNCHANGED <<vars, stopRequested, runnerPc>>

\* p.cmd.Process is nil: a panic.
StopPanics ==
  /\ service = "running" /\ stopRequested /\ ~ProcessEnded /\ runnerPc # "wait"
  /\ service' = "crashed"
  /\ UNCHANGED <<vars, stopRequested, runnerPc, ctrlC>>

-----------------------------------------------------------------------------
ServiceStep == ServiceStart \/ RunnerWaits \/ RunnerWaited \/ RunnerStops \/ RunnerFails \/ RunnerCreates

ServiceStop == StopEnded \/ StopCtrlC \/ StopCtrlCFails \/ StopPanics

ServiceNext ==
  \/ Next /\ UNCHANGED serviceVars
  \/ ControlStart \/ ControlStop \/ ServiceStep \/ ServiceStop

\* The service manager passes a request on; run goes on; and as in Processor.
ServiceFairness ==
  Fairness /\ WF_allVars(ServiceStep) /\ WF_allVars(ServiceStop)

ServiceSpec == ServiceInit /\ [][ServiceNext]_allVars /\ ServiceFairness

-----------------------------------------------------------------------------
(* Properties *)

(* The service and JEC end together: once Stop of the service has returned    *)
(* without a failed Windows call JEC ends too, in whatever state the signal   *)
(* finds it, and when JEC has ended by itself so does the service, unless its *)
(* request was lost.  After the panic of a Stop that comes too early JEC may  *)
(* be left alone.                                                             *)
JecFollowsService ==
  /\ (service = "stopped" /\ ctrlC # "failed") ~> exit # "no"
  /\ exit \notin {"off", "no"} ~> service # "running" \/ (runnerPc = "done" /\ ~stopRequested)
=============================================================================
