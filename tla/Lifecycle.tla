------------------------------ MODULE Lifecycle ------------------------------
(***************************************************************************)
(* StateAnalyzer.Run and StateAnalyzer.Close                               *)
(* (src/pkg/analyzer/metrics_test.go): the goroutines Run starts, the      *)
(* order in which it waits for them, and the shutdown handshake over       *)
(* finishDownload and the unbuffered routineClosed channel.                *)
(* BlockAnalyzer.Run/Close (src/unnamed/part_002) follow the same pattern  *)
(* without the validator workers.                                          *)
(*                                                                         *)
(* The goroutines' bodies are not in the repository. They are modelled    *)
(* from spec 5 "Cancellation": downloaders stop at their next iteration    *)
(* once the stop flag is set, the processor drains its channel after the   *)
(* downloads finish, the workers drain theirs after processing finishes.   *)
(* A task is a token: only the number of tasks in each channel matters.    *)
(***************************************************************************)
EXTENDS Integers, FiniteSets

CONSTANTS
    Modes,      \* possible downloadMode values
    HistTasks,  \* epoch tasks of the historical range
    FinTasks,   \* bound on the epoch tasks the finalized downloader emits
    EpochCap,   \* capacity of EpochTaskChan (1 in the code)
    Workers     \* the validator workers

ASSUME Modes \subseteq {"historical", "finalized", "hybrid"}

\* The downloaders Run starts for a mode.
Downloaders(m) ==
    (IF m \in {"historical", "hybrid"} THEN {"historical"} ELSE {})
    \cup (IF m \in {"finalized", "hybrid"} THEN {"finalized"} ELSE {})

\* ValTaskChan: make(chan *ValTask, workerNum).
ValCap == Cardinality(Workers)

VARIABLES
    mode,
    dlRunning,             \* downloaders that have not returned (wgDownload)
    dlLeft,                \* tasks each downloader has still to emit
    epochChan,             \* tasks in EpochTaskChan
    valChan,               \* tasks in ValTaskChan
    procRunning,           \* runProcessState has not returned (wgProcess)
    workersRunning,        \* workers that have not returned (wgWorkers)
    downloadFinishedFlag,
    processFinishedFlag,
    finishDownload,        \* s.finishDownload
    runPc,                 \* where Run is
    closePc,               \* where Close is: "idle", "wait" or "done"
    produced, processed    \* tasks emitted by downloaders, finished by workers

vars == <<mode, dlRunning, dlLeft, epochChan, valChan, procRunning,
          workersRunning, downloadFinishedFlag, processFinishedFlag,
          finishDownload, runPc, closePc, produced, processed>>

goroutines == <<dlRunning, dlLeft, epochChan, valChan, procRunning,
                workersRunning, produced, processed>>

-----------------------------------------------------------------------------
\* Run has started the downloaders of its mode, the processor and the workers.
Init ==
    /\ mode \in Modes
    /\ dlRunning = Downloaders(mode)
    /\ dlLeft = [d \in {"historical", "finalized"} |->
                    IF d = "historical" THEN HistTasks ELSE FinTasks]
    /\ epochChan = 0 /\ valChan = 0
    /\ procRunning = TRUE /\ workersRunning = Workers
    /\ downloadFinishedFlag = FALSE /\ processFinishedFlag = FALSE
    /\ finishDownload = FALSE
    /\ runPc = "waitDownload" /\ closePc = "idle"
    /\ produced = 0 /\ processed = 0

\* A downloader emits an epoch task (a blocking send on EpochTaskChan).
DownloadTask(d) ==
    /\ d \in dlRunning /\ ~finishDownload
    /\ dlLeft[d] > 0 /\ epochChan < EpochCap
    /\ dlLeft' = [dlLeft EXCEPT ![d] = @ - 1]
    /\ epochChan' = epochChan + 1 /\ produced' = produced + 1
    /\ UNCHANGED <<mode, dlRunning, valChan, procRunning, workersRunning,
                   downloadFinishedFlag, processFinishedFlag, finishDownload,
                   runPc, closePc, processed>>

\* A downloader returns: at its next iteration after the stop flag, or the
\* historical one at the end of its range. The finalized one otherwise
\* keeps waiting for chain events.
DownloaderExit(d) ==
    /\ d \in dlRunning
    /\ finishDownload \/ (d = "historical" /\ dlLeft[d] = 0)
    /\ dlRunning' = dlRunning \ {d}
    /\ UNCHANGED <<mode, dlLeft, epochChan, valChan, procRunning, workersRunning,
                   downloadFinishedFlag, processFinishedFlag, finishDownload,
                   runPc, closePc, produced, processed>>

\* Mutant: the send on ValTaskChan never blocks.
ProcessTaskNoCap ==
    /\ procRunning /\ epochChan > 0
    /\ epochChan' = epochChan - 1 /\ valChan' = valChan + 1
    /\ UNCHANGED <<mode, dlRunning, dlLeft, procRunning, workersRunning,
                   downloadFinishedFlag, processFinishedFlag, finishDownload,
                   runPc, closePc, produced, processed>>

\* runProcessState turns an epoch task into validator tasks.
ProcessTask ==
    /\ procRunning /\ epochChan > 0 /\ valChan < ValCap
    /\ epochChan' = epochChan - 1 /\ valChan' = valChan + 1
    /\ UNCHANGED <<mode, dlRunning, dlLeft, procRunning, workersRunning,
                   downloadFinishedFlag, processFinishedFlag, finishDownload,
                   runPc, closePc, produced, processed>>

\* Mutant: the processor returns without draining EpochTaskChan.
ProcessorExitEarly ==
    /\ procRunning /\ downloadFinishedFlag
    /\ procRunning' = FALSE
    /\ UNCHANGED <<mode, dlRunning, dlLeft, epochChan, valChan, workersRunning,
                   downloadFinishedFlag, processFinishedFlag, finishDownload,
                   runPc, closePc, produced, processed>>

\* The processor returns once downloads are over and its channel is empty.
ProcessorExit ==
    /\ procRunning /\ downloadFinishedFlag /\ epochChan = 0
    /\ procRunning' = FALSE
    /\ UNCHANGED <<mode, dlRunning, dlLeft, epochChan, valChan, workersRunning,
                   downloadFinishedFlag, processFinishedFlag, finishDownload,
                   runPc, closePc, produced, processed>>

WorkerTask(w) ==
    /\ w \in workersRunning /\ valChan > 0
    /\ valChan' = valChan - 1 /\ processed' = processed + 1
    /\ UNCHANGED <<mode, dlRunning, dlLeft, epochChan, procRunning, workersRunning,
                   downloadFinishedFlag, processFinishedFlag, finishDownload,
                   runPc, closePc, produced>>

\* A worker returns once processing is over and its channel is empty.
WorkerExit(w) ==
    /\ w \in workersRunning /\ processFinishedFlag /\ valChan = 0
    /\ workersRunning' = workersRunning \ {w}
    /\ UNCHANGED <<mode, dlRunning, dlLeft, epochChan, valChan, procRunning,
                   downloadFinishedFlag, processFinishedFlag, finishDownload,
                   runPc, closePc, produced, processed>>

-----------------------------------------------------------------------------
(***************************************************************************)
(* Run, after starting the goroutines.                                     *)
(***************************************************************************)
\* wgDownload.Wait(); downloadFinishedFlag = true
RunDownloadsDone ==
    /\ runPc = "waitDownload" /\ dlRunning = {}
    /\ downloadFinishedFlag' = TRUE /\ runPc' = "waitProcess"
    /\ UNCHANGED <<mode, goroutines, processFinishedFlag, finishDownload, closePc>>

\* wgProcess.Wait(); processFinishedFlag = true
RunProcessDone ==
    /\ runPc = "waitProcess" /\ ~procRunning
    /\ processFinishedFlag' = TRUE /\ runPc' = "waitWorkers"
    /\ UNCHANGED <<mode, goroutines, downloadFinishedFlag, finishDownload, closePc>>

\* wgWorkers.Wait(); dbClient.DoneTasks(); <-FinishSignalChan;
\* dbClient.Close(); close(ValTaskChan)
RunDrainDB ==
    /\ runPc = "waitWorkers" /\ workersRunning = {}
    /\ runPc' = "check"
    /\ UNCHANGED <<mode, goroutines, downloadFinishedFlag, processFinishedFlag,
                   finishDownload, closePc>>

\* Mutant: Run always signals routineClosed.
RunCheckCloseAlways ==
    /\ runPc = "check"
    /\ runPc' = "signal"
    /\ UNCHANGED <<mode, goroutines, downloadFinishedFlag, processFinishedFlag,
                   finishDownload, closePc>>

\* if s.finishDownload { s.routineClosed <- struct{}{} }, else return.
RunCheckClose ==
    /\ runPc = "check"
    /\ runPc' = IF finishDownload THEN "signal" ELSE "done"
    /\ UNCHANGED <<mode, goroutines, downloadFinishedFlag, processFinishedFlag,
                   finishDownload, closePc>>

\* Close, called from outside at any time: s.finishDownload = true, then
\* block on <-s.routineClosed.
CloseCall ==
    /\ closePc = "idle"
    /\ finishDownload' = TRUE /\ closePc' = "wait"
    /\ UNCHANGED <<mode, goroutines, downloadFinishedFlag, processFinishedFlag, runPc>>

\* The rendezvous on the unbuffered routineClosed: Run returns (its
\* deferred cancel), Close calls s.cancel() and returns.
Handshake ==
    /\ runPc = "signal" /\ closePc = "wait"
    /\ runPc' = "done" /\ closePc' = "done"
    /\ UNCHANGED <<mode, goroutines, downloadFinishedFlag, processFinishedFlag,
                   finishDownload>>

RunSteps ==
    RunDownloadsDone \/ RunProcessDone \/ RunDrainDB \/ RunCheckClose \/ Handshake

GoroutineSteps ==
    \/ \E d \in {"historical", "finalized"} : DownloadTask(d) \/ DownloaderExit(d)
    \/ ProcessTask \/ ProcessorExit
    \/ \E w \in Workers : WorkerTask(w) \/ WorkerExit(w)

Next == RunSteps \/ GoroutineSteps \/ CloseCall

\* Every goroutine is kept running by the Go scheduler. The finalized
\* downloader emits a task only when the chain finalizes, and Close is
\* called by the caller: neither owes a step, so neither is fair.
Fairness ==
    /\ WF_vars(RunSteps)
    /\ WF_vars(DownloadTask("historical"))
    /\ \A d \in {"historical", "finalized"} : WF_vars(DownloaderExit(d))
    /\ WF_vars(ProcessTask) /\ WF_vars(ProcessorExit)
    /\ \A w \in Workers : WF_vars(WorkerTask(w)) /\ WF_vars(WorkerExit(w))

Spec == Init /\ [][Next]_vars /\ Fairness

-----------------------------------------------------------------------------
TypeOK ==
    /\ mode \in Modes
    /\ dlRunning \subseteq Downloaders(mode)
    /\ dlLeft \in [{"historical", "finalized"} -> 0..(HistTasks + FinTasks)]
    /\ epochChan \in 0..EpochCap /\ valChan \in 0..ValCap
    /\ procRunning \in BOOLEAN /\ workersRunning \subseteq Workers
    /\ runPc \in {"waitDownload", "waitProcess", "waitWorkers", "check", "signal", "done"}
    /\ closePc \in {"idle", "wait", "done"}
    /\ processed \in 0..produced

(* Graceful drain (spec 4.6 "Shutdown", 5 "Cancellation"): once Run is past *)
(* its wait groups, and in particular when it returns and cancels the      *)
(* scope, every task a downloader emitted has been finished by a worker,   *)
(* whether or not Close was called.                                        *)
DrainedBeforeExit ==
    runPc \in {"check", "signal", "done"} =>
        /\ processed = produced /\ epochChan = 0 /\ valChan = 0

(* Run returns once nothing left runs forever: in historical mode, or once *)
(* Close has set finishDownload.                                           *)
RunReturns ==
    (Downloaders(mode) = {"historical"} \/ finishDownload) ~> runPc = "done"

(* Close returns: a caller that asked for shutdown is not blocked forever  *)
(* on routineClosed.                                                        *)
CloseReturns == closePc = "wait" ~> closePc = "done"

=============================================================================
