---------------------------- MODULE RewardsLaunch ----------------------------
(***************************************************************************)
(* The `rewards` command (src/cmd/reward_cmd.go): RewardsCommand's flags   *)
(* and LaunchRewardsCalculator, which checks them, converts them, builds   *)
(* the clients and the StateAnalyzer and calls Run. Composed with          *)
(* Lifecycle: the analyzer Run starts is the one the command line          *)
(* configured, in historical mode (the command has no mode flag), with as  *)
(* many validator workers as LaunchRewardsCalculator hands to it.          *)
(*                                                                         *)
(* The command line is fixed for a run of the program, so it is given as   *)
(* CONSTANTS; reading the validator-index file, dialling the beacon node   *)
(* and building the analyzer may each fail.                                *)
(***************************************************************************)
EXTENDS Integers, Sequences

CONSTANTS
    Given,      \* the flags set on the command line (c.IsSet)
    IntArg,     \* int flag -> the value given for it
    SlotWidth,      \* initSlot and finalSlot are uint64
    SlotsPerEpoch,  \* spec.SlotsPerEpoch, 32
    FinTasks, EpochCap   \* as in Lifecycle

ASSUME SlotsPerEpoch = 32

\* The flags LaunchRewardsCalculator refuses to run without, in the order
\* it checks them.
RequiredFlags == {"bn-endpoint", "outfolder", "init-slot", "final-slot",
                  "validator-indexes", "db-url"}

\* c.Int(name): the flag's value, or the zero value when it is not set.
CInt(f) == IF f \in Given THEN IntArg[f] ELSE 0

\* uint64(c.Int(...)): a negative value wraps around.
Uint64(i) == i % 2^SlotWidth

\* coworkers := 1, then coworkers = c.Int("workers-num"), set or not.
Coworkers == CInt("workers-num")

initSlot  == Uint64(CInt("init-slot"))
finalSlot == Uint64(CInt("final-slot"))

\* NewStateAnalyzer refuses a historical range with finalSlot <= initSlot.
ValidRange == finalSlot > initSlot

\* NewStateAnalyzer moves both ends to the last slot of their epoch.
EpochLast(s) == Uint64(((s \div 32) + 1) * SlotsPerEpoch - 1)

\* The slotRanges loop: i from first while i <= last, in steps of an epoch,
\* all in uint64.
RECURSIVE RangeFrom(_, _)
RangeFrom(i, last) ==
    IF i <= last THEN <<i>> \o RangeFrom(Uint64(i + SlotsPerEpoch), last)
                 ELSE <<>>

\* "start two epochs before and end two epochs after": the loop's first
\* value is initSlot - 2*32, which wraps when initSlot < 64.
SlotRanges ==
    RangeFrom(Uint64(EpochLast(initSlot) - 2 * SlotsPerEpoch),
              Uint64(EpochLast(finalSlot) + 2 * SlotsPerEpoch))

\* The historical downloader requests the state at each slot of SlotRanges
\* and pushes an EpochTask once four consecutive states are at hand.
HistTasks == IF Len(SlotRanges) >= 4 THEN Len(SlotRanges) - 3 ELSE 0

\* The slotRanges loop ends: its bound plus one step stays below 2^64.
ASSUME ((finalSlot \div 32) + 4) * SlotsPerEpoch - 1 < 2^SlotWidth

VARIABLES
    cliPc,      \* "flags", "indexes", "client", "analyzer", "run" or "error"
    \* Lifecycle's state, frozen at Run's start until Run is called
    mode, dlRunning, dlLeft, epochChan, valChan, procRunning, workersRunning,
    downloadFinishedFlag, processFinishedFlag, finishDownload, runPc, closePc,
    produced, processed

\* StateAnalyzer.Run(coworkers): the workers are the first coworkers ones.
L == INSTANCE Lifecycle WITH Modes <- {"historical"}, Workers <- 1..Coworkers

lvars == <<mode, dlRunning, dlLeft, epochChan, valChan, procRunning,
           workersRunning, downloadFinishedFlag, processFinishedFlag,
           finishDownload, runPc, closePc, produced, processed>>
vars == <<cliPc, lvars>>

-----------------------------------------------------------------------------
Init == cliPc = "flags" /\ L!Init

\* The IsSet checks, each returning its error; setting the log level and
\* logging the defaults of the worker flags do not change the outcome.
CheckFlags ==
    /\ cliPc = "flags"
    /\ cliPc' = IF RequiredFlags \subseteq Given THEN "indexes" ELSE "error"
    /\ UNCHANGED lvars

\* utils.GetValIndexesFromJson, then clientapi.NewAPIClient: either may
\* return an error, which is returned.
ReadValidatorIndexes ==
    /\ cliPc = "indexes"
    /\ \E ok \in BOOLEAN : cliPc' = IF ok THEN "client" ELSE "error"
    /\ UNCHANGED lvars

NewAPIClient ==
    /\ cliPc = "client"
    /\ \E ok \in BOOLEAN : cliPc' = IF ok THEN "analyzer" ELSE "error"
    /\ UNCHANGED lvars

\* analyzer.NewStateAnalyzer: an invalid range is refused, and connecting
\* to the database may fail; either error is returned, otherwise Run.
NewStateAnalyzer ==
    /\ cliPc = "analyzer"
    /\ \E dbOk \in BOOLEAN :
          cliPc' = IF ValidRange /\ dbOk THEN "run" ELSE "error"
    /\ UNCHANGED lvars

Launch == CheckFlags \/ ReadValidatorIndexes \/ NewAPIClient \/ NewStateAnalyzer

\* Once Run is called, Run and the analyzer's goroutines take steps. The
\* command installs no signal handler: nothing calls Close.
Running(A) == cliPc = "run" /\ A /\ UNCHANGED cliPc

Next == Launch \/ Running(L!RunSteps \/ L!GoroutineSteps)

\* LaunchRewardsCalculator runs to its end; once Run is called, the
\* goroutines are scheduled as in Lifecycle.
Spec ==
    /\ Init /\ [][Next]_vars
    /\ WF_vars(Launch)
    /\ WF_vars(Running(L!RunSteps))
    /\ WF_vars(Running(L!DownloadTask("historical")))
    /\ \A d \in {"historical", "finalized"} : WF_vars(Running(L!DownloaderExit(d)))
    /\ WF_vars(Running(L!ProcessTask)) /\ WF_vars(Running(L!ProcessorExit))
    /\ \A w \in 1..Coworkers :
          WF_vars(Running(L!WorkerTask(w))) /\ WF_vars(Running(L!WorkerExit(w)))

-----------------------------------------------------------------------------
(* LaunchRewardsCalculator logs "workers-num flag not provided, default: 1" *)
(* and starts the analyzer: an analyzer the command starts runs its        *)
(* historical range to the end and Run returns.                            *)
LaunchReturns == cliPc = "run" ~> runPc = "done"

=============================================================================
