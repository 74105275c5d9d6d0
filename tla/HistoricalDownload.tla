------------------------- MODULE HistoricalDownload -------------------------
(***************************************************************************)
(* The historical download loop of src/cmd/reward_cmd.go                   *)
(* (ChainAnalyzer.runDownloadBlocks), shown to refine HistoricalRange.     *)
(*                                                                         *)
(* Slots are uint64: SlotSub/SlotAdd work modulo 2^SlotWidth. The block    *)
(* and state requests are recorded in the order they are made; their       *)
(* contents belong to the cache and are modelled in ChainAnalyzer.         *)
(***************************************************************************)
EXTENDS Integers, Sequences

CONSTANTS
    InitSlots,      \* possible --init-slot values
    FinalSlots,     \* possible --final-slot values
    SlotsPerEpoch,  \* 32 in the code
    SlotWidth       \* bits of a slot

ASSUME /\ SlotsPerEpoch \in Nat \ {0}
       /\ \A s \in InitSlots \cup FinalSlots : s + 3 * SlotsPerEpoch < 2^SlotWidth

VARIABLES
    initSlot, finalSlot,  \* s.initSlot, s.finalSlot
    slot,                 \* the loop variable
    pc,                   \* "loop" (loop head), "fetch" (past the stop check) or "done"
    stop,                 \* s.stop
    ctxDone,              \* s.ctx has been cancelled
    blocks,               \* slots passed to DownloadNewBlock, in order
    states                \* slots passed to DownloadNewState, in order

vars == <<initSlot, finalSlot, slot, pc, stop, ctxDone, blocks, states>>

SlotSub(a, b) == (a - b) % 2^SlotWidth
SlotAdd(a, b) == (a + b) % 2^SlotWidth

\* Mutant: slot - 1 computed as a signed integer.
StateSlotSigned(s) == s - 1

\* DownloadNewState(&queue, slot-1, false): the last slot of the previous
\* epoch, modulo 2^SlotWidth.
StateSlot(s) == SlotSub(s, 1)

-----------------------------------------------------------------------------
Init ==
    /\ initSlot \in InitSlots /\ finalSlot \in FinalSlots
    /\ initSlot <= finalSlot
    /\ slot = initSlot /\ pc = "loop"
    /\ stop = FALSE /\ ctxDone = FALSE
    /\ blocks = <<>> /\ states = <<>>

\* Mutant: the s.stop check of the default branch is left out.
CheckIterationNoStop ==
    /\ pc = "loop" /\ slot < finalSlot /\ ~ctxDone
    /\ pc' = "fetch"
    /\ UNCHANGED <<initSlot, finalSlot, slot, stop, ctxDone, blocks, states>>

\* An iteration's select takes the default branch (the context is alive)
\* and finds s.stop unset.
CheckIteration ==
    /\ pc = "loop" /\ slot < finalSlot /\ ~ctxDone /\ ~stop
    /\ pc' = "fetch"
    /\ UNCHANGED <<initSlot, finalSlot, slot, stop, ctxDone, blocks, states>>

\* The rest of the iteration, a separate step because s.stop may be set
\* after the check: request the block, at an epoch boundary the state of
\* the slot before, and slot += 1.
DownloadSlot ==
    /\ pc = "fetch"
    /\ blocks' = Append(blocks, slot)
    /\ states' = IF slot % SlotsPerEpoch = 0
                 THEN Append(states, StateSlot(slot)) ELSE states
    /\ slot' = SlotAdd(slot, 1)
    /\ pc' = "loop"
    /\ UNCHANGED <<initSlot, finalSlot, stop, ctxDone>>

\* break loop: the context has died, or a sudden shutdown was detected.
BreakLoop ==
    /\ pc = "loop" /\ slot < finalSlot
    /\ ctxDone \/ stop
    /\ pc' = "done"
    /\ UNCHANGED <<initSlot, finalSlot, slot, stop, ctxDone, blocks, states>>

\* The loop condition slot < s.finalSlot fails.
LoopExit ==
    /\ pc = "loop" /\ slot >= finalSlot
    /\ pc' = "done"
    /\ UNCHANGED <<initSlot, finalSlot, slot, stop, ctxDone, blocks, states>>

\* Another goroutine sets s.stop (Close, a failed finality check).
SetStop ==
    /\ ~stop /\ stop' = TRUE
    /\ UNCHANGED <<initSlot, finalSlot, slot, pc, ctxDone, blocks, states>>

\* The parent context is cancelled.
CancelCtx ==
    /\ ~ctxDone /\ ctxDone' = TRUE
    /\ UNCHANGED <<initSlot, finalSlot, slot, pc, stop, blocks, states>>

\* The routine has returned (wgDownload.Done).
Returned == pc = "done" /\ UNCHANGED vars

Loop == CheckIteration \/ DownloadSlot \/ BreakLoop \/ LoopExit

Next == Loop \/ SetStop \/ CancelCtx \/ Returned

\* The goroutine is kept running by the scheduler; stop and cancellation
\* are up to other parties and get no fairness.
Spec == Init /\ [][Next]_vars /\ WF_vars(Loop)

-----------------------------------------------------------------------------
TypeOK ==
    /\ initSlot \in InitSlots /\ finalSlot \in FinalSlots
    /\ slot \in initSlot..(finalSlot + 1) /\ pc \in {"loop", "fetch", "done"}
    /\ stop \in BOOLEAN /\ ctxDone \in BOOLEAN
    /\ blocks \in Seq(0..(2^SlotWidth - 1))
    /\ states \in Seq(0..(2^SlotWidth - 1))

\* The refinement mapping: the abstract loop has fetched what the code has
\* passed to DownloadNewBlock, is inside an iteration once past the stop
\* check, and is stopped once either shutdown path has been taken.
HR == INSTANCE HistoricalRange
        WITH first <- initSlot, last <- finalSlot, fetched <- blocks,
             stopped <- (stop \/ ctxDone), inIter <- (pc = "fetch"),
             finished <- (pc = "done")

(* runDownloadBlocks implements the historical loop's promise: blocks are  *)
(* requested one at a time in slot order from init_slot, never past        *)
(* final_slot, no iteration begins after s.stop is set or the context is   *)
(* cancelled (one already past its check still downloads), and the loop    *)
(* eventually returns.                                                      *)
RefinesRange == HR!ASpec

(* Spec 4.6's historical loop covers [init_slot, final_slot]: a loop that  *)
(* returns without being stopped has requested every slot of it, final_slot *)
(* included (HistoricalRange's Completed under the refinement mapping).    *)
CoversFinalSlot == HR!Completed

=============================================================================
