---------------------------- MODULE ChainAnalyzer ----------------------------
(***************************************************************************)
(* The live ("finalized") download mode of the chain analyzer and what it  *)
(* leaves in the database.                                                 *)
(*                                                                         *)
(*  - the downloader goroutine runDownloadBlocksFinalized: catch-up to the *)
(*    head, then a select over head, finalized-checkpoint and reorg        *)
(*    events (src/cmd/reward_cmd.go);                                      *)
(*  - its handlers DownloadNewBlock, Reorg, CheckFinalized,                *)
(*    RewindBlockMetrics and RewindEpochMetrics (same file);               *)
(*  - the downloader's local queue (StateQueue: BlockHistory, HeadBlock,   *)
(*    LatestFinalized, AddNewBlock, Rewind, NewStateQueue), whose code is  *)
(*    not in the repository and is modelled from spec section 4.2;         *)
(*  - the block-processing workers running ProcessBlock                    *)
(*    (src/pkg/analyzer/process_block.go) on the block each BlockTask      *)
(*    carries, writing block, withdrawal, transaction, blob, deposit and   *)
(*    BLS-change rows;                                                     *)
(*  - the beacon node as the environment: a chain that grows, skips slots, *)
(*    reorganises and finalizes, and emits the three event streams.        *)
(*                                                                         *)
(* Data is abstracted to what the properties tell apart: a block is a      *)
(* record of its slot, the fork (branch) it belongs to and whether it was  *)
(* proposed; the state root of a slot is the canonical block record at it. *)
(***************************************************************************)
EXTENDS Integers, Sequences, FiniteSets

LOCAL INSTANCE FiniteSetsExt

CONSTANTS
    SlotsPerEpoch,              \* spec.SlotsPerEpoch (32 in the code)
    EpochsToFinalizedTentative, \* epochsToFinalizedTentative: rewind distance
    InitFinalizedSlot,          \* slot of the finalized checkpoint when the analyzer starts
    DbLastSlots,                \* the values ObtainLastSlot may return at start
    MaxSlot,                    \* bound: the chain head never passes it
    MaxReorgs,                  \* bound: number of reorgs of the chain
    SlotWidth,                  \* phase0.Slot / phase0.Epoch are unsigned, this many bits
    ChanCap,                    \* capacity of blockTaskChan
    Workers,                    \* the block-processing pool
    TxMetrics,                  \* s.metrics.Transactions
    MaxCrashes,                 \* bound: number of times the process dies
    NoBlock,                    \* model value: no entry / no row
    ZeroRoot,                   \* model value: the zero state root of a missed block
    Idle                        \* model value: a worker holding no task

ASSUME /\ SlotsPerEpoch \in Nat \ {0}
       /\ EpochsToFinalizedTentative \in Nat
       /\ InitFinalizedSlot \in Nat /\ InitFinalizedSlot % SlotsPerEpoch = 0
       /\ MaxSlot \in Nat /\ InitFinalizedSlot + SlotsPerEpoch <= MaxSlot
       /\ DbLastSlots \subseteq 0..InitFinalizedSlot /\ 0 \in DbLastSlots
       /\ MaxReorgs \in Nat
       /\ SlotWidth \in Nat /\ MaxSlot < 2^SlotWidth
       /\ ChanCap \in Nat \ {0}
       /\ TxMetrics \in BOOLEAN
       /\ MaxCrashes \in Nat

VARIABLES
    \* the beacon node
    chain,            \* slot -> canonical block record, or NoBlock beyond the head
    chainHead,        \* slot of the head block
    finEpoch,         \* epoch of the latest finalized checkpoint
    forks,            \* number of reorgs so far (the newest fork's id)
    \* event subscriptions (eventsObj.HeadChan, FinalizedChan, ReorgChan)
    headChan, finChan, reorgChan,
    \* the downloader goroutine
    pc,               \* "catchup", "loop" (the select), "head" (head handler
                      \* loop) or "down" (the process has died)
    nextSlot,         \* nextSlotDownload
    target,           \* headSlot the current download loop runs up to
    startSlot,        \* nextSlotDownload when the goroutine started (history)
    sendTask,         \* the block of the BlockTask being sent, or Idle
    \* the download cache (queue)
    blockHistory,     \* queue.BlockHistory: slot -> block record or NoBlock
    headBlock,        \* queue.HeadBlock.Slot
    latestFinalized,  \* queue.LatestFinalized.Slot
    stateHistory,     \* states downloaded at epoch ends: slot -> block record at that slot
    \* block processing
    blockTaskChan,    \* BlockTasks (their blocks) sent to the pool
    worker,           \* worker -> slot it is processing, or Idle
    \* the database
    blockRows,        \* t_blocks and t_withdrawals: slot -> block record or NoBlock
    txRows,           \* t_transactions: blocks whose transactions are stored
    opRows,           \* t_deposits, t_bls_to_execution_changes, t_blob_sidecars
    orphanRows,       \* t_orphans
    epochDrops,       \* epochs from which epoch, duty and reward rows were dropped
    eventRows,        \* t_finalized_checkpoint and t_reorgs rows
    \* history
    firstSlot,        \* nextSlotDownload when the first process started
    crashes           \* how many times the process has died

envVars   == <<chain, chainHead, finEpoch, forks>>
chanVars  == <<headChan, finChan, reorgChan>>
dlVars    == <<pc, nextSlot, target, startSlot, sendTask>>
cacheVars == <<blockHistory, headBlock, latestFinalized, stateHistory>>
procVars  == <<blockTaskChan, worker>>
dbVars    == <<blockRows, txRows, opRows, orphanRows, epochDrops, eventRows>>
faultVars == <<firstSlot, crashes>>
vars == <<envVars, chanVars, dlVars, cacheVars, procVars, dbVars, faultVars>>

-----------------------------------------------------------------------------
(* Unsigned arithmetic: slots and epochs are uint64 in the code.           *)
SlotRange == 2^SlotWidth
SlotSub(a, b) == (a - b) % SlotRange
SlotAdd(a, b) == (a + b) % SlotRange
EpochOf(s) == s \div SlotsPerEpoch

Slots  == 0..MaxSlot
Forks  == 0..MaxReorgs
Blocks == [slot : Slots, fork : Forks, proposed : BOOLEAN]
Epochs == 0..(MaxSlot \div SlotsPerEpoch)

(* RequestStateRoot(i): every slot of the canonical chain has a state,     *)
(* whose root identifies the branch up to that slot.                       *)
RequestStateRoot(i) == chain[i]

(* The StateRoot a cached block carries: a missed slot is returned as a    *)
(* zero-valued block (spec section 3), so its state root is zero.          *)
CachedStateRoot(b) == IF b.proposed THEN b ELSE ZeroRoot

Subscribed == pc \notin {"catchup", "down"}
Emit(ch, e) == IF Subscribed THEN Append(ch, e) ELSE ch

-----------------------------------------------------------------------------
(* The download cache (StateQueue, spec 4.2).                              *)

\* NewStateQueue(finalizedBlock): a queue anchored at the finalized block.
NewStateQueue(fb) ==
    /\ blockHistory' = [s \in Slots |-> IF s = fb.slot THEN fb ELSE NoBlock]
    /\ headBlock' = fb.slot
    /\ latestFinalized' = fb.slot
    /\ stateHistory' = [s \in Slots |-> NoBlock]

\* queue.Rewind(slot): erase blocks from slot on and states of epochs from
\* slot's epoch on; the head becomes the slot before.
Rewind(b) ==
    /\ blockHistory' = [s \in Slots |-> IF s >= b THEN NoBlock ELSE blockHistory[s]]
    /\ stateHistory' = [s \in Slots |->
                          IF EpochOf(s) >= EpochOf(b) THEN NoBlock ELSE stateHistory[s]]
    /\ headBlock' = SlotSub(b, 1)
    /\ UNCHANGED latestFinalized

-----------------------------------------------------------------------------
(* Database statements.                                                    *)

\* UpsertTransaction: INSERT ... ON CONFLICT DO NOTHING.
UpsertTransaction(rows, b) == rows \cup {b}

\* DropTransactionsQuery: DELETE FROM t_transactions WHERE f_slot = $1.
DropTransactionsQuery(rows, m) == {r \in rows : r.slot # m}

\* RewindBlockMetrics(slot): BlockDropType and WithdrawalDropType delete
\* from slot onwards; TransactionDropType runs DropTransactionsQuery, whose
\* WHERE clause is f_slot = $1. Deposits, BLS changes and blob sidecars
\* are not dropped.
RewindBlockMetrics(m) ==
    /\ blockRows' = [s \in Slots |-> IF s >= m THEN NoBlock ELSE blockRows[s]]
    /\ txRows' = DropTransactionsQuery(txRows, m)

\* RewindEpochMetrics(epoch): epoch and proposer-duty rows from epoch on,
\* validator rewards from epoch + 1 on; recorded as the epoch passed in.
RewindEpochMetrics(e) == epochDrops' = epochDrops \cup {e}

(* Where a starting process resumes: from the finalized slot F when the   *)
(* database is empty or ahead of F, else EpochsToFinalizedTentative epochs  *)
(* before the database's last slot.                                        *)
ResumeSlot(lastSlot, F) ==
    IF lastSlot = 0 \/ lastSlot > F
    THEN F
    ELSE SlotSub(lastSlot, EpochsToFinalizedTentative * SlotsPerEpoch)

\* ObtainLastSlot: the highest slot with a row in t_block_metrics, 0 for an
\* empty table.
ObtainLastSlot ==
    LET stored == {s \in Slots : blockRows[s] # NoBlock}
    IN IF stored = {} THEN 0 ELSE Max(stored)

-----------------------------------------------------------------------------
(* The beacon node.                                                        *)

Init ==
    LET initHead == InitFinalizedSlot + SlotsPerEpoch
        fin      == InitFinalizedSlot \div SlotsPerEpoch
        F        == fin * SlotsPerEpoch
        genesis  == [s \in Slots |-> IF s <= initHead
                                     THEN [slot |-> s, fork |-> 0, proposed |-> TRUE]
                                     ELSE NoBlock]
    IN
    /\ chain = genesis
    /\ chainHead = initHead
    /\ finEpoch = fin
    /\ forks = 0
    /\ headChan = <<>> /\ finChan = <<>> /\ reorgChan = <<>>
    \* ObtainLastSlot: an empty database, or one filled up to lastSlot
    /\ \E lastSlot \in DbLastSlots :
          /\ blockRows = [s \in Slots |-> IF s <= lastSlot /\ lastSlot # 0
                                          THEN genesis[s] ELSE NoBlock]
          /\ nextSlot = ResumeSlot(lastSlot, F)
          /\ startSlot = nextSlot
          /\ firstSlot = nextSlot
    /\ pc = "catchup"
    /\ sendTask = Idle
    /\ target = initHead                       \* RequestCurrentHead()
    /\ blockHistory = [s \in Slots |-> IF s = F THEN genesis[F] ELSE NoBlock]
    /\ headBlock = F
    /\ latestFinalized = F
    /\ stateHistory = [s \in Slots |-> NoBlock]
    /\ blockTaskChan = <<>>
    /\ worker = [w \in Workers |-> Idle]
    /\ txRows = {} /\ opRows = {} /\ orphanRows = {}
    /\ epochDrops = {} /\ eventRows = {}
    /\ crashes = 0

\* A new head block, after gap missed slots.
AdvanceChain(gap) ==
    LET h == chainHead + gap + 1 IN
    /\ h <= MaxSlot
    /\ chain' = [s \in Slots |->
                   IF s \in (chainHead + 1)..h
                   THEN [slot |-> s, fork |-> forks, proposed |-> s = h]
                   ELSE chain[s]]
    /\ chainHead' = h
    /\ headChan' = Emit(headChan, h)
    /\ UNCHANGED <<finEpoch, forks, finChan, reorgChan>>

\* A reorg replacing the blocks from base on by a new branch whose head is
\* newHead; the node reports it as (slot = newHead, depth = newHead - base)
\* and announces the new head.
ChainReorg(base, newHead) ==
    /\ forks < MaxReorgs
    /\ finEpoch * SlotsPerEpoch < base /\ base <= chainHead
    /\ newHead \in {chainHead, chainHead + 1} /\ newHead <= MaxSlot
    /\ chain' = [s \in Slots |->
                   IF s \in base..newHead
                   THEN [slot |-> s, fork |-> forks + 1, proposed |-> TRUE]
                   ELSE chain[s]]
    /\ chainHead' = newHead
    /\ forks' = forks + 1
    /\ reorgChan' = Emit(reorgChan, [slot |-> newHead, depth |-> newHead - base])
    /\ headChan' = Emit(headChan, newHead)
    /\ UNCHANGED <<finEpoch, finChan>>

\* The next epoch's checkpoint becomes finalized.
Finalize ==
    /\ (finEpoch + 1) * SlotsPerEpoch <= chainHead
    /\ finEpoch' = finEpoch + 1
    /\ finChan' = Emit(finChan, finEpoch + 1)
    /\ UNCHANGED <<chain, chainHead, forks, headChan, reorgChan>>

Environment ==
    /\ \/ \E gap \in 0..1 : AdvanceChain(gap)
       \/ \E base \in Slots, newHead \in Slots : ChainReorg(base, newHead)
       \/ Finalize
    /\ UNCHANGED <<dlVars, cacheVars, procVars, dbVars, faultVars>>

-----------------------------------------------------------------------------
(* The downloader goroutine (runDownloadBlocksFinalized).                  *)

\* One iteration of a download loop, DownloadNewBlock(slot) and then, on an
\* epoch boundary, DownloadNewState(slot - 1), in two steps. First the
\* block is requested (a missed slot comes back with proposed = FALSE) and
\* added to the queue.
DownloadNewBlock(slot) ==
    /\ sendTask = Idle
    /\ chain[slot] # NoBlock
    /\ blockHistory' = [blockHistory EXCEPT ![slot] = chain[slot]]
    /\ headBlock' = slot
    /\ sendTask' = chain[slot]
    /\ UNCHANGED <<latestFinalized, stateHistory, nextSlot, blockTaskChan>>

\* Then the block task is sent, blocking while blockTaskChan is full, the
\* state of the slot before an epoch boundary is stored, and
\* nextSlotDownload moves on.
\* Mutant: the send does not block on a full channel.
SendBlockTaskNoCap ==
    /\ sendTask # Idle
    /\ blockTaskChan' = Append(blockTaskChan, sendTask)
    /\ LET st == SlotSub(sendTask.slot, 1) IN
       stateHistory' = IF sendTask.slot % SlotsPerEpoch = 0 /\ st \in Slots /\ chain[st] # NoBlock
                       THEN [stateHistory EXCEPT ![st] = chain[st]]
                       ELSE stateHistory
    /\ nextSlot' = SlotAdd(sendTask.slot, 1)
    /\ sendTask' = Idle
    /\ UNCHANGED <<envVars, chanVars, pc, target, startSlot, blockHistory, headBlock,
                   latestFinalized, worker, dbVars>>

SendBlockTask ==
    /\ sendTask # Idle
    /\ Len(blockTaskChan) < ChanCap
    /\ blockTaskChan' = Append(blockTaskChan, sendTask)
    /\ LET st == SlotSub(sendTask.slot, 1) IN
       stateHistory' = IF sendTask.slot % SlotsPerEpoch = 0 /\ st \in Slots /\ chain[st] # NoBlock
                       THEN [stateHistory EXCEPT ![st] = chain[st]]
                       ELSE stateHistory
    /\ nextSlot' = SlotAdd(sendTask.slot, 1)
    /\ sendTask' = Idle
    /\ UNCHANGED <<envVars, chanVars, pc, target, startSlot, blockHistory, headBlock,
                   latestFinalized, worker, dbVars>>

\* Catch-up: for nextSlotDownload < headSlot.
CatchUpDownload ==
    /\ pc = "catchup"
    /\ nextSlot < target
    /\ DownloadNewBlock(nextSlot)
    /\ UNCHANGED <<envVars, chanVars, pc, target, startSlot, worker, dbVars>>

\* Catch-up done: subscribe to the three event streams and enter the select.
Subscribe ==
    /\ pc = "catchup"
    /\ sendTask = Idle
    /\ nextSlot >= target
    /\ pc' = "loop"
    /\ UNCHANGED <<envVars, chanVars, nextSlot, target, startSlot, sendTask, cacheVars,
                   procVars, dbVars>>

\* case headSlot := <-HeadChan: start the loop for nextSlotDownload <= headSlot.
HandleHead ==
    /\ pc = "loop"
    /\ headChan # <<>>
    /\ target' = Head(headChan)
    /\ headChan' = Tail(headChan)
    /\ pc' = "head"
    /\ UNCHANGED <<envVars, finChan, reorgChan, nextSlot, startSlot, sendTask, cacheVars,
                   procVars, dbVars>>

HeadDownload ==
    /\ pc = "head"
    /\ nextSlot <= target
    /\ DownloadNewBlock(nextSlot)
    /\ UNCHANGED <<envVars, chanVars, pc, target, startSlot, worker, dbVars>>

HeadDone ==
    /\ pc = "head"
    /\ sendTask = Idle
    /\ nextSlot > target
    /\ pc' = "loop"
    /\ UNCHANGED <<envVars, chanVars, nextSlot, target, startSlot, sendTask, cacheVars,
                   procVars, dbVars>>

\* CheckFinalized(checkpoint, &queue): walk the slots from the queue's
\* latest finalized up to (excluding) the checkpoint slot; a cached block
\* whose state root matches the node's advances the finalized anchor; the
\* first mismatch drops block rows from it, epoch rows from its epoch - 1,
\* replaces the queue by one anchored at the checkpoint block and rewinds
\* the download EpochsToFinalizedTentative epochs before the mismatch.
\* Mutant: the cached root is compared with itself (no root check).
CheckFinalizedNoRootCheck(epoch) ==
    LET F       == epoch * SlotsPerEpoch
        checked == {i \in latestFinalized..(F - 1) : blockHistory[i] # NoBlock}
    IN /\ latestFinalized' = IF checked = {} THEN latestFinalized ELSE Max(checked)
       /\ UNCHANGED <<nextSlot, blockHistory, headBlock, stateHistory,
                      blockRows, txRows, epochDrops>>

\* Mutant: the rewind slot is not handed back to the download loop.
CheckFinalizedKeepNext(epoch) ==
    LET F          == epoch * SlotsPerEpoch
        checked    == {i \in latestFinalized..(F - 1) : blockHistory[i] # NoBlock}
        mismatches == {i \in checked :
                         CachedStateRoot(blockHistory[i]) # RequestStateRoot(i)}
    IN IF mismatches = {}
       THEN /\ latestFinalized' = IF checked = {} THEN latestFinalized ELSE Max(checked)
            /\ UNCHANGED <<nextSlot, blockHistory, headBlock, stateHistory,
                           blockRows, txRows, epochDrops>>
       ELSE LET i == Min(mismatches) IN
            /\ RewindBlockMetrics(i)
            /\ RewindEpochMetrics(SlotSub(EpochOf(i), 1))
            /\ NewStateQueue(chain[F])
            /\ UNCHANGED nextSlot

CheckFinalized(epoch) ==
    LET F          == epoch * SlotsPerEpoch
        fb         == chain[F]
        checked    == {i \in latestFinalized..(F - 1) : blockHistory[i] # NoBlock}
        mismatches == {i \in checked :
                         CachedStateRoot(blockHistory[i]) # RequestStateRoot(i)}
    IN IF mismatches = {}
       THEN /\ latestFinalized' = IF checked = {} THEN latestFinalized ELSE Max(checked)
            /\ UNCHANGED <<nextSlot, blockHistory, headBlock, stateHistory,
                           blockRows, txRows, epochDrops>>
       ELSE LET i == Min(mismatches) IN
            /\ RewindBlockMetrics(i)
            /\ RewindEpochMetrics(SlotSub(EpochOf(i), 1))
            /\ NewStateQueue(fb)
            /\ nextSlot' = SlotSub(i, EpochsToFinalizedTentative * SlotsPerEpoch)

\* case newFinalCheckpoint := <-FinalizedChan: persist the checkpoint row,
\* then CheckFinalized; a rewind moves nextSlotDownload.
HandleFinalized ==
    /\ pc = "loop"
    /\ finChan # <<>>
    /\ finChan' = Tail(finChan)
    /\ eventRows' = eventRows \cup {[kind |-> "checkpoint", at |-> Head(finChan)]}
    /\ CheckFinalized(Head(finChan))
    /\ UNCHANGED <<envVars, headChan, reorgChan, pc, target, startSlot, sendTask, procVars,
                   opRows, orphanRows>>

\* Reorg(baseSlot, slot, &queue): drop block rows from baseSlot, epoch rows
\* if the reorg ends an epoch or crosses an epoch boundary, persist the
\* cached blocks of [baseSlot, slot) as orphans and rewind the queue.
Reorg(baseSlot, slot) ==
    /\ RewindBlockMetrics(baseSlot)
    /\ IF slot % SlotsPerEpoch = SlotsPerEpoch - 1
          \/ EpochOf(baseSlot) # EpochOf(slot)
       THEN RewindEpochMetrics(SlotSub(EpochOf(baseSlot), 1))
       ELSE UNCHANGED epochDrops
    /\ orphanRows' = orphanRows \cup
                       {blockHistory[i] : i \in {j \in baseSlot..(slot - 1) :
                                                   blockHistory[j] # NoBlock}}
    /\ Rewind(baseSlot)

\* case newReorg := <-ReorgChan: persist the reorg row; if baseSlot was
\* already downloaded, Reorg and continue from queue.HeadBlock.Slot + 1.
HandleReorg ==
    /\ pc = "loop"
    /\ reorgChan # <<>>
    /\ LET r        == Head(reorgChan)
           baseSlot == SlotSub(r.slot, r.depth)
       IN /\ reorgChan' = Tail(reorgChan)
          /\ eventRows' = eventRows \cup {[kind |-> "reorg", at |-> r.slot]}
          /\ IF nextSlot > baseSlot
             THEN /\ Reorg(baseSlot, r.slot)
                  /\ nextSlot' = SlotAdd(headBlock', 1)
             ELSE UNCHANGED <<nextSlot, cacheVars, blockRows, txRows,
                              orphanRows, epochDrops>>
    /\ UNCHANGED <<envVars, headChan, finChan, pc, target, startSlot, sendTask, procVars,
                   opRows>>

-----------------------------------------------------------------------------
(* The block-processing pool.                                              *)

\* A worker receives a BlockTask from blockTaskChan. The receiving loop is
\* not in the repository; the task carries the downloaded block (lines
\* 302-306), and the worker processes that block.
TakeBlockTask(w) ==
    /\ worker[w] = Idle
    /\ blockTaskChan # <<>>
    /\ worker' = [worker EXCEPT ![w] = Head(blockTaskChan)]
    /\ blockTaskChan' = Tail(blockTaskChan)
    /\ UNCHANGED <<envVars, chanVars, dlVars, cacheVars, dbVars>>

\* PersistBlocks and processWithdrawals: the block row and the rows of its
\* withdrawals, which are dropped together; one entry per slot.
PersistBlockAndWithdrawals(b) == [blockRows EXCEPT ![b.slot] = b]

\* processTransactions: the block's transactions, none for a missed slot.
processTransactions(b) ==
    IF b.proposed THEN UpsertTransaction(txRows, b) ELSE txRows

\* ProcessETH1Data: when GetBlockReceipts fails the error is logged and
\* neither transactions nor blob sidecars are stored; otherwise both are
\* (txRows stands for the two).
ProcessETH1Data(b, receiptsOk) ==
    IF receiptsOk THEN processTransactions(b) ELSE txRows

\* processDeposits, processBLSToExecutionChanges: nothing for a block with
\* none, which a missed slot is.
ProcessConsensusOps(b) == IF b.proposed THEN opRows \cup {b} ELSE opRows

\* ProcessBlock for the task's block: its row and withdrawals, (if
\* enabled) its ETH1 data, its BLS changes and deposits are persisted.
\* (process_block.go:22 takes the block from s.downloadCache instead,
\* which runDownloadBlocksFinalized never fills; its queue is local.)
ProcessBlock(w) ==
    /\ worker[w] # Idle
    /\ LET b == worker[w] IN
       /\ blockRows' = PersistBlockAndWithdrawals(b)
       /\ \E receiptsOk \in BOOLEAN :
             txRows' = IF TxMetrics THEN ProcessETH1Data(b, receiptsOk) ELSE txRows
       /\ opRows' = ProcessConsensusOps(b)
    /\ worker' = [worker EXCEPT ![w] = Idle]
    /\ UNCHANGED <<envVars, chanVars, dlVars, cacheVars, blockTaskChan,
                   orphanRows, epochDrops, eventRows>>

-----------------------------------------------------------------------------
(* The process dies and is started again.                                  *)

\* The process exits: the goroutines, channels, subscriptions and the cache
\* are gone (cleared here; Restart sets them anew); the database and the
\* beacon node remain.
Die ==
    /\ pc' = "down"
    /\ crashes' = crashes + 1
    /\ headChan' = <<>> /\ finChan' = <<>> /\ reorgChan' = <<>>
    /\ sendTask' = Idle
    /\ blockTaskChan' = <<>> /\ worker' = [w \in Workers |-> Idle]
    /\ nextSlot' = 0 /\ target' = 0 /\ startSlot' = 0
    /\ blockHistory' = [s \in Slots |-> NoBlock] /\ stateHistory' = blockHistory'
    /\ headBlock' = 0 /\ latestFinalized' = 0
    /\ UNCHANGED <<envVars, firstSlot>>

\* The process dies inside ProcessBlock: with transactions enabled and the
\* receipts fetched, the block, withdrawal and transaction rows are stored,
\* RequestBlobSidecars fails and log.Fatalf exits before the blob
\* sidecars, BLS changes and deposits are stored.
ProcessBlockFatal(w) ==
    /\ crashes < MaxCrashes
    /\ TxMetrics
    /\ worker[w] # Idle
    /\ LET b == worker[w] IN
       /\ blockRows' = PersistBlockAndWithdrawals(b)
       /\ txRows' = processTransactions(b)
    /\ Die
    /\ UNCHANGED <<opRows, orphanRows, epochDrops, eventRows>>

\* Any other exit: a log.Panicf on a failed beacon-node request, or the
\* process being killed.
Crash ==
    /\ pc # "down" /\ crashes < MaxCrashes
    /\ Die
    /\ UNCHANGED dbVars

\* A new process runs runDownloadBlocksFinalized from the start: the
\* finalized block and head as the node reports them now, and the
\* database's last slot.
Restart ==
    /\ pc = "down"
    /\ LET F == finEpoch * SlotsPerEpoch IN
       /\ nextSlot' = ResumeSlot(ObtainLastSlot, F)
       /\ NewStateQueue(chain[F])
    /\ startSlot' = nextSlot'
    /\ target' = chainHead
    /\ pc' = "catchup"
    /\ UNCHANGED <<envVars, chanVars, sendTask, procVars, dbVars, faultVars>>

Fault == Crash \/ Restart \/ \E w \in Workers : ProcessBlockFatal(w)

-----------------------------------------------------------------------------
Analyzer ==
    /\ \/ CatchUpDownload \/ SendBlockTask \/ Subscribe
       \/ HandleHead \/ HeadDownload \/ HeadDone
       \/ HandleFinalized \/ HandleReorg
       \/ \E w \in Workers : TakeBlockTask(w) \/ ProcessBlock(w)
    /\ UNCHANGED faultVars

(* The beacon node has reached the model's bounds and the analyzer waits   *)
(* in its select with nothing to do: the end of a behaviour.               *)
Terminated ==
    /\ ~ENABLED Environment
    /\ pc = "loop"
    /\ headChan = <<>> /\ finChan = <<>> /\ reorgChan = <<>>
    /\ sendTask = Idle /\ blockTaskChan = <<>>
    /\ \A w \in Workers : worker[w] = Idle

Done == Terminated /\ UNCHANGED vars

Next == Environment \/ Analyzer \/ Fault \/ Done

(* The goroutines are scheduled fairly; the beacon node is not obliged to  *)
(* produce anything, and nothing in the repository restarts a dead        *)
(* process.                                                                *)
Spec == Init /\ [][Next]_vars /\ WF_vars(Analyzer)

-----------------------------------------------------------------------------
(* Properties.                                                             *)

TypeOK ==
    /\ chain \in [Slots -> Blocks \cup {NoBlock}]
    /\ chainHead \in Slots /\ finEpoch \in Epochs /\ forks \in Forks
    /\ headChan \in Seq(Slots) /\ finChan \in Seq(Epochs)
    /\ reorgChan \in Seq([slot : Slots, depth : Slots])
    /\ pc \in {"catchup", "loop", "head", "down"}
    /\ nextSlot \in 0..(SlotRange - 1) /\ target \in Slots
    /\ sendTask \in Blocks \cup {Idle}
    /\ blockHistory \in [Slots -> Blocks \cup {NoBlock}]
    /\ headBlock \in 0..(SlotRange - 1) /\ latestFinalized \in Slots
    /\ stateHistory \in [Slots -> Blocks \cup {NoBlock}]
    /\ blockTaskChan \in Seq(Blocks) /\ Len(blockTaskChan) <= ChanCap
    /\ worker \in [Workers -> Blocks \cup {Idle}]
    /\ blockRows \in [Slots -> Blocks \cup {NoBlock}]
    /\ txRows \subseteq Blocks /\ opRows \subseteq Blocks /\ orphanRows \subseteq Blocks
    /\ epochDrops \subseteq 0..(SlotRange - 1)
    /\ firstSlot \in 0..(SlotRange - 1) /\ crashes \in 0..MaxCrashes

\* The analyzer has handled every event, every block task, and has
\* downloaded past the head: the database should now mirror the chain.
CaughtUp ==
    /\ pc = "loop"
    /\ headChan = <<>> /\ finChan = <<>> /\ reorgChan = <<>>
    /\ blockTaskChan = <<>>
    /\ \A w \in Workers : worker[w] = Idle
    /\ nextSlot > chainHead

(* The guarantee the finalized mode is built for: once caught up, every    *)
(* slot from the first one downloaded up to the queue's finalized anchor   *)
(* has the canonical block row. Every reorg that escaped the event         *)
(* handlers must have been caught by CheckFinalized's state-root walk.     *)
FinalizedRowsCanonical ==
    CaughtUp => \A s \in startSlot..latestFinalized : blockRows[s] = chain[s]

(* The queue's finalized anchor, advanced by CheckFinalized only over      *)
(* blocks whose state root the node confirmed, is a canonical block.       *)
FinalizedAnchorCanonical ==
    blockHistory[latestFinalized] \in {NoBlock, chain[latestFinalized]}

(* Reorg persists as orphans only blocks that the reorg removed from the   *)
(* canonical chain (spec: orphan rows for the pre-reorg blocks).           *)
OrphansNotCanonical ==
    \A o \in orphanRows : chain[o.slot] # o

BlockOpsComplete ==
    CaughtUp => \A s \in firstSlot..latestFinalized :
                   blockRows[s] # NoBlock /\ blockRows[s].proposed
                      => blockRows[s] \in opRows

=============================================================================
