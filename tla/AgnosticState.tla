---------------------------- MODULE AgnosticState ----------------------------
(***************************************************************************)
(* The fork-agnostic state view of src/pkg/spec/state.go: how              *)
(* NewAltairState (and the Bellatrix and Capella versions, which are the   *)
(* same code) builds an AgnosticState from a downloaded beacon state, Setup *)
(* followed by ProcessAltairAttestations, and the queries the analyzers     *)
(* make of it: MissingFlags, GetMissingFlagCount, GetValStatus.                *)
(*                                                                         *)
(* The beacon state is the input, chosen in Init from small sets: N         *)
(* validators with effective balances, activation and exit epochs, the      *)
(* slashed bit, balances and the 3-bit previous-epoch participation flags.  *)
(* ProcessAltairAttestations' nested loop runs one (flag, validator) pair   *)
(* per step, as the code does.                                              *)
(***************************************************************************)
EXTENDS Integers, FiniteSets

LOCAL INSTANCE Functions
LOCAL INSTANCE Bitwise

CONSTANTS
    N,                \* len(Validators) = len(Balances) = len(participation)
    EffBalances,      \* possible effective balances
    RealBalances,     \* possible balances
    StateEpochs,      \* possible epochs of the state
    ActivationEpochs, \* possible activation epochs
    ExitEpochs,       \* possible exit epochs (FarFutureEpoch among them)
    EpochWidth        \* phase0.Epoch is unsigned, this many bits

Idx     == 0..(N - 1)
Flags   == 0..2             \* TimelySource, TimelyTarget, TimelyHead
FarFutureEpoch == 2^EpochWidth - 1

ASSUME /\ N \in Nat \ {0}
       /\ StateEpochs \cup ActivationEpochs \cup ExitEpochs \subseteq 0..FarFutureEpoch

VARIABLES
    \* the downloaded beacon state (fixed once chosen)
    epoch, validators, balances, participation,
    \* the AgnosticState fields Setup and ProcessAltairAttestations fill
    totalActiveBalance, totalActiveRealBalance, numActiveVals,
    attestingBalance, maxAttestingBalance, correctFlags,
    attestingVals, numAttestingVals,
    \* where NewAltairState is: "setup", "attest" (the loop) or "done"
    step, flagIdx, valIdx

input  == <<epoch, validators, balances, participation>>
fields == <<totalActiveBalance, totalActiveRealBalance, numActiveVals, attestingBalance,
            maxAttestingBalance, correctFlags, attestingVals, numAttestingVals>>
vars   == <<input, fields, step, flagIdx, valIdx>>

Validator == [effectiveBalance : EffBalances, activationEpoch : ActivationEpochs,
              exitEpoch : ExitEpochs, slashed : BOOLEAN]

-----------------------------------------------------------------------------
\* phase0.Epoch(p.Epoch - 1): unsigned subtraction.
EpochSub1(e) == (e - 1) % (FarFutureEpoch + 1)

\* IsActive(validator, epoch) of the consensus spec.
IsActive(v, e) ==
    validators[v].activationEpoch <= e /\ e < validators[v].exitEpoch

\* (item & flag) == flag with flag = 2^participatingFlag.
HasFlag(item, f) == (item & 2^f) = 2^f

\* ValsEffectiveBalance(valList): the effective balances of the positions
\* with a positive item that index a validator.
ValsEffectiveBalance(valList) ==
    SumFunctionOnSet([v \in Idx |-> validators[v].effectiveBalance],
                     {v \in DOMAIN valList : valList[v] > 0 /\ v < N})

\* GetTotalActiveEffBalance: val_array marks the active validators.
GetTotalActiveEffBalance ==
    ValsEffectiveBalance([v \in Idx |-> IF IsActive(v, epoch) THEN 1 ELSE 0])

GetTotalActiveRealBalance ==
    SumFunctionOnSet(balances, {v \in Idx : IsActive(v, epoch)})

-----------------------------------------------------------------------------
\* MissingFlags(valIdx): flags a validator active in the previous epoch
\* lacks; all false for an index past the CorrectFlags arrays.
MissingFlags(v) ==
    [f \in Flags |-> /\ v < N
                     /\ IsActive(v, EpochSub1(epoch))
                     /\ correctFlags[f][v] = 0]

\* Mutant: activity taken in the state's epoch, not the previous one.
GetMissingFlagCountCurrentEpoch(f) ==
    Cardinality({v \in Idx : IsActive(v, epoch) /\ correctFlags[f][v] = 0})

\* GetMissingFlagCount(flagIndex)
GetMissingFlagCount(f) ==
    Cardinality({v \in Idx : IsActive(v, EpochSub1(epoch)) /\ correctFlags[f][v] = 0})

\* Mutant: a validator is only exited after its exit epoch.
GetValStatusExitStrict(v) ==
    CASE validators[v].exitEpoch < epoch         -> "exit"
      [] validators[v].slashed                   -> "slashed"
      [] validators[v].activationEpoch <= epoch  -> "active"
      [] OTHER                                   -> "queue"

\* GetValStatus(valIdx): exit first, then slashed, then activation.
GetValStatus(v) ==
    CASE validators[v].exitEpoch <= epoch        -> "exit"
      [] validators[v].slashed                   -> "slashed"
      [] validators[v].activationEpoch <= epoch  -> "active"
      [] OTHER                                   -> "queue"

-----------------------------------------------------------------------------
\* NewAltairState: the state's fields copied from the downloaded state.
Init ==
    /\ epoch \in StateEpochs
    /\ validators \in [Idx -> Validator]
    /\ balances \in [Idx -> RealBalances]
    /\ participation \in [Idx -> 0..7]
    /\ totalActiveBalance = 0 /\ totalActiveRealBalance = 0 /\ numActiveVals = 0
    /\ attestingBalance = [f \in Flags |-> 0] /\ maxAttestingBalance = 0
    /\ correctFlags = [f \in Flags |-> [v \in Idx |-> 0]]
    /\ attestingVals = [v \in Idx |-> FALSE] /\ numAttestingVals = 0
    /\ step = "setup" /\ flagIdx = 0 /\ valIdx = 0

\* Setup: fresh per-flag and per-validator arrays, then the two totals;
\* GetTotalActiveEffBalance recounts NumActiveVals.
Setup ==
    /\ step = "setup"
    /\ attestingBalance' = [f \in Flags |-> 0]
    /\ attestingVals' = [v \in Idx |-> FALSE]
    /\ correctFlags' = [f \in Flags |-> [v \in Idx |-> 0]]
    /\ numActiveVals' = Cardinality({v \in Idx : IsActive(v, epoch)})
    /\ totalActiveBalance' = GetTotalActiveEffBalance
    /\ totalActiveRealBalance' = GetTotalActiveRealBalance
    /\ step' = "attest"
    /\ UNCHANGED <<input, maxAttestingBalance, numAttestingVals, flagIdx, valIdx>>

\* Mutant: a validator is counted again for every flag it set.
RecordFlagNoSeenCheck(f, v) ==
    /\ correctFlags' = [correctFlags EXCEPT ![f][v] = @ + 1]
    /\ attestingBalance' = [attestingBalance EXCEPT ![f] = @ + validators[v].effectiveBalance]
    /\ numAttestingVals' = numAttestingVals + 1
    /\ maxAttestingBalance' = validators[v].effectiveBalance
    /\ attestingVals' = [attestingVals EXCEPT ![v] = TRUE]

\* The body of the "(item & flag) == flag" branch: count the correct flag,
\* add the effective balance to the flag's attesting balance and, the
\* first time the validator is met, count it as attesting.
RecordFlag(f, v) ==
    LET eff == validators[v].effectiveBalance IN
    /\ correctFlags' = [correctFlags EXCEPT ![f][v] = @ + 1]
    /\ attestingBalance' = [attestingBalance EXCEPT ![f] = @ + eff]
    /\ numAttestingVals' = IF attestingVals[v] THEN numAttestingVals ELSE numAttestingVals + 1
    /\ maxAttestingBalance' = IF attestingVals[v] THEN maxAttestingBalance ELSE eff
    /\ attestingVals' = [attestingVals EXCEPT ![v] = TRUE]

\* Mutant: the inner loop runs one index past the participation list.
NextPairNoWrap ==
    flagIdx' = flagIdx /\ valIdx' = valIdx + 1

\* The two nested range loops: validators inside, flags outside.
NextPair ==
    IF valIdx = N - 1
    THEN flagIdx' = flagIdx + 1 /\ valIdx' = 0
    ELSE flagIdx' = flagIdx /\ valIdx' = valIdx + 1

\* One iteration of ProcessAltairAttestations' inner loop, for flag
\* flagIdx and validator valIdx.
AttestStep ==
    /\ step = "attest"
    /\ flagIdx \in Flags
    /\ IF HasFlag(participation[valIdx], flagIdx)
       THEN RecordFlag(flagIdx, valIdx)
       ELSE UNCHANGED <<correctFlags, attestingBalance, numAttestingVals,
                        maxAttestingBalance, attestingVals>>
    /\ NextPair
    /\ UNCHANGED <<input, totalActiveBalance, totalActiveRealBalance, numActiveVals, step>>

AttestDone ==
    /\ step = "attest"
    /\ flagIdx = 3
    /\ step' = "done"
    /\ UNCHANGED <<input, fields, flagIdx, valIdx>>

\* The state view is built and only read from now on.
Built == step = "done" /\ UNCHANGED vars

Next == Setup \/ AttestStep \/ AttestDone \/ Built

Spec == Init /\ [][Next]_vars

-----------------------------------------------------------------------------
(* Properties, stated of the finished state view.                          *)

TypeOK ==
    /\ epoch \in StateEpochs /\ validators \in [Idx -> Validator]
    /\ balances \in [Idx -> RealBalances] /\ participation \in [Idx -> 0..7]
    /\ attestingBalance \in [Flags -> Nat] /\ maxAttestingBalance \in Nat
    /\ correctFlags \in [Flags -> [Idx -> Nat]]
    /\ attestingVals \in [Idx -> BOOLEAN]
    /\ numAttestingVals \in Nat /\ numActiveVals \in 0..N
    /\ step \in {"setup", "attest", "done"} /\ flagIdx \in 0..3 /\ valIdx \in Idx

\* Reference: bit f of a participation byte.
FlagBit(item, f) == (item \div 2^f) % 2 = 1

Attested(f) == {v \in Idx : FlagBit(participation[v], f)}
AttestedAny == UNION {Attested(f) : f \in Flags}
Active      == {v \in Idx : IsActive(v, epoch)}
Eff         == [v \in Idx |-> validators[v].effectiveBalance]

(* AttestingBalance[f], accumulated flag by flag over the participation    *)
(* bits, is the total effective balance of the validators that set flag f; *)
(* the validators counted as attesting are those with any flag set, each   *)
(* counted once although the loop visits it once per flag.                  *)
AttestationTotals ==
    step = "done" =>
        /\ \A f \in Flags : attestingBalance[f] = SumFunctionOnSet(Eff, Attested(f))
        /\ numAttestingVals = Cardinality(AttestedAny)
        /\ \A v \in Idx : attestingVals[v] <=> v \in AttestedAny

(* MissingFlags and GetMissingFlagCount, used for the per-validator and    *)
(* per-epoch missed-flag metrics, agree with each other and with the       *)
(* participation bits: a validator misses flag f exactly when it was       *)
(* active in the previous epoch (none before epoch 0) and did not set f.    *)
MissingFlagsAgree ==
    step = "done" =>
        /\ \A f \in Flags :
              GetMissingFlagCount(f) = Cardinality({v \in Idx : MissingFlags(v)[f]})
        /\ \A v \in Idx, f \in Flags :
              MissingFlags(v)[f] <=> /\ epoch > 0 /\ IsActive(v, epoch - 1)
                                     /\ ~FlagBit(participation[v], f)

(* GetValStatus, which fills the validator status column, agrees with the  *)
(* activity used for the totals: a validator is active in the state's      *)
(* epoch exactly when its status is active, or slashed after activation.   *)
StatusMatchesActivity ==
    \A v \in Idx :
        IsActive(v, epoch) <=> \/ GetValStatus(v) = "active"
                               \/ /\ GetValStatus(v) = "slashed"
                                  /\ validators[v].activationEpoch <= epoch

=============================================================================
