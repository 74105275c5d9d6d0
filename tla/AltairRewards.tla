---------------------------- MODULE AltairRewards ----------------------------
(***************************************************************************)
(* The Altair reward view of src/unnamed/part_003 (package custom_spec):   *)
(* NewAltairSpec over a state and the state one epoch before it,           *)
(* CalculatePreviousAttestingVals, ValsEffectiveBalance,                    *)
(* and TotalActiveBalance.                                                  *)
(*                                                                         *)
(* The two beacon states are the input, chosen in Init: the previous state *)
(* has PrevN validators and the current one CurN >= PrevN (deposits only    *)
(* add validators). A validator appended since the previous state is not   *)
(* active yet, so it has no participation flags. Effective balances are     *)
(* counted in increments                                                    *)
(* (EFFECTIVE_BALANCE_INCREMENT = 1). The floating-point reward formulas   *)
(* (GetMaxAttestationReward, GetMaxSyncComReward) are not modelled.         *)
(***************************************************************************)
EXTENDS Integers, FiniteSets

LOCAL INSTANCE Functions
LOCAL INSTANCE Bitwise

CONSTANTS
    N,                \* the largest validator count
    EffBalances,      \* possible effective balances, in increments
    MaxEffIncrements, \* MAX_EFFECTIVE_INCREMENTS
    StateSlots,       \* possible slots of the current state
    SlotsPerEpoch,    \* 32 in the code
    ActivationEpochs, \* possible activation epochs
    FarFutureEpoch \* exit epoch of a validator that has not exited

ASSUME N \in Nat \ {0} /\ MaxEffIncrements \in EffBalances

Flags == 0..2

VARIABLES
    prevN, curN,              \* len(PrevBState.Validators), len(BState.Validators)
    slot,                     \* BState.Altair.Slot
    effBalance,               \* BState validators' effective balances
    activation,               \* BState validators' activation epochs
    participation,            \* BState.PreviousEpochParticipation
    attestingVals,            \* AltairSpec.AttestingVals: flag -> index -> count
    attestingBalance,         \* AltairSpec.AttestingBalance
    step, flagIdx, valIdx     \* "attest" or "done"

input == <<prevN, curN, slot, effBalance, activation, participation>>
vars  == <<input, attestingVals, attestingBalance, step, flagIdx, valIdx>>

CurIdx  == 0..(curN - 1)
PrevIdx == 0..(prevN - 1)

-----------------------------------------------------------------------------
\* CurrentEpoch(): slot / 32.
CurrentEpoch == slot \div SlotsPerEpoch

IsActive(v, e) == activation[v] <= e /\ e < FarFutureEpoch

\* Mutant: the flag index is used as the bit mask.
HasFlagIndex(item, f) == (item & f) = f

\* (item & flag) == flag with flag = 2^participatingFlag.
HasFlag(item, f) == (item & 2^f) = 2^f

\* ValsEffectiveBalance(valList): effective balances of the BState
\* validators whose entry is positive.
ValsEffectiveBalance(valList) ==
    SumFunctionOnSet(effBalance, {v \in DOMAIN valList : valList[v] > 0})

\* TotalActiveBalance(): in the genesis epoch every validator is taken as
\* pre-activated at the maximum effective balance.
TotalActiveBalance ==
    IF slot < SlotsPerEpoch
    THEN curN * MaxEffIncrements
    ELSE ValsEffectiveBalance([v \in CurIdx |-> IF IsActive(v, CurrentEpoch) THEN 1 ELSE 0])

-----------------------------------------------------------------------------
\* NewAltairSpec: AttestingVals has one array per flag, sized by the
\* previous state's validator list.
Init ==
    /\ prevN \in 1..N /\ curN \in prevN..N
    /\ slot \in StateSlots
    /\ effBalance \in [0..(curN - 1) -> EffBalances]
    /\ activation \in [0..(curN - 1) -> ActivationEpochs]
    /\ participation \in [0..(curN - 1) -> 0..7]
    /\ \A v \in 0..(curN - 1) : v >= prevN => participation[v] = 0
    /\ attestingVals = [f \in Flags |-> [v \in 0..(prevN - 1) |-> 0]]
    /\ attestingBalance = [f \in Flags |-> 0]
    /\ step = "attest" /\ flagIdx = 0 /\ valIdx = 0

\* Mutant: the inner loop runs one index past the participation list.
NextPairNoWrap ==
    flagIdx' = flagIdx /\ valIdx' = valIdx + 1

\* The two nested range loops: validators inside, flags outside.
NextPair ==
    IF valIdx = curN - 1
    THEN flagIdx' = flagIdx + 1 /\ valIdx' = 0
    ELSE flagIdx' = flagIdx /\ valIdx' = valIdx + 1

\* One iteration of CalculatePreviousAttestingVals, which ranges over the
\* current state's participation list and writes AttestingVals.
AttestStep ==
    /\ step = "attest"
    /\ flagIdx \in Flags
    /\ IF HasFlag(participation[valIdx], flagIdx)
       THEN attestingVals' = [attestingVals EXCEPT ![flagIdx][valIdx] = @ + 1]
       ELSE UNCHANGED attestingVals
    /\ NextPair
    /\ UNCHANGED <<input, attestingBalance, step>>

\* The loop over AttestingBalance in NewAltairSpec.
SumAttesting ==
    /\ step = "attest" /\ flagIdx = 3
    /\ attestingBalance' = [f \in Flags |-> ValsEffectiveBalance(attestingVals[f])]
    /\ step' = "done"
    /\ UNCHANGED <<input, attestingVals, flagIdx, valIdx>>

\* The spec is built and only read from now on.
Finished == step = "done" /\ UNCHANGED vars

Next == AttestStep \/ SumAttesting \/ Finished

Spec == Init /\ [][Next]_vars

-----------------------------------------------------------------------------
TypeOK ==
    /\ prevN \in 1..N /\ curN \in prevN..N /\ slot \in StateSlots
    /\ attestingVals \in [Flags -> [PrevIdx -> Nat]]
    /\ attestingBalance \in [Flags -> Nat]
    /\ step \in {"attest", "done"} /\ flagIdx \in 0..3 /\ valIdx \in CurIdx

\* Reference: bit f of a participation byte.
FlagBit(item, f) == (item \div 2^f) % 2 = 1

(* AttestingBalance[f] is the effective balance of the validators that     *)
(* set flag f in the previous epoch, summed once each.                      *)
AttestingBalanceMatches ==
    step = "done" =>
        \A f \in Flags :
            attestingBalance[f] =
                SumFunctionOnSet(effBalance, {v \in CurIdx : FlagBit(participation[v], f)})

=============================================================================
