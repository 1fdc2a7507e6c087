---------------------------- MODULE GenerateChange ----------------------------
(***************************************************************************)
(* generateChangeSdk: the change inputs and change outputs that fund a new *)
(* transaction, while other calls take change outputs of the same basket   *)
(* and give them back.  A call of allocateChangeInput or                   *)
(* releaseChangeInput is a step of its own, and so is a turn of each loop. *)
(***************************************************************************)
EXTENDS Integers, FiniteSets, Sequences, FiniteSetsExt, Functions

CONSTANTS
    Ids,                    \* the outputs of the user's change basket
    Satoshis,               \* what each of them holds
    FixedInputs,            \* the satoshis of the fixed inputs a caller may have, and
    FixedOutputs,           \* of its fixed outputs: sets of sequences
    TargetNetCounts,        \* targetNetCount, or None
    None,
    ChangeInitialSatoshis,
    ChangeFirstSatoshis,
    LockingScriptLength,    \* of every output
    UnlockingScriptLength,  \* of every input
    SatsPerKb,
    MaxTaken                \* bound: outputs that other calls take or give back

ASSUME ParamsAssumption ==
    /\ IsFiniteSet(Ids) /\ Satoshis \in [Ids -> Nat]
    /\ FixedInputs \subseteq Seq(Nat) /\ FixedOutputs \subseteq Seq(Nat)
    /\ None \notin Nat \cup Ids /\ TargetNetCounts \subseteq Int \cup {None}
    /\ {ChangeInitialSatoshis, ChangeFirstSatoshis} \subseteq Nat \ {0}
    /\ {LockingScriptLength, UnlockingScriptLength, SatsPerKb, MaxTaken} \subseteq Nat

VARIABLES
    fixedInputs, fixedOutputs, targetNetCount,
    change,             \* the user's outputs: "free", "mine" (spent by this action) or "other"
    allocated,          \* allocatedChangeInputs, in order
    outputs,            \* the satoshis of changeOutputs, in order
    removing,           \* removingOutputs
    excess,             \* feeExcessNow, where it is read
    stage,
    taken

params == <<fixedInputs, fixedOutputs, targetNetCount>>
vars == <<params, change, allocated, outputs, removing, excess, stage, taken>>

Init ==
    /\ fixedInputs \in FixedInputs
    /\ fixedOutputs \in FixedOutputs
    /\ targetNetCount \in TargetNetCounts
    /\ change \in [Ids -> {"free", "other"}]
    /\ allocated = <<>>
    /\ outputs = <<>>
    /\ removing = FALSE
    /\ excess = 0
    /\ stage = "grow"
    /\ taken = 0
-----------------------------------------------------------------------------
(* Sizes and fees.                                                         *)

VarUintSize(n) == IF n <= 252 THEN 1 ELSE IF n <= 65535 THEN 3 ELSE 5

TransactionInputSize(script) == 32 + 4 + VarUintSize(script) + script + 4
TransactionOutputSize(script) == VarUintSize(script) + script + 8

TransactionSize(ins, outs) ==
    4 + VarUintSize(ins) + ins * TransactionInputSize(UnlockingScriptLength)
      + VarUintSize(outs) + outs * TransactionOutputSize(LockingScriptLength) + 4

Size(addedInputs, addedOutputs) ==
    TransactionSize(Len(fixedInputs) + Len(allocated) + addedInputs,
                    Len(fixedOutputs) + Len(outputs) + addedOutputs)

\* Rounded up.
FeeOf(size) == (size * SatsPerKb + 999) \div 1000
FeeTarget(addedInputs, addedOutputs) == FeeOf(Size(addedInputs, addedOutputs))

Sum(seq) == FoldFunction(LAMBDA x, y : x + y, 0, seq)

Funding == Sum(fixedInputs) + Sum([n \in DOMAIN allocated |-> Satoshis[allocated[n]]])
Spending == Sum(fixedOutputs)
Fee == Funding - Spending - Sum(outputs)

FeeExcess(addedInputs, addedOutputs) == Fee - FeeTarget(addedInputs, addedOutputs)
FeeExcessNow == FeeExcess(0, 0)

NetChangeCount == Len(outputs) - Len(allocated)
AddOutputToBalanceNewInput ==
    targetNetCount # None /\ NetChangeCount - 1 < targetNetCount

NextOutput == IF outputs = <<>> THEN ChangeFirstSatoshis ELSE ChangeInitialSatoshis
-----------------------------------------------------------------------------
(* The storage.                                                            *)

Free == {i \in Ids : change[i] = "free"}

\* allocateChangeInput: the exact output if one is asked for, else the smallest that is
\* enough, else the largest.
Closest(target, exact) ==
    LET fits == {i \in Free : Satoshis[i] >= target}
    IN  IF \E i \in Free : Satoshis[i] = exact THEN {i \in Free : Satoshis[i] = exact}
        ELSE IF fits # {} THEN {i \in fits : \A j \in fits : Satoshis[i] <= Satoshis[j]}
        ELSE {i \in Free : \A j \in Free : Satoshis[i] >= Satoshis[j]}

\* Other calls of the user.
OtherTakes ==
    /\ taken < MaxTaken
    /\ \E i \in Ids : /\ change[i] \in {"free", "other"}
                      /\ change' = [change EXCEPT ![i] = IF @ = "free" THEN "other" ELSE "free"]
    /\ taken' = taken + 1
    /\ UNCHANGED <<params, allocated, outputs, removing, excess, stage>>
-----------------------------------------------------------------------------
(* generateChangeSdk.                                                      *)

\* Outputs we would like to have; they may be removed if they cannot be funded.
Wanted ==
    \/ targetNetCount # None /\ targetNetCount > NetChangeCount
    \/ outputs = <<>> /\ FeeExcessNow > 0

Grow ==
    /\ stage = "grow"
    /\ IF Wanted THEN /\ outputs' = Append(outputs, NextOutput)
                      /\ UNCHANGED stage
                 ELSE /\ stage' = "release"
                      /\ UNCHANGED outputs
    /\ UNCHANGED <<params, change, allocated, removing, excess, taken>>

\* Mutant: the inputs are dropped, and stay allocated.
ReleasedNone(i) == change

Released(i) == [change EXCEPT ![i] = "free"]

\* releaseAllocatedChangeInputs, the first step of every turn of the starvation loop.
ReleaseInput ==
    /\ stage = "release"
    /\ IF allocated # <<>>
       THEN /\ change' = Released(allocated[Len(allocated)])
            /\ allocated' = SubSeq(allocated, 1, Len(allocated) - 1)
            /\ UNCHANGED stage
       ELSE /\ stage' = "fund"
            /\ UNCHANGED <<change, allocated>>
    /\ UNCHANGED <<params, outputs, removing, excess, taken>>

\* Mutant: a new input brings an output even while outputs are being removed.
MayAddOutputAlways(more) == more > 0

MayAddOutput(more) == ~removing /\ more > 0

\* attemptToFundTransaction, with the input it was given.
FundWith(i, ao) ==
    LET more == Fee + Satoshis[i] - FeeTarget(1, 0)
    IN  /\ change' = [change EXCEPT ![i] = "mine"]
        /\ allocated' = Append(allocated, i)
        /\ outputs' = IF MayAddOutput(more) /\ (ao = 1 \/ outputs = <<>>)
                      THEN Append(outputs, Min({more, NextOutput})) ELSE outputs

\* The funding loop.
Fund ==
    /\ stage = "fund"
    /\ IF FeeExcessNow >= 0
       THEN stage' = "funded" /\ UNCHANGED <<change, allocated, outputs>>
       ELSE LET exact == IF targetNetCount = None /\ outputs = <<>> THEN -FeeExcess(1, 0) ELSE -1
                ao == IF AddOutputToBalanceNewInput THEN 1 ELSE 0
                target == -FeeExcess(1, ao) + ao * 2 * ChangeInitialSatoshis
            IN  \/ /\ \E i \in Closest(target, exact) : FundWith(i, ao)
                   /\ UNCHANGED stage
                \/ /\ Free = {}
                   /\ stage' = "funded"
                   /\ UNCHANGED <<change, allocated, outputs>>
    /\ UNCHANGED <<params, removing, excess, taken>>

\* Without its last n outputs.
ExcessWithout(n) ==
    LET kept == SubSeq(outputs, 1, Len(outputs) - n)
    IN  Funding - Spending - Sum(kept) - FeeTarget(0, -n)

\* Mutant: all of them.
PoppedAll == Len(outputs)

\* Outputs are popped as long as there are any and too little is left for the fee.
Popped == Min({n \in 1 .. Len(outputs) : n = Len(outputs) \/ ExcessWithout(n) >= 0})

\* The end of a turn of the starvation loop.
Starve ==
    /\ stage = "funded"
    /\ IF FeeExcessNow >= 0 \/ outputs = <<>>
       THEN stage' = "check" /\ UNCHANGED <<removing, outputs>>
       ELSE /\ removing' = TRUE
            /\ outputs' = SubSeq(outputs, 1, Len(outputs) - Popped)
            /\ stage' = IF ExcessWithout(Popped) < 0 THEN "check" ELSE "release"
    /\ UNCHANGED <<params, change, allocated, excess, taken>>

\* Mutant: an excess no output can take is left to the fee.
InsufficientIfUnder == FeeExcessNow < 0

\* Too little, or an excess that no output can take.
Insufficient == FeeExcessNow < 0 \/ (outputs = <<>> /\ FeeExcessNow > 0)

Check ==
    /\ stage = "check"
    /\ excess' = FeeExcessNow
    /\ stage' = IF Insufficient THEN "insufficient" ELSE "distribute"
    /\ UNCHANGED <<params, change, allocated, outputs, removing, taken>>

Give(k, n) ==
    /\ outputs' = [outputs EXCEPT ![k] = @ + n]
    /\ excess' = excess - n

\* The excess goes to the change outputs: to the only one; to the first one until it has the
\* initial amount; or a share of 25% to 50%, but at least one satoshi, to any of them.
Distribute ==
    /\ stage = "distribute"
    /\ outputs # <<>> /\ excess > 0
    /\ IF Len(outputs) = 1 THEN Give(1, excess)
       ELSE IF outputs[1] < ChangeInitialSatoshis
       THEN Give(1, Min({excess, ChangeInitialSatoshis - outputs[1]}))
       ELSE \E share \in (excess * 25) \div 100 .. excess \div 2 : \E k \in DOMAIN outputs :
              Give(k, Max({1, share}))
    /\ UNCHANGED <<params, change, allocated, removing, stage, taken>>

\* validateGenerateChangeSdkResult: what is left of the inputs is the fee that is required.
ResultOk == FeeTarget(0, 0) = Fee

Finish ==
    /\ stage = "distribute"
    /\ outputs = <<>> \/ excess <= 0
    /\ stage' = IF ResultOk THEN "done" ELSE "internal"
    /\ UNCHANGED <<params, change, allocated, outputs, removing, excess, taken>>

Step == Grow \/ ReleaseInput \/ Fund \/ Starve \/ Check \/ Distribute \/ Finish
Next == Step \/ OtherTakes

Spec == Init /\ [][Next]_vars

\* The call is awaited; nothing makes other calls happen.
FairSpec == Spec /\ WF_vars(Step)
-----------------------------------------------------------------------------
Ended == stage \in {"done", "insufficient", "internal"}

TypeOK ==
    /\ change \in [Ids -> {"free", "mine", "other"}]
    /\ allocated \in Seq(Ids)
    /\ removing \in BOOLEAN /\ taken \in 0 .. MaxTaken
    /\ stage \in {"grow", "release", "fund", "funded", "check", "distribute", "done",
                  "insufficient", "internal"}

\* The outputs that storage has allocated to the action are its inputs, each of them once,
\* whichever were released on the way: none is forgotten in storage, none is spent twice.
AllocatedAreInputs ==
    /\ {i \in Ids : change[i] = "mine"} = Range(allocated)
    /\ IsInjective(allocated)

\* The validation at the end never fails: however the change was found, inputs, outputs and
\* exactly the required fee balance, and no change output is empty.
NeverInternal == stage # "internal" /\ \A n \in DOMAIN outputs : outputs[n] > 0

\* What the outputs S hold.
Worth(S) == MapThenSumSet(LAMBDA i : Satoshis[i], S)

\* What spending the outputs S, besides the fixed inputs, would leave for n change outputs.
Left(S, n) ==
    LET in == Len(fixedInputs) + Cardinality(S)
        sats == Sum(fixedInputs) + Worth(S)
    IN  sats - Spending - FeeOf(TransactionSize(in, Len(fixedOutputs) + n))

\* Outputs that are worth less than the fee of spending them; one more may make the count
\* of the inputs longer, too.
Dust == {i \in Ids : Satoshis[i] * 1000 <
                       (TransactionInputSize(UnlockingScriptLength) + 2) * SatsPerKb}

\* It gives up for want of funds only if all the outputs that were there are too little, and
\* for an excess that no output takes only if no choice of them leaves enough for a change
\* output; unless other calls took some meanwhile, or some are worth less than the fee of
\* spending them: these are added when nothing else is left, and the action is short of
\* their fee as well.
GivesUpRightly ==
    LET had == {i \in Ids : change[i] # "other"}
    IN  stage = "insufficient" /\ taken = 0 /\ had \cap Dust = {} =>
          \A S \in SUBSET had : /\ Left(S, 1) < ChangeFirstSatoshis
                                /\ FeeExcessNow < 0 => Left(S, 0) < 0

\* The loops come to an end, whatever other calls do.
Terminates == <>Ended
=============================================================================
