---------------------------- MODULE PutGrowthProofs ----------------------------
(***************************************************************************)
(* PutGrowth for any words, any bound, any paths and any lists: the budget *)
(* never wraps, what a put grows fits beside what the builder holds, no    *)
(* length loses an element, and nothing that fits is refused.              *)
(***************************************************************************)
EXTENDS PutGrowth, TLAPS

\* A remainder below the divisor is the number itself.
LEMMA SmallRemainder ==
  ASSUME NEW m \in Nat, NEW n \in Nat, m < n
  PROVE  m % n = m
OBVIOUS

\* Products of naturals grow with their factors.
LEMMA ProductBound ==
  ASSUME NEW m \in Nat, NEW n \in Nat, NEW p \in Nat, NEW q \in Nat,
         m <= p, n <= q
  PROVE  m * n \in Nat /\ m * n <= p * q
<1>1. m * n \in Nat /\ p * n \in Nat /\ p * q \in Nat
  OBVIOUS
<1>2. (p - m) * n >= 0 /\ p * (q - n) >= 0
  OBVIOUS
<1>3. (p - m) * n = p * n - m * n /\ p * (q - n) = p * q - p * n
  OBVIOUS
<1> QED
  BY <1>1, <1>2, <1>3

\* The wide word holds what the narrow one does.
LEMMA WordsNest == Word32 < Word64
BY WordAssumption, ProductBound

\* The bytes of any step and of any list are counted exactly, and a vector
\* grown to an index takes more bytes than the index says.
LEMMA BytesAreExact ==
  /\ \A step \in Steps :
       /\ ElementBytes(step) \in 1..MostElementBytes
       /\ GrownBytes(step) = (step.index + 1) * ElementBytes(step)
       /\ GrownBytes(step) \in Nat
       /\ GrownBytes(step) < Word64
       /\ step.index < GrownBytes(step)
  /\ \A list \in Lists :
       /\ WholeBytes(list) = list.count * list.bytes
       /\ WholeBytes(list) \in Nat
<1>1. ASSUME NEW step \in Steps
      PROVE  /\ ElementBytes(step) \in 1..MostElementBytes
             /\ GrownBytes(step) = (step.index + 1) * ElementBytes(step)
             /\ GrownBytes(step) \in Nat
             /\ GrownBytes(step) < Word64
             /\ step.index < GrownBytes(step)
  <2>1. /\ step.index + 1 \in Nat \ {0} /\ step.index + 1 <= Word32
        /\ step.index \in Nat
    BY WordAssumption DEF Steps
  <2>2. ElementBytes(step) \in 1..MostElementBytes
    BY WordAssumption DEF Steps, ElementBytes
  <2>3. (step.index + 1) * ElementBytes(step) \in Nat
        /\ (step.index + 1) * ElementBytes(step) <= Word32 * MostElementBytes
    BY <2>1, <2>2, WordAssumption, ProductBound
  <2>4. (step.index + 1) * 1 <= (step.index + 1) * ElementBytes(step)
    BY <2>1, <2>2, WordAssumption, ProductBound
  <2>5. (step.index + 1) % Word64 = step.index + 1
    BY <2>1, WordsNest, WordAssumption, SmallRemainder
  <2>6. GrownBytes(step) = (step.index + 1) * ElementBytes(step)
    <3>1. (step.index + 1) * ElementBytes(step) < Word64
      BY <2>3, WordAssumption
    <3> QED
      BY <2>3, <2>5, <3>1, WordAssumption, SmallRemainder DEF GrownBytes
  <2> QED
    BY <2>1, <2>2, <2>3, <2>4, <2>6, WordAssumption
<1>2. ASSUME NEW list \in Lists
      PROVE  WholeBytes(list) = list.count * list.bytes /\ WholeBytes(list) \in Nat
  <2>1. list.count \in 0..(Word32 - 1) /\ list.bytes \in 1..MostElementBytes
    BY DEF Lists
  <2>2. list.count * list.bytes \in Nat
        /\ list.count * list.bytes <= Word32 * MostElementBytes
    BY <2>1, WordAssumption, ProductBound
  <2>3. list.count * list.bytes < Word64
    BY <2>2, WordAssumption
  <2> QED
    BY <2>2, <2>3, WordAssumption, SmallRemainder DEF WholeBytes
<1> QED
  BY <1>1, <1>2

\* A step whose index the narrow word can count past gets a vector with a place
\* for it and for what is stored.
LEMMA LengthHoldsBoth ==
  ASSUME NEW step \in Steps, step.index + 1 < Word32
  PROVE  /\ GrownLength(step) \in 0..(Word64 - 1)
         /\ step.index < GrownLength(step)
         /\ step.stored <= GrownLength(step)
<1>1. step.index \in 0..(Word32 - 1) /\ step.stored \in 0..(Word32 - 1)
  BY DEF Steps
<1>2. (step.index + 1) % Word32 = step.index + 1
  BY <1>1, WordAssumption, SmallRemainder
<1>3. (step.index + 1) % Word64 = step.index + 1
  BY <1>1, WordAssumption, WordsNest, SmallRemainder
<1>4. GrownLength(step) = Longer(step.stored, step.index + 1)
  BY <1>2, <1>3 DEF GrownLength
<1> QED
  BY <1>1, <1>4, WordAssumption, WordsNest DEF Longer

-----------------------------------------------------------------------------
\* While vectors are classified nothing of the bound is unaccounted for; a step
\* that is through fits the bound, so its index is far from the narrow word's
\* end; and the builders have given lengths to the steps behind them.
Accounted ==
  phase = "classify" =>
    IF held < bound THEN budget + grown + held = bound
                    ELSE budget = 0 /\ grown = 0

IndicesFit ==
  /\ phase = "classify" => \A k \in 1..(level - 1) : put.path[k].index < Largest
  /\ phase = "build" => \A k \in 1..Len(put.path) : put.path[k].index < Largest

LengthsFollow ==
  /\ phase \in {"classify", "refused"} => lengths = << >>
  /\ phase = "build" => Len(lengths) = level - 1

IInv == /\ TypeOK
        /\ GrowthFits
        /\ ElementsAreInside
        /\ RefusedOnlyPastTheBound
        /\ Accounted
        /\ IndicesFit
        /\ LengthsFollow

\* What TypeOK says of the step at hand and of the list.
LEMMA StepAtHand ==
  ASSUME TypeOK
  PROVE  /\ put.path \in Seq(Steps) /\ put.whole \in Lists
         /\ AtStep => Step \in Steps /\ level \in 1..Len(put.path)
         /\ bound \in Nat /\ held \in Nat /\ Largest \in Nat
BY PutAssumption, WordAssumption DEF TypeOK, Step, AtStep

LEMMA InitIInv == Init => IInv
<1> SUFFICES ASSUME Init PROVE IInv
  OBVIOUS
<1>1. put.path \in Seq(Steps) /\ held \in Nat /\ Largest \in Nat
  BY PutAssumption, WordAssumption DEF Init
<1>2. bound \in 0..Largest
  BY <1>1, PutAssumption DEF Init, Narrower
<1>3. budget \in 0..Largest
      /\ (IF held < bound THEN budget = bound - held ELSE budget = 0)
  BY <1>1, <1>2 DEF Init, VectorGrowthBudget
<1>4. level \in 1..(Len(put.path) + 1)
  BY <1>1 DEF Init
<1>5. lengths = << >> /\ lengths \in Seq(0..(Word64 - 1))
  BY DEF Init
<1>6. TypeOK
  BY <1>2, <1>3, <1>4, <1>5 DEF Init, TypeOK
<1>7. Accounted
  BY <1>1, <1>2, <1>3 DEF Init, Accounted
<1> QED
  BY <1>5, <1>6, <1>7
  DEF Init, IInv, GrowthFits, ElementsAreInside, RefusedOnlyPastTheBound,
      IndicesFit, LengthsFollow

\* Charging a vector that fits: what is left and what is grown still make the
\* bound, and the step's index is short of it.
LEMMA GrowVectorIInv == IInv /\ GrowVector => IInv'
<1> SUFFICES ASSUME IInv, GrowVector PROVE IInv'
  OBVIOUS
<1> DEFINE b == GrownBytes(Step)
<1>1. /\ put.path \in Seq(Steps) /\ Step \in Steps /\ level \in 1..Len(put.path)
      /\ bound \in Nat /\ held \in Nat /\ Largest \in Nat
  BY StepAtHand DEF IInv, GrowVector
<1>2. /\ b \in Nat /\ b < Word64 /\ Step.index < b
      /\ b = (Step.index + 1) * ElementBytes(Step)
  BY <1>1, BytesAreExact
<1>3. b <= budget /\ budget \in 0..Largest /\ grown \in Nat
  BY DEF IInv, TypeOK, GrowVector, Fits
<1>4. budget' = budget - b /\ budget' \in 0..Largest
  <2>1. budget - b \in 0..Largest
    BY <1>1, <1>2, <1>3
  <2>2. budget - b < Word64
    BY <2>1, WordAssumption, WordsNest
  <2> QED
    BY <2>1, <2>2, WordAssumption, SmallRemainder DEF GrowVector, Left
<1>5. grown' = grown + b /\ grown' \in Nat
  BY <1>2, <1>3 DEF GrowVector
<1>6. level' = level + 1 /\ level' \in 1..(Len(put.path) + 1)
  BY <1>1 DEF GrowVector
<1>7. UNCHANGED <<put, bound, held, phase, lengths>> /\ phase = "classify"
  BY DEF GrowVector
<1>8. Step.index \in Nat /\ Step.index < Largest
  BY <1>1, <1>2, <1>3 DEF Steps
<1>9. held < bound /\ budget + grown + held = bound
  BY <1>1, <1>2, <1>3, <1>7, <1>8 DEF IInv, Accounted
<1>10. TypeOK'
  BY <1>4, <1>5, <1>6, <1>7 DEF IInv, TypeOK
<1>11. GrowthFits' /\ Accounted'
  <2>1. b \in Nat
    BY <1>2
  <2>2. budget' + grown' + held = bound
    <3>1. budget \in Nat /\ grown \in Nat /\ held \in Nat
      BY <1>1, <1>3
    <3>2. (budget - b) + (grown + b) + held = budget + grown + held
      BY <2>1, <3>1
    <3> QED
      BY <1>4, <1>5, <1>9, <3>2
  <2>3. held + grown' <= bound
    BY <1>1, <1>4, <1>5, <2>2
  <2> QED
    BY <1>7, <1>9, <2>2, <2>3 DEF GrowthFits, Accounted
<1>12. IndicesFit'
  BY <1>1, <1>6, <1>7, <1>8 DEF IInv, IndicesFit, Step
<1> QED
  BY <1>7, <1>10, <1>11, <1>12
  DEF IInv, ElementsAreInside, RefusedOnlyPastTheBound, LengthsFollow

\* The list that fits is the last of what the put grows.
LEMMA AcceptPayloadIInv == IInv /\ AcceptPayload => IInv'
<1> SUFFICES ASSUME IInv, AcceptPayload PROVE IInv'
  OBVIOUS
<1> DEFINE b == WholeBytes(put.whole)
<1>1. /\ put.path \in Seq(Steps) /\ put.whole \in Lists
      /\ bound \in Nat /\ held \in Nat /\ Largest \in Nat
  BY StepAtHand DEF IInv
<1>2. b \in Nat /\ b = put.whole.count * put.whole.bytes
  BY <1>1, BytesAreExact
<1>3. b <= budget /\ budget \in 0..Largest /\ grown \in Nat
  BY DEF IInv, TypeOK, AcceptPayload, Fits
<1>4. grown' = grown + b /\ grown' \in Nat
  BY <1>2, <1>3 DEF AcceptPayload
<1>5. /\ UNCHANGED <<put, bound, held, budget, lengths>>
      /\ phase = "classify" /\ phase' = "build" /\ level' = 1
  BY DEF AcceptPayload
<1>6. TypeOK'
  BY <1>1, <1>4, <1>5 DEF IInv, TypeOK
<1>7. GrowthFits'
  BY <1>1, <1>2, <1>3, <1>4, <1>5 DEF IInv, GrowthFits, Accounted
<1>8. IndicesFit'
  <2>1. level = Len(put.path) + 1
    BY <1>1 DEF IInv, TypeOK, AcceptPayload, AtStep
  <2>2. level - 1 = Len(put.path)
    BY <1>1, <2>1
  <2> QED
    BY <1>5, <2>2 DEF IInv, IndicesFit
<1> QED
  BY <1>5, <1>6, <1>7, <1>8
  DEF IInv, ElementsAreInside, RefusedOnlyPastTheBound, Accounted, LengthsFollow

\* What does not fit the budget does not fit the bound: with something left,
\* the budget is what the bound leaves; with nothing left, nothing fits.
LEMMA RefuseIInv == IInv /\ Refuse => IInv'
<1> SUFFICES ASSUME IInv, Refuse PROVE IInv'
  OBVIOUS
<1> DEFINE b == IF AtStep THEN GrownBytes(Step) ELSE WholeBytes(put.whole)
<1>1. /\ put.path \in Seq(Steps) /\ put.whole \in Lists
      /\ AtStep => Step \in Steps
      /\ bound \in Nat /\ held \in Nat /\ Largest \in Nat
  BY StepAtHand DEF IInv
<1>2. b \in Nat
      /\ b = IF AtStep THEN (Step.index + 1) * ElementBytes(Step)
                       ELSE put.whole.count * put.whole.bytes
  BY <1>1, BytesAreExact
<1>3. b > budget /\ budget \in 0..Largest /\ grown \in Nat
  <2>1. ~(b <= budget)
    BY DEF Refuse, Fits
  <2>2. budget \in 0..Largest /\ grown \in Nat
    BY DEF IInv, TypeOK
  <2> QED
    BY <1>2, <2>1, <2>2, WordAssumption
<1>4. /\ UNCHANGED <<put, bound, held, level, budget, grown, lengths>>
      /\ phase = "classify" /\ phase' = "refused"
  BY DEF Refuse
<1>5. held + grown + b > bound
  BY <1>1, <1>2, <1>3, <1>4 DEF IInv, Accounted
<1>6. RefusedOnlyPastTheBound'
  BY <1>2, <1>4, <1>5 DEF RefusedOnlyPastTheBound, AtStep, Step
<1> QED
  BY <1>4, <1>6
  DEF IInv, TypeOK, GrowthFits, ElementsAreInside, Accounted, IndicesFit,
      LengthsFollow

\* The next length is long enough for its own step, and changes no other.
LEMMA BuildVectorIInv == IInv /\ BuildVector => IInv'
<1> SUFFICES ASSUME IInv, BuildVector PROVE IInv'
  OBVIOUS
<1>1. /\ put.path \in Seq(Steps) /\ Step \in Steps /\ level \in 1..Len(put.path)
      /\ Largest \in Nat
  BY StepAtHand DEF IInv, BuildVector
<1>2. /\ UNCHANGED <<put, bound, held, phase, budget, grown>>
      /\ phase = "build" /\ level' = level + 1
      /\ lengths' = Append(lengths, GrownLength(Step))
  BY DEF BuildVector
<1>3. Step.index + 1 < Word32
  <2>1. Step.index < Largest /\ Step.index \in Nat
    BY <1>1, <1>2, SMTT(30) DEF IInv, IndicesFit, Step, Steps
  <2> QED
    BY <2>1, WordAssumption
<1>4. /\ GrownLength(Step) \in 0..(Word64 - 1)
      /\ Step.index < GrownLength(Step) /\ Step.stored <= GrownLength(Step)
  BY <1>1, <1>3, LengthHoldsBoth
<1>5. lengths \in Seq(0..(Word64 - 1)) /\ Len(lengths) = level - 1
  BY <1>2 DEF IInv, TypeOK, LengthsFollow
<1>6. lengths' \in Seq(0..(Word64 - 1)) /\ Len(lengths') = level' - 1
  BY <1>1, <1>2, <1>4, <1>5
<1>7. TypeOK'
  BY <1>1, <1>2, <1>6 DEF IInv, TypeOK
<1>8. ElementsAreInside'
  <2> SUFFICES ASSUME NEW k \in DOMAIN lengths'
               PROVE  put.path[k].index < lengths'[k]
                      /\ put.path[k].stored <= lengths'[k]
    BY <1>2 DEF ElementsAreInside
  <2>1. CASE k = level
    BY <1>1, <1>2, <1>4, <1>5, <2>1 DEF Step
  <2>2. CASE k # level
    <3>1. k \in DOMAIN lengths /\ lengths'[k] = lengths[k]
      BY <1>1, <1>2, <1>4, <1>5, <2>2
    <3> QED
      BY <3>1 DEF IInv, ElementsAreInside
  <2> QED
    BY <2>1, <2>2
<1> QED
  BY <1>2, <1>6, <1>7, <1>8
  DEF IInv, GrowthFits, RefusedOnlyPastTheBound, Accounted, IndicesFit,
      LengthsFollow

LEMMA FinishIInv == IInv /\ Finish => IInv'
BY DEF IInv, Finish, TypeOK, GrowthFits, ElementsAreInside,
       RefusedOnlyPastTheBound, Accounted, IndicesFit, LengthsFollow

LEMMA StutterIInv == IInv /\ UNCHANGED vars => IInv'
BY DEF IInv, vars, TypeOK, GrowthFits, ElementsAreInside,
       RefusedOnlyPastTheBound, Accounted, IndicesFit, LengthsFollow, AtStep,
       Step

\* The strengthened invariant holds of every put.
THEOREM Inductive == Spec => []IInv
<1>1. Init => IInv
  BY InitIInv
<1>2. IInv /\ [Next]_vars => IInv'
  BY GrowVectorIInv, AcceptPayloadIInv, RefuseIInv, BuildVectorIInv, FinishIInv,
     StutterIInv DEF Next
<1> QED
  BY <1>1, <1>2, PTL DEF Spec

\* The budget vectorGrowthBudget gives and classifyPutInVector splits never
\* wraps below zero, whatever the bytes held and the bound asked for.
THEOREM TypeCorrect == Spec => []TypeOK
<1>1. IInv => TypeOK
  BY DEF IInv
<1> QED
  BY <1>1, Inductive, PTL

\* A classified put grows its vectors, one inside another, to no more than the
\* bound leaves beside what the builder holds.
THEOREM AllGrowthFits == Spec => []GrowthFits
<1>1. IInv => GrowthFits
  BY DEF IInv
<1> QED
  BY <1>1, Inductive, PTL

\* The 32-bit `index + 1U` of the vector builders wraps for no put the classify
\* pass let through: each vector has the element written and those stored.
THEOREM NoLengthWraps == Spec => []ElementsAreInside
<1>1. IInv => ElementsAreInside
  BY DEF IInv
<1> QED
  BY <1>1, Inductive, PTL

\* Neither the 64-bit arithmetic nor the split of the budget makes the classify
\* pass refuse a put that fits the bound.
THEOREM NothingThatFitsIsRefused == Spec => []RefusedOnlyPastTheBound
<1>1. IInv => RefusedOnlyPastTheBound
  BY DEF IInv
<1> QED
  BY <1>1, Inductive, PTL
=============================================================================
