------------------------------- MODULE PutGrowth -------------------------------
(***************************************************************************)
(* What one put may grow vectors to (ElementIndex.hpp, classifyPutInVector *)
(* and the builders), in the code's own words: bytes are counted in 64     *)
(* bits, and the length of a vector of offsets is computed in 32.          *)
(*                                                                         *)
(* A path reaches through a vector at each of its steps: an element at     *)
(* `index` of a vector that stores `stored`, inline at `bytes` each or by  *)
(* offset.  A put of a whole vector ends in `count` elements of `bytes`,   *)
(* all of which a payload may say by one shared value.  A path also goes   *)
(* through tables and members of unions, which grow nothing: they are left *)
(* out, and so are the refusals that have other reasons than growth.       *)
(***************************************************************************)
EXTENDS Integers, Sequences

CONSTANTS
  Word32, Word64,     \* How many values the words take.
  Largest,            \* kLargestGrownVectorBytes.
  PaddedOffsetBytes,  \* kMostBytesPerPaddedOffsetElement.
  MostElementBytes,   \* What any element takes at most.
  Puts,               \* The puts considered: their path, and `whole`.
  Bounds,             \* What a caller may ask to keep within.
  HeldSizes           \* What the caller's builder may hold on entry.

Steps == [index : 0..(Word32 - 1), stored : 0..(Word32 - 1),
          kind : {"inline", "offset"}, bytes : 1..MostElementBytes]
Lists == [count : 0..(Word32 - 1), bytes : 1..MostElementBytes]

\* Half of what a flatbuffer addresses fits the narrow word, and what any index
\* makes of any element fits the wide one.
ASSUME WordAssumption ==
  /\ Word32 \in Nat \ {0} /\ Word64 \in Nat
  /\ MostElementBytes \in Nat \ {0}
  /\ Word32 * MostElementBytes < Word64
  /\ Largest \in 0..(Word32 - 1)
  /\ PaddedOffsetBytes \in 1..MostElementBytes

\* A put of no whole vector counts as one of no elements.
ASSUME PutAssumption ==
  /\ \A put \in Puts : put.path \in Seq(Steps) /\ put.whole \in Lists
  /\ Bounds \subseteq Nat /\ HeldSizes \subseteq Nat

VARIABLES
  put,      \* The put.
  bound,    \* largestGrownVectorBytes.
  held,     \* What the caller's builder holds on entry.
  phase,    \* "classify", "build", "refused" or "done".
  level,    \* The step of the path at hand.
  budget,   \* What the put may still grow vectors to.
  grown,    \* What it has grown them to, counted without a word's end.
  lengths   \* The lengths the builders gave them.

vars == <<put, bound, held, phase, level, budget, grown, lengths>>

Narrower(m, n) == IF m < n THEN m ELSE n
Longer(m, n) == IF m < n THEN n ELSE m

VectorGrowthBudget(bytesBuilt, largest) ==
  IF bytesBuilt < largest THEN largest - bytesBuilt ELSE 0

ElementBytes(step) ==
  IF step.kind = "offset" THEN PaddedOffsetBytes ELSE step.bytes

GrownBytesIn32(step) ==                                    \* mutant
  (((step.index + 1) % Word32) * ElementBytes(step)) % Word64
GrownBytes(step) ==
  (((step.index + 1) % Word64) * ElementBytes(step)) % Word64

FitsStrictly(bytes, left) == bytes < left                  \* mutant
FitsAlways(bytes, left) == TRUE                            \* mutant
Fits(bytes, left) == bytes <= left

SameLeft(left, bytes) == left                              \* mutant
Left(left, bytes) == (left - bytes) % Word64

WholeBytes(list) == (list.count * list.bytes) % Word64

\* `index + 1U` and uoffset_t, or the wider size_t.
GrownLength(step) ==
  Longer(step.stored,
         (step.index + 1) % (IF step.kind = "offset" THEN Word32 ELSE Word64))

Step == put.path[level]
AtStep == level <= Len(put.path)

GrowVector ==
  /\ phase = "classify" /\ AtStep
  /\ Fits(GrownBytes(Step), budget)
  /\ budget' = Left(budget, GrownBytes(Step))
  /\ grown' = grown + (Step.index + 1) * ElementBytes(Step)
  /\ level' = level + 1
  /\ UNCHANGED <<put, bound, held, phase, lengths>>

\* The path is through; the builders start over from the root.
AcceptPayload ==
  /\ phase = "classify" /\ ~AtStep
  /\ Fits(WholeBytes(put.whole), budget)
  /\ grown' = grown + put.whole.count * put.whole.bytes
  /\ phase' = "build" /\ level' = 1
  /\ UNCHANGED <<put, bound, held, budget, lengths>>

Refuse ==
  /\ phase = "classify"
  /\ ~Fits(IF AtStep THEN GrownBytes(Step) ELSE WholeBytes(put.whole), budget)
  /\ phase' = "refused"
  /\ UNCHANGED <<put, bound, held, level, budget, grown, lengths>>

BuildVector ==
  /\ phase = "build" /\ AtStep
  /\ lengths' = Append(lengths, GrownLength(Step))
  /\ level' = level + 1
  /\ UNCHANGED <<put, bound, held, phase, budget, grown>>

Finish ==
  /\ phase = "build" /\ ~AtStep
  /\ phase' = "done"
  /\ UNCHANGED <<put, bound, held, level, budget, grown, lengths>>

Init ==
  /\ put \in Puts /\ held \in HeldSizes
  /\ bound \in {Narrower(asked, Largest) : asked \in Bounds}
  /\ phase = "classify" /\ level = 1
  /\ budget = VectorGrowthBudget(held, bound)
  /\ grown = 0 /\ lengths = << >>

Next == GrowVector \/ AcceptPayload \/ Refuse \/ BuildVector \/ Finish
Spec == Init /\ [][Next]_vars

-----------------------------------------------------------------------------
(* Properties.                                                               *)

\* The budget never wraps: it stays within what a caller may be given.
TypeOK ==
  /\ put \in Puts /\ held \in HeldSizes /\ bound \in 0..Largest
  /\ phase \in {"classify", "build", "refused", "done"}
  /\ level \in 1..(Len(put.path) + 1)
  /\ budget \in 0..Largest
  /\ grown \in Nat
  /\ lengths \in Seq(0..(Word64 - 1))

\* What a put grows, one vector inside another and a whole vector inside all,
\* fits beside what the builder holds, however the sizes are split.
GrowthFits == grown > 0 => held + grown <= bound

\* The vector built has a place for the element written, and one for each that
\* was stored: no index makes the length wrap.
ElementsAreInside ==
  \A k \in DOMAIN lengths :
    put.path[k].index < lengths[k] /\ put.path[k].stored <= lengths[k]

\* A put is refused only where its vectors, counted without a word's end, do
\* pass the bound.
RefusedOnlyPastTheBound ==
  phase = "refused" =>
    held + grown + (IF AtStep THEN (Step.index + 1) * ElementBytes(Step)
                              ELSE put.whole.count * put.whole.bytes) > bound
=============================================================================
