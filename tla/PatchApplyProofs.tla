--------------------------- MODULE PatchApplyProofs ---------------------------
(***************************************************************************)
(* Proofs about PatchApply, for every set of tables and operations, any    *)
(* nesting of patches, and any bound on what a put may grow.               *)
(*                                                                         *)
(* The invariant says of every list being applied that its buffer, if it   *)
(* has one, copies faithfully, and that it has one once an operation of it *)
(* has come back Applied.  A list waiting for a nested one has already     *)
(* counted it past, so it owes its buffer one operation later.             *)
(*                                                                         *)
(* PatchApply implements PatchAgenda: the stack of lists, each with a      *)
(* running table, a buffer and an outcome of its own, comes to one running *)
(* table and one outcome.  And so it implements PatchSpec, as PatchAgenda  *)
(* does (PatchAgendaProofs).                                               *)
(***************************************************************************)
EXTENDS PatchApply, SequenceTheorems, TLAPS

\* What each list is told is held beside it: what its caller was told, and its
\* caller's running table.
BytesHeldAddUp ==
  \A k \in DOMAIN stack :
    stack[k].bytesHeld =
      IF k = 1 THEN held
               ELSE stack[k - 1].bytesHeld + BufferSize(stack[k - 1].result)

ResultsAreFaithful ==
  \A k \in DOMAIN stack :
    stack[k].result # NoBuffer => Faithful(stack[k].result)

\* The operations of the list `k` that have come back.
Returned(k) == IF k = Len(stack) THEN stack[k].next - 1 ELSE stack[k].next - 2

AppliedListsHaveBuilt ==
  \A k \in DOMAIN stack :
    stack[k].outcome = Applied /\ Returned(k) > 0 => stack[k].result # NoBuffer

IInv ==
  /\ TypeOK
  /\ BuiltOnlyIfApplied
  /\ ListsShareTheRunningTable
  /\ BytesHeldAddUp
  /\ ResultsAreFaithful
  /\ AppliedListsHaveBuilt
  /\ answer # "none" => stack = << >>

-----------------------------------------------------------------------------

LEMMA FrontOrBefore ==
  \A n \in Nat : \A k \in 1..n : k = n \/ (k \in 1..(n - 1) /\ k < n)
OBVIOUS

LEMMA BudgetRange ==
  ASSUME NEW n \in Nat
  PROVE  VectorGrowthBudget(n) \in 0..Largest
BY EditAssumption DEF VectorGrowthBudget

LEMMA BufferSizeType ==
  ASSUME NEW b \in Tables \cup {NoBuffer}
  PROVE  BufferSize(b) \in Nat
BY EditAssumption DEF BufferSize

LEMMA NewFrameType ==
  ASSUME NEW updates \in Seq(Operations), NEW prefix \in Path,
         NEW t \in Tables, NEW n \in Nat
  PROVE  NewFrame(updates, prefix, t, n) \in Frames
BY DEF NewFrame, Frames

\* What the list in front is, while there is one.
LEMMA TopFrame ==
  ASSUME IInv, Running
  PROVE  /\ Len(stack) \in Nat \ {0} /\ Len(stack) \in DOMAIN stack
         /\ DOMAIN stack = 1..Len(stack)
         /\ \A k \in DOMAIN stack : stack[k] \in Frames
         /\ Top \in Frames /\ Top = stack[Len(stack)]
         /\ answer = "none" /\ root = NoBuffer
<1>1. stack \in Seq(Frames) /\ stack # << >>
  BY DEF IInv, TypeOK, Running
<1>2. Len(stack) \in Nat \ {0}
  BY <1>1
<1>3. answer = "none" /\ root = NoBuffer
  BY DEF IInv, BuiltOnlyIfApplied, Running, Applied
<1>4. QED BY <1>1, <1>2, <1>3 DEF Top

\* What the operation it is at is, and where.
LEMMA TopOperation ==
  ASSUME IInv, NEW type, AtOperation(type)
  PROVE  /\ Operation \in Operations /\ Operation.type = type
         /\ Target \in Path
         /\ BytesBeside \in Nat /\ VectorGrowthBudget(BytesBeside) \in 0..Largest
         /\ Top.next \in 1..Len(Top.updates)
<1>1. Running /\ Top \in Frames
  BY TopFrame DEF AtOperation
<1>2. /\ Top.updates \in Seq(Operations) /\ Top.next \in 1..Len(Top.updates)
      /\ Top.prefix \in Path /\ Top.bytesHeld \in Nat
      /\ Top.result \in Tables \cup {NoBuffer}
  BY <1>1 DEF Frames, AtOperation
<1>3. Operation \in Operations /\ Operation.type = type
  BY <1>2 DEF Operation, AtOperation
<1>4. Target \in Path
  BY <1>2, <1>3, OperationAssumption DEF Target
<1>5. BytesBeside \in Nat
  BY <1>2, BufferSizeType DEF BytesBeside
<1>6. QED BY <1>2, <1>3, <1>4, <1>5, BudgetRange

-----------------------------------------------------------------------------
(* What a step does to the stack: the list in front moves on, a list is      *)
(* entered, one returns, or all of them end with the answer.                 *)

\* What replacing the frame in front makes of the stack.
LEMMA ReplaceTop ==
  ASSUME IInv, Running, NEW f \in Frames
  PROVE  /\ Replace(f) \in Seq(Frames) /\ Len(Replace(f)) = Len(stack)
         /\ Replace(f)[Len(stack)] = f
         /\ \A k \in 1..(Len(stack) - 1) : Replace(f)[k] = stack[k]
<1>1. stack \in Seq(Frames) /\ Len(stack) \in 1..Len(stack)
  BY TopFrame DEF IInv, TypeOK
<1>2. QED BY <1>1, ExceptSeq DEF Replace

\* The list `m` comes to the front as the frame `f`: it has moved on, or what
\* it called has returned to it.
LEMMA FrontKeepsInvariant ==
  ASSUME IInv, Running,
         UNCHANGED <<request, source, held, answer, root>>,
         NEW m \in 1..Len(stack), NEW f \in Frames,
         stack' \in Seq(Frames), Len(stack') = m, stack'[m] = f,
         \A k \in 1..(m - 1) : stack'[k] = stack[k],
         f.bytesHeld = stack[m].bytesHeld,
         f.source = IF f.result # NoBuffer THEN f.result ELSE stack[m].source,
         f.result = NoBuffer => stack[m].result = NoBuffer,
         f.result # NoBuffer => Faithful(f.result),
         f.outcome = Applied /\ f.next > 1 => f.result # NoBuffer
  PROVE  IInv'
<1>1. /\ Len(stack) \in Nat \ {0} /\ m \in Nat \ {0} /\ m \in DOMAIN stack
      /\ DOMAIN stack = 1..Len(stack) /\ DOMAIN stack' = 1..m
      /\ answer = "none" /\ root = NoBuffer
  BY TopFrame
<1>2. \A k \in 1..m : k # m =>
        k \in 1..(m - 1) /\ k \in DOMAIN stack /\ k # Len(stack)
  <2>1. \A len, i \in Nat \ {0} : \A k \in 1..i : k # i /\ i \in 1..len =>
          k \in 1..(i - 1) /\ k \in 1..len /\ k # len
    OBVIOUS
  <2>2. QED BY <1>1, <2>1
<1>3. \A k \in 1..m : k # 1 =>
        k - 1 \in 1..(m - 1) /\ stack'[k - 1] = stack[k - 1]
  BY <1>1
<1>4. TypeOK' /\ BuiltOnlyIfApplied'
  BY DEF IInv, TypeOK, BuiltOnlyIfApplied
<1>5. ListsShareTheRunningTable'
  <2>1. SUFFICES ASSUME NEW k \in 1..m
                 PROVE  stack'[k].source =
                          IF stack'[k].result # NoBuffer THEN stack'[k].result
                            ELSE IF k = 1 THEN source ELSE stack'[k - 1].source
    BY <1>1 DEF ListsShareTheRunningTable
  <2>2. k \in DOMAIN stack
    BY <1>1, <2>1
  <2>3. CASE k # m
    BY <1>2, <1>3, <2>2, <2>3 DEF IInv, ListsShareTheRunningTable
  <2>4. CASE k = m
    BY <1>3, <2>2, <2>4 DEF IInv, ListsShareTheRunningTable
  <2>5. QED BY <2>3, <2>4
<1>6. BytesHeldAddUp'
  <2>1. SUFFICES ASSUME NEW k \in 1..m
                 PROVE  stack'[k].bytesHeld =
                          IF k = 1 THEN held
                            ELSE stack'[k - 1].bytesHeld
                                   + BufferSize(stack'[k - 1].result)
    BY <1>1 DEF BytesHeldAddUp, BufferSize
  <2>2. k \in DOMAIN stack /\ stack'[k].bytesHeld = stack[k].bytesHeld
    BY <1>1, <1>2, <2>1
  <2>3. QED BY <1>3, <2>2 DEF IInv, BytesHeldAddUp
<1>7. ResultsAreFaithful'
  <2>1. SUFFICES ASSUME NEW k \in 1..m, stack'[k].result # NoBuffer
                 PROVE  Faithful(stack'[k].result)
    BY <1>1 DEF ResultsAreFaithful
  <2>2. CASE k = m
    BY <2>1, <2>2
  <2>3. CASE k # m
    BY <1>2, <2>1, <2>3 DEF IInv, ResultsAreFaithful
  <2>4. QED BY <2>2, <2>3
<1>8. AppliedListsHaveBuilt'
  <2>1. SUFFICES ASSUME NEW k \in 1..m,
                        stack'[k].outcome = Applied, Returned(k)' > 0
                 PROVE  stack'[k].result # NoBuffer
    BY <1>1 DEF AppliedListsHaveBuilt
  <2>2. CASE k # m
    <3>1. Returned(k)' = Returned(k) /\ stack'[k] = stack[k]
      BY <1>2, <2>2 DEF Returned
    <3>2. QED BY <1>2, <2>1, <2>2, <3>1 DEF IInv, AppliedListsHaveBuilt
  <2>3. CASE k = m
    <3>1. f.next \in Nat /\ Returned(k)' = f.next - 1
      BY <2>3 DEF Returned, Frames
    <3>2. QED BY <2>1, <2>3, <3>1
  <2>4. QED BY <2>2, <2>3
<1>9. QED BY <1>1, <1>4, <1>5, <1>6, <1>7, <1>8 DEF IInv

\* The list in front moves on.
LEMMA MovingOnKeepsInvariant ==
  ASSUME IInv, Running,
         UNCHANGED <<request, source, held, answer, root>>,
         NEW f \in Frames, stack' = Replace(f),
         f.bytesHeld = Top.bytesHeld,
         f.source = IF f.result # NoBuffer THEN f.result ELSE Top.source,
         f.result = NoBuffer => Top.result = NoBuffer,
         f.result # NoBuffer => Faithful(f.result),
         f.outcome = Applied /\ f.next > 1 => f.result # NoBuffer
  PROVE  IInv'
<1>1. Len(stack) \in 1..Len(stack) /\ Top = stack[Len(stack)]
  BY TopFrame
<1>2. /\ stack' \in Seq(Frames) /\ Len(stack') = Len(stack)
      /\ stack'[Len(stack)] = f
      /\ \A k \in 1..(Len(stack) - 1) : stack'[k] = stack[k]
  BY ReplaceTop
<1>3. QED BY <1>1, <1>2, FrontKeepsInvariant

LEMMA AnsweringKeepsInvariant ==
  ASSUME IInv, UNCHANGED <<request, source, held>>,
         NEW outcome \in Outcomes, Answer(outcome),
         root' \in Tables \cup {NoBuffer},
         root' # NoBuffer <=> outcome = Applied
  PROVE  IInv'
<1>1. stack' = << >> /\ answer' = outcome /\ DOMAIN stack' = {}
  BY DEF Answer
<1>2. TypeOK' /\ BuiltOnlyIfApplied'
  BY <1>1 DEF IInv, TypeOK, BuiltOnlyIfApplied
<1>3. QED
  BY <1>1, <1>2 DEF IInv, ListsShareTheRunningTable, BytesHeldAddUp,
     ResultsAreFaithful, AppliedListsHaveBuilt

\* A frame past its operation differs in `next` alone.
LEMMA PastFrame ==
  ASSUME NEW f \in Frames
  PROVE  /\ Past(f) \in Frames /\ Past(f).next = f.next + 1
         /\ Past(f).source = f.source /\ Past(f).result = f.result
         /\ Past(f).outcome = f.outcome /\ Past(f).bytesHeld = f.bytesHeld
         /\ Past(f).updates = f.updates /\ Past(f).prefix = f.prefix
<1>1. /\ f = [updates |-> f.updates, prefix |-> f.prefix, next |-> f.next,
              source |-> f.source, result |-> f.result,
              outcome |-> f.outcome, bytesHeld |-> f.bytesHeld]
      /\ f.next \in Nat \ {0}
  BY DEF Frames
<1>2. Past(f) = [updates |-> f.updates, prefix |-> f.prefix,
                 next |-> f.next + 1, source |-> f.source,
                 result |-> f.result, outcome |-> f.outcome,
                 bytesHeld |-> f.bytesHeld]
  BY <1>1 DEF Past
<1>3. f.next + 1 \in Nat \ {0}
  BY <1>1
<1>4. QED BY <1>2, <1>3 DEF Frames

\* A frame that took a buffer runs on it.
LEMMA AdvancedFrame ==
  ASSUME NEW f \in Frames, NEW t \in Tables
  PROVE  /\ Advance(f, t) \in Frames
         /\ Advance(f, t).source = t /\ Advance(f, t).result = t
         /\ Advance(f, t).outcome = f.outcome
         /\ Advance(f, t).bytesHeld = f.bytesHeld
         /\ Advance(f, t).next = f.next
         /\ Advance(f, t).updates = f.updates /\ Advance(f, t).prefix = f.prefix
BY DEF Advance, Frames

\* A frame one of whose operations was NotStored.
LEMMA MissedFrame ==
  ASSUME NEW f \in Frames
  PROVE  LET missed == [f EXCEPT !.outcome = NotStored]
         IN  /\ missed \in Frames /\ missed.outcome = NotStored
             /\ missed.source = f.source /\ missed.result = f.result
             /\ missed.bytesHeld = f.bytesHeld /\ missed.next = f.next
             /\ missed.updates = f.updates /\ missed.prefix = f.prefix
BY DEF Frames

LEMMA EnteringKeepsInvariant ==
  ASSUME IInv, EnterPatch
  PROVE  IInv'
<1> DEFINE inner == NewFrame(Operation.updates, Target, Top.source, BytesBeside)
           n == Len(stack)
           held1 == Replace(Past(Top))
<1>1. /\ Running /\ Operation \in Operations /\ Target \in Path
      /\ Operation.updates \in Seq(Operations)
      /\ BytesBeside \in Nat
      /\ stack' = Append(held1, inner)
      /\ UNCHANGED <<request, source, held, answer, root>>
  BY TopOperation, OperationAssumption DEF EnterPatch, AtOperation
<1>2. /\ n \in Nat \ {0} /\ DOMAIN stack = 1..n
      /\ Top = stack[n] /\ Top \in Frames
      /\ answer = "none" /\ root = NoBuffer
  BY <1>1, TopFrame
<1>3. /\ Past(Top) \in Frames /\ Top.next \in Nat \ {0}
      /\ Past(Top).next = Top.next + 1 /\ Past(Top).source = Top.source
      /\ Past(Top).result = Top.result /\ Past(Top).outcome = Top.outcome
      /\ Past(Top).bytesHeld = Top.bytesHeld
  BY <1>2, PastFrame DEF Frames
<1>4. inner \in Frames
  <2>1. Top.source \in Tables
    BY <1>2 DEF Frames
  <2>2. QED BY <1>1, <2>1, NewFrameType
<1>5. /\ held1 \in Seq(Frames) /\ Len(held1) = n
      /\ held1[n] = Past(Top)
      /\ \A k \in 1..(n - 1) : held1[k] = stack[k]
  BY <1>1, <1>3, ReplaceTop
<1>6. /\ stack' \in Seq(Frames) /\ Len(stack') = n + 1
      /\ \A k \in 1..n : stack'[k] = held1[k]
      /\ stack'[n + 1] = inner
  BY <1>1, <1>4, <1>5, AppendProperties
<1>7. /\ DOMAIN stack' = 1..(n + 1)
      /\ stack'[n] = Past(Top)
      /\ \A k \in 1..(n - 1) : stack'[k] = stack[k]
  BY <1>2, <1>5, <1>6
<1>8. /\ inner.next = 1 /\ inner.source = Top.source
      /\ inner.result = NoBuffer /\ inner.bytesHeld = BytesBeside
  BY DEF NewFrame
<1>9. \A k \in 1..(n + 1) : k = n + 1 \/ k = n \/ k \in 1..(n - 1)
  <2>1. \A i \in Nat \ {0} : \A k \in 1..(i + 1) :
          k = i + 1 \/ k = i \/ k \in 1..(i - 1)
    OBVIOUS
  <2>2. QED BY <1>2, <2>1
<1>10. /\ \A k \in 1..n :
            /\ stack'[k].source = stack[k].source
            /\ stack'[k].result = stack[k].result
            /\ stack'[k].outcome = stack[k].outcome
            /\ stack'[k].bytesHeld = stack[k].bytesHeld
  <2>1. SUFFICES ASSUME NEW k \in 1..n
                 PROVE  /\ stack'[k].source = stack[k].source
                        /\ stack'[k].result = stack[k].result
                        /\ stack'[k].outcome = stack[k].outcome
                        /\ stack'[k].bytesHeld = stack[k].bytesHeld
    OBVIOUS
  <2>2. CASE k = n
    BY <1>2, <1>3, <1>7, <2>2
  <2>3. CASE k # n
    <3>1. k \in 1..(n - 1)
      <4>1. n \in Nat
        BY <1>2
      <4> HIDE DEF n
      <4>2. QED BY <2>3, <4>1, FrontOrBefore
    <3>2. stack'[k] = stack[k]
      BY <1>7, <3>1
    <3>3. QED BY <3>2
  <2>4. QED BY <2>2, <2>3
<1>11. \A k \in 1..(n + 1) : k # 1 => k - 1 \in 1..n
  BY <1>2
<1>12. \A k \in 1..(n + 1) : k # n + 1 => k \in 1..n
  BY <1>2
<1>13. TypeOK' /\ BuiltOnlyIfApplied'
  BY <1>1, <1>6 DEF IInv, TypeOK, BuiltOnlyIfApplied
<1>14. ListsShareTheRunningTable'
  <2>1. SUFFICES ASSUME NEW k \in 1..(n + 1)
                 PROVE  stack'[k].source =
                          IF stack'[k].result # NoBuffer THEN stack'[k].result
                            ELSE IF k = 1 THEN source ELSE stack'[k - 1].source
    BY <1>1, <1>7 DEF ListsShareTheRunningTable
  <2>2. CASE k = n + 1
    <3>1. stack'[k].source = stack'[k - 1].source /\ k # 1
      BY <1>2, <1>3, <1>6, <1>7, <1>8, <2>2
    <3>2. QED BY <1>6, <1>8, <2>2, <3>1
  <2>3. CASE k # n + 1
    BY <1>2, <1>10, <1>11, <1>12, <2>3 DEF IInv, ListsShareTheRunningTable
  <2>4. QED BY <2>2, <2>3
<1>15. BytesHeldAddUp'
  <2>1. SUFFICES ASSUME NEW k \in 1..(n + 1)
                 PROVE  stack'[k].bytesHeld =
                          IF k = 1 THEN held
                            ELSE stack'[k - 1].bytesHeld
                                   + BufferSize(stack'[k - 1].result)
    BY <1>1, <1>7 DEF BytesHeldAddUp, BufferSize
  <2>2. CASE k = n + 1
    BY <1>2, <1>3, <1>6, <1>7, <1>8, <2>2 DEF BytesBeside
  <2>3. CASE k # n + 1
    BY <1>2, <1>10, <1>11, <1>12, <2>3 DEF IInv, BytesHeldAddUp
  <2>4. QED BY <2>2, <2>3
<1>16. ResultsAreFaithful'
  BY <1>2, <1>6, <1>7, <1>8, <1>10, <1>12 DEF IInv, ResultsAreFaithful
<1>17. AppliedListsHaveBuilt'
  <2>1. SUFFICES ASSUME NEW k \in 1..(n + 1),
                        stack'[k].outcome = Applied, Returned(k)' > 0
                 PROVE  stack'[k].result # NoBuffer
    BY <1>7 DEF AppliedListsHaveBuilt
  <2>2. k # n + 1
    BY <1>6, <1>8, <2>1 DEF Returned
  <2>3. k \in DOMAIN stack /\ Returned(k)' = Returned(k)
    <3>1. CASE k = n
      <4>1. Returned(k) = Top.next - 1 /\ Returned(k)' = Top.next + 1 - 2
        <5>1. k # Len(stack')
          <6>1. \A i \in Nat : i # i + 1
            OBVIOUS
          <6>2. QED BY <1>2, <1>6, <3>1, <6>1
        <5>2. stack'[k].next = Top.next + 1
          BY <1>3, <1>7, <3>1, Zenon
        <5>3. Returned(k)' = stack'[k].next - 2
          BY <5>1 DEF Returned
        <5>4. Returned(k) = Top.next - 1
          BY <1>2, <3>1 DEF Returned
        <5>5. \A i \in Nat \ {0} : (i + 1) - 2 = i - 1
          OBVIOUS
        <5>6. QED BY <1>2, <1>3, <3>1, <5>2, <5>3, <5>4, <5>5
      <4>2. QED BY <1>2, <1>3, <3>1, <4>1
    <3>2. CASE k # n
      <4>1. k \in 1..(n - 1)
        BY <1>9, <2>2, <3>2
      <4>2. stack'[k] = stack[k] /\ k \in DOMAIN stack
        BY <1>2, <1>7, <4>1
      <4>3. QED BY <1>6, <2>2, <3>2, <4>2 DEF Returned
    <3>3. QED BY <3>1, <3>2
  <2>4. QED BY <1>10, <1>2, <2>1, <2>3 DEF IInv, AppliedListsHaveBuilt
<1>18. QED BY <1>1, <1>2, <1>13, <1>14, <1>15, <1>16, <1>17 DEF IInv

\* A list that ends Applied has built its buffer.
LEMMA EndedListHasBuilt ==
  ASSUME IInv, ListEnds, Top.outcome = Applied
  PROVE  Top.result # NoBuffer /\ Faithful(Top.result)
<1>1. /\ Running /\ Top \in Frames /\ Len(stack) \in DOMAIN stack
      /\ Top = stack[Len(stack)]
  BY TopFrame DEF ListEnds
<1>2. Top.result # NoBuffer
  <2>1. CASE Top.updates = << >>
    BY <2>1 DEF ListEnds
  <2>2. CASE Top.updates # << >>
    <3>1. /\ Top.updates \in Seq(Operations) /\ Top.next \in Nat
          /\ Len(Top.updates) \in Nat /\ Len(Top.updates) # 0
      BY <1>1, <2>2 DEF Frames
    <3>2. Returned(Len(stack)) > 0
      BY <1>1, <3>1 DEF ListEnds, Returned
    <3>3. QED BY <1>1, <3>2 DEF IInv, AppliedListsHaveBuilt
  <2>3. QED BY <2>1, <2>2
<1>3. QED BY <1>1, <1>2 DEF IInv, ResultsAreFaithful

\* The list in front gives way to its caller, which comes to be `f`.
LEMMA FrontGivesWay ==
  ASSUME IInv, Running, Len(stack) > 1, NEW f \in Frames,
         stack' = SubSeq(stack, 1, Len(stack) - 2) \o <<f>>
  PROVE  /\ stack' \in Seq(Frames) /\ Len(stack') = Len(stack) - 1
         /\ stack'[Len(stack) - 1] = f
         /\ \A k \in 1..((Len(stack) - 1) - 1) : stack'[k] = stack[k]
<1> DEFINE n == Len(stack)
           outer == SubSeq(stack, 1, n - 2)
<1>1. /\ n \in Nat \ {0} /\ DOMAIN stack = 1..n
      /\ \A k \in DOMAIN stack : stack[k] \in Frames
  BY TopFrame
<1>2. n - 1 \in Nat \ {0} /\ n - 2 \in Nat
  <2> HIDE DEF n
  <2>1. n > 1
    BY DEF n
  <2>2. QED BY <1>1, <2>1
<1>3. /\ outer \in Seq(Frames) /\ Len(outer) = n - 2
      /\ \A i \in 1..(n - 2) : outer[i] = stack[i]
  <2>1. \A i \in 1..(n - 2) : stack[i] \in Frames
    <3>1. \A i \in 1..(n - 2) : i \in 1..n
      <4> HIDE DEF n
      <4>1. QED BY <1>1
    <3>2. QED BY <1>1, <3>1
  <2>2. /\ 1 \in Int /\ n - 2 \in Int /\ (n - 2) - 1 + 1 = n - 2
        /\ \A i \in 1..(n - 2) : 1 + i - 1 = i
        /\ (IF 1 <= n - 2 THEN (n - 2) - 1 + 1 ELSE 0) = n - 2
    <3> HIDE DEF n
    <3>1. QED BY <1>2
  <2> HIDE DEF n
  <2>3. QED BY <2>1, <2>2, SubSeqProperties
<1>4. <<f>> \in Seq(Frames) /\ Len(<<f>>) = 1 /\ <<f>>[1] = f
  OBVIOUS
<1>5. /\ outer \o <<f>> \in Seq(Frames) /\ Len(outer \o <<f>>) = (n - 2) + 1
      /\ \A i \in 1..((n - 2) + 1) :
           (outer \o <<f>>)[i] =
             IF i <= n - 2 THEN outer[i] ELSE <<f>>[i - (n - 2)]
  <2> HIDE DEF outer
  <2>1. QED BY <1>3, <1>4, ConcatProperties
<1>6. stack' = outer \o <<f>>
  OBVIOUS
<1> HIDE DEF outer
<1>7. \A i \in 1..((n - 1) - 1) : i <= n - 2 /\ i \in 1..((n - 2) + 1)
  <2> HIDE DEF n
  <2>1. QED BY <1>1
<1>8. n - 1 \in 1..((n - 2) + 1) /\ ~(n - 1 <= n - 2)
      /\ (n - 1) - (n - 2) = 1 /\ (n - 2) + 1 = n - 1
  <2> HIDE DEF n
  <2>1. (n - 2) + 1 = n - 1 /\ (n - 1) - (n - 2) = 1 /\ ~(n - 1 <= n - 2)
    BY <1>1
  <2>2. n - 1 \in 1..(n - 1)
    BY <1>1, <1>2
  <2>3. QED BY <2>1, <2>2, Zenon
<1>9. stack'[n - 1] = f
  BY <1>4, <1>5, <1>6, <1>8
<1>10. \A k \in 1..((n - 1) - 1) : stack'[k] = stack[k]
  <2> HIDE DEF n
  <2> TAKE k \in 1..((n - 1) - 1)
  <2>1. (n - 1) - 1 = n - 2
    BY <1>1
  <2>2. stack'[k] = outer[k]
    BY <1>5, <1>6, <1>7
  <2>3. QED BY <1>3, <2>1, <2>2
<1>11. QED BY <1>5, <1>6, <1>8, <1>9, <1>10

LEMMA ReturningKeepsInvariant ==
  ASSUME IInv, ReturnToCaller
  PROVE  IInv'
<1> DEFINE n == Len(stack)
           caller == stack[n - 1]
           advanced == IF Top.result # NoBuffer THEN Advance(caller, Top.result)
                                                ELSE caller
           returned == IF Top.outcome = NotStored
                         THEN [advanced EXCEPT !.outcome = NotStored]
                         ELSE advanced
<1>1. /\ Running /\ ListEnds /\ n > 1
      /\ stack' = SubSeq(stack, 1, n - 2) \o <<returned>>
      /\ UNCHANGED <<request, source, held, answer, root>>
  BY DEF ReturnToCaller, ListEnds
<1>2. /\ n \in Nat \ {0} /\ DOMAIN stack = 1..n
      /\ \A k \in DOMAIN stack : stack[k] \in Frames
      /\ Top = stack[n] /\ Top \in Frames /\ n \in DOMAIN stack
  BY <1>1, TopFrame
<1>3. n - 1 \in 1..n /\ n - 1 \in Nat \ {0} /\ n - 1 # n /\ n - 2 \in Nat
  <2>1. \A i \in Nat : i > 1 =>
          i - 1 \in 1..i /\ i - 1 \in Nat \ {0} /\ i - 1 # i /\ i - 2 \in Nat
    OBVIOUS
  <2>2. n \in Nat /\ n > 1
    BY <1>1, <1>2
  <2> HIDE DEF n
  <2>3. QED BY <2>1, <2>2
<1>4. caller \in Frames
  BY <1>2, <1>3
<1>5. /\ Top.source = IF Top.result # NoBuffer THEN Top.result
                         ELSE caller.source
      /\ Top.result # NoBuffer => Faithful(Top.result) /\ Top.result \in Tables
  <2>1. n # 1
    BY <1>1
  <2>2. QED
    BY <1>2, <2>1 DEF IInv, ListsShareTheRunningTable, ResultsAreFaithful, Frames
<1>6. /\ advanced \in Frames /\ advanced.next = caller.next
      /\ advanced.outcome = caller.outcome
      /\ advanced.bytesHeld = caller.bytesHeld
      /\ advanced.source = IF advanced.result # NoBuffer THEN advanced.result
                                                         ELSE caller.source
      /\ advanced.result = NoBuffer =>
           caller.result = NoBuffer /\ Top.result = NoBuffer
      /\ advanced.result # NoBuffer => Faithful(advanced.result)
  <2>1. CASE Top.result # NoBuffer
    BY <1>4, <1>5, <2>1, AdvancedFrame
  <2>2. CASE Top.result = NoBuffer
    <3>1. caller.result # NoBuffer =>
            caller.source = caller.result /\ Faithful(caller.result)
      BY <1>2, <1>3 DEF IInv, ListsShareTheRunningTable, ResultsAreFaithful
    <3>2. QED BY <1>4, <2>2, <3>1
  <2>3. QED BY <2>1, <2>2
<1>7. /\ returned \in Frames /\ returned.next = advanced.next
      /\ returned.source = advanced.source /\ returned.result = advanced.result
      /\ returned.bytesHeld = advanced.bytesHeld
      /\ returned.outcome = Applied =>
           Top.outcome = Applied /\ advanced.outcome = Applied
  <2>1. CASE Top.outcome = NotStored
    BY <1>6, <2>1, MissedFrame DEF NotStored, Applied
  <2>2. CASE Top.outcome # NotStored
    <3>1. returned = advanced
      BY <2>2
    <3>2. Top.outcome = Applied
      BY <1>2, <2>2 DEF Frames
    <3> HIDE DEF returned, advanced
    <3>3. QED BY <1>6, <3>1, <3>2
  <2>3. QED BY <2>1, <2>2
<1>8. returned.outcome = Applied => returned.result # NoBuffer
  BY <1>1, <1>6, <1>7, EndedListHasBuilt
<1>9. /\ stack' \in Seq(Frames) /\ Len(stack') = n - 1
      /\ stack'[n - 1] = returned
      /\ \A k \in 1..((n - 1) - 1) : stack'[k] = stack[k]
  BY <1>1, <1>7, FrontGivesWay
<1>10. /\ returned.bytesHeld = stack[n - 1].bytesHeld
       /\ returned.source = IF returned.result # NoBuffer THEN returned.result
                                                        ELSE stack[n - 1].source
       /\ returned.result = NoBuffer => stack[n - 1].result = NoBuffer
       /\ returned.result # NoBuffer => Faithful(returned.result)
  BY <1>6, <1>7
<1> HIDE DEF returned
<1>11. QED
  BY <1>1, <1>3, <1>7, <1>8, <1>9, <1>10, FrontKeepsInvariant

\* The list in front runs on the buffer it built, if it built one.
LEMMA TopRunsOnItsBuffer ==
  ASSUME IInv, Running
  PROVE  Top.result # NoBuffer =>
           Top.source = Top.result /\ Faithful(Top.result)
<1>1. Top = stack[Len(stack)] /\ Len(stack) \in DOMAIN stack
  BY TopFrame
<1>2. QED
  BY <1>1 DEF IInv, ListsShareTheRunningTable, ResultsAreFaithful

\* An edit of the list in front builds its next running table.
LEMMA BuildingKeepsInvariant ==
  ASSUME IInv, Running, NEW t \in Tables, Faithful(t),
         UNCHANGED <<request, source, held, answer, root>>,
         stack' = Replace(Past(Advance(Top, t)))
  PROVE  IInv'
<1> DEFINE f == Past(Advance(Top, t))
<1>1. Top \in Frames
  BY TopFrame
<1>2. /\ f \in Frames /\ f.source = t /\ f.result = t
      /\ f.bytesHeld = Top.bytesHeld
  BY <1>1, AdvancedFrame, PastFrame
<1>3. t # NoBuffer
  BY EditAssumption
<1> HIDE DEF f
<1>4. stack' = Replace(f)
  BY DEF f
<1>5. QED BY <1>2, <1>3, <1>4, MovingOnKeepsInvariant

LEMMA NestedPutKeepsInvariant ==
  ASSUME IInv, NestedPut
  PROVE  IInv'
<1>1. /\ Running /\ Top \in Frames /\ Operation \in Operations
      /\ Operation.type = "put" /\ Target \in Path
      /\ VectorGrowthBudget(BytesBeside) \in 0..Largest
      /\ Top.source \in Tables
  BY TopOperation, TopFrame DEF NestedPut, AtOperation, Frames
<1> DEFINE outcome == ClassifyPut(Top.source, Target, Operation.payload,
                                  VectorGrowthBudget(BytesBeside))
           t == Put(Top.source, Target, Operation.payload)
<1>2. CASE outcome = Applied
  <2>1. t \in Tables /\ Faithful(t)
    BY <1>1, <1>2, EditAssumption
  <2>2. stack' = Replace(Past(Advance(Top, t)))
        /\ UNCHANGED <<request, source, held, answer, root>>
    BY <1>2 DEF NestedPut
  <2>3. QED BY <1>1, <2>1, <2>2, BuildingKeepsInvariant
<1>3. CASE outcome # Applied
  <2>1. Answer(Refused) /\ UNCHANGED <<request, source, held, root>>
    BY <1>3 DEF NestedPut
  <2>2. root = NoBuffer
    BY <1>1, TopFrame
  <2>3. QED
    BY <2>1, <2>2, AnsweringKeepsInvariant DEF Outcomes, Refused, Applied
<1>4. QED BY <1>2, <1>3

LEMMA NestedDeleteKeepsInvariant ==
  ASSUME IInv, NestedDelete
  PROVE  IInv'
<1> DEFINE outcome == ClassifyDelete(Top.source, Target)
           t == Delete(Top.source, Target)
<1>1. /\ Running /\ Top \in Frames /\ Target \in Path
      /\ Top.source \in Tables /\ root = NoBuffer
      /\ outcome \in Outcomes
      /\ UNCHANGED <<request, source, held, root>>
  <2>1. /\ Running /\ Top \in Frames /\ Target \in Path /\ root = NoBuffer
        /\ UNCHANGED <<request, source, held, root>>
    BY TopOperation, TopFrame DEF NestedDelete, AtOperation
  <2>2. Top.source \in Tables
    BY <2>1 DEF Frames
  <2>3. QED BY <2>1, <2>2, EditAssumption
<1>2. CASE outcome = Applied
  <2>1. t \in Tables /\ Faithful(t)
    BY <1>1, <1>2, EditAssumption
  <2>2. stack' = Replace(Past(Advance(Top, t))) /\ UNCHANGED answer
    BY <1>2 DEF NestedDelete, Applied, NotStored, Refused
  <2>3. QED BY <1>1, <2>1, <2>2, BuildingKeepsInvariant
<1>3. CASE outcome = Refused
  <2>1. Answer(Refused)
    BY <1>3 DEF NestedDelete, Applied, NotStored, Refused
  <2>2. QED
    BY <1>1, <2>1, AnsweringKeepsInvariant DEF Outcomes, Refused, Applied
<1>4. CASE outcome = NotStored
  <2> DEFINE missed == [Top EXCEPT !.outcome = NotStored]
             f == Past(missed)
  <2>1. stack' = Replace(f) /\ UNCHANGED answer
    BY <1>4 DEF NestedDelete, Applied, NotStored, Refused
  <2>2. /\ missed \in Frames /\ missed.outcome = NotStored
        /\ missed.source = Top.source /\ missed.result = Top.result
        /\ missed.bytesHeld = Top.bytesHeld
    BY <1>1, MissedFrame
  <2> HIDE DEF missed
  <2>3. /\ f \in Frames /\ f.outcome = NotStored
        /\ f.source = Top.source /\ f.result = Top.result
        /\ f.bytesHeld = Top.bytesHeld
    BY <2>2, PastFrame
  <2>4. f.outcome # Applied
    BY <2>3 DEF NotStored, Applied
  <2> HIDE DEF f
  <2>5. QED
    BY <1>1, <2>1, <2>3, <2>4, TopRunsOnItsBuffer, MovingOnKeepsInvariant
<1>5. QED BY <1>1, <1>2, <1>3, <1>4 DEF Outcomes

LEMMA CopyingKeepsInvariant ==
  ASSUME IInv, CopyForEmptyList
  PROVE  IInv'
<1>1. /\ Running /\ Top \in Frames /\ root = NoBuffer
      /\ Top.source \in Tables
      /\ UNCHANGED <<request, source, held, root>>
  BY TopFrame DEF CopyForEmptyList, Frames
<1>2. CASE Faithful(Top.source)
  <2> DEFINE t == Copy(Top.source)
             f == Advance(Top, t)
  <2>1. t \in Tables /\ Faithful(t) /\ t # NoBuffer
    BY <1>1, <1>2, EditAssumption
  <2>2. stack' = Replace(f) /\ UNCHANGED answer
    BY <1>2 DEF CopyForEmptyList
  <2>3. /\ f \in Frames /\ f.source = t /\ f.result = t
        /\ f.bytesHeld = Top.bytesHeld
    BY <1>1, <2>1, AdvancedFrame
  <2> HIDE DEF t, f
  <2>4. QED BY <1>1, <2>1, <2>2, <2>3, MovingOnKeepsInvariant
<1>3. CASE ~Faithful(Top.source)
  <2>1. Answer(Refused)
    BY <1>3 DEF CopyForEmptyList
  <2>2. QED
    BY <1>1, <2>1, AnsweringKeepsInvariant DEF Outcomes, Refused, Applied
<1>4. QED BY <1>2, <1>3

\* The fold, and the steps that answer without a patch's list.
LEMMA FoldingKeepsInvariant ==
  ASSUME IInv, FoldResult
  PROVE  IInv'
<1>1. /\ Running /\ ListEnds /\ Top \in Frames /\ root = NoBuffer
      /\ Answer(Top.outcome) /\ UNCHANGED <<request, source, held>>
      /\ root' = IF Top.outcome = Applied THEN Copy(Top.result) ELSE root
  BY TopFrame DEF FoldResult, ListEnds
<1>2. /\ Top.outcome \in Outcomes
      /\ Top.result \in Tables \cup {NoBuffer}
  BY <1>1 DEF Frames, Outcomes
<1>3. CASE Top.outcome = Applied
  <2>1. Top.result \in Tables
    BY <1>1, <1>2, <1>3, EndedListHasBuilt
  <2>2. root' \in Tables /\ root' # NoBuffer
    BY <1>1, <1>3, <2>1, EditAssumption
  <2>3. QED BY <1>1, <1>2, <1>3, <2>2, AnsweringKeepsInvariant
<1>4. CASE Top.outcome # Applied
  BY <1>1, <1>2, <1>4, AnsweringKeepsInvariant
<1>5. QED BY <1>3, <1>4

LEMMA AloneKeepsInvariant ==
  ASSUME IInv, RefuseIllFormed \/ LonePut \/ LoneDelete \/ EmptyPatch
  PROVE  IInv'
<1>1. /\ request \in Operations /\ request.offsets \in Path
      /\ source \in Tables /\ root = NoBuffer
      /\ VectorGrowthBudget(held) \in 0..Largest
      /\ UNCHANGED <<request, source, held>>
  <2>1. answer = "none" /\ UNCHANGED <<request, source, held>>
    BY DEF RefuseIllFormed, LonePut, LoneDelete, EmptyPatch, Begin
  <2>2. /\ request \in Operations /\ source \in Tables /\ held \in Nat
        /\ root = NoBuffer
    BY <2>1, OperationAssumption, EditAssumption
       DEF IInv, TypeOK, BuiltOnlyIfApplied, Applied
  <2>3. QED BY <2>1, <2>2, OperationAssumption, BudgetRange
<1>2. CASE RefuseIllFormed
  BY <1>1, <1>2, AnsweringKeepsInvariant
     DEF RefuseIllFormed, Outcomes, Applied, Refused
<1>3. CASE LonePut
  <2> DEFINE outcome == ClassifyPut(source, request.offsets, request.payload,
                                    VectorGrowthBudget(held))
             t == Put(source, request.offsets, request.payload)
  <2>1. /\ outcome \in Outcomes
        /\ outcome = Applied => t \in Tables /\ t # NoBuffer
    BY <1>1, <1>3, EditAssumption DEF LonePut, Outcomes
  <2>2. Answer(outcome) /\ root' = IF outcome = Applied THEN t ELSE root
    BY <1>3 DEF LonePut
  <2> HIDE DEF outcome, t
  <2>3. QED BY <1>1, <2>1, <2>2, AnsweringKeepsInvariant
<1>4. CASE LoneDelete
  <2> DEFINE outcome == ClassifyDelete(source, request.offsets)
             t == Delete(source, request.offsets)
  <2>1. /\ outcome \in Outcomes
        /\ outcome = Applied => t \in Tables /\ t # NoBuffer
    BY <1>1, EditAssumption
  <2>2. Answer(outcome) /\ root' = IF outcome = Applied THEN t ELSE root
    BY <1>4 DEF LoneDelete
  <2> HIDE DEF outcome, t
  <2>3. QED BY <1>1, <2>1, <2>2, AnsweringKeepsInvariant
<1>5. CASE EmptyPatch
  <2>1. Copy(source) \in Tables /\ Copy(source) # NoBuffer
    BY <1>1, EditAssumption
  <2>2. CASE Faithful(source)
    <3>1. Answer(Applied) /\ root' = Copy(source)
      BY <1>5, <2>2 DEF EmptyPatch
    <3>2. QED BY <1>1, <2>1, <3>1, AnsweringKeepsInvariant DEF Outcomes
  <2>3. CASE ~Faithful(source)
    <3>1. Answer(Refused) /\ root' = root
      BY <1>5, <2>3 DEF EmptyPatch
    <3>2. QED
      BY <1>1, <3>1, AnsweringKeepsInvariant DEF Outcomes, Applied, Refused
  <2>4. QED BY <2>2, <2>3
<1>6. QED BY <1>2, <1>3, <1>4, <1>5

LEMMA StartingKeepsInvariant ==
  ASSUME IInv, StartPatch
  PROVE  IInv'
<1> DEFINE f == NewFrame(request.updates, request.offsets, source, held)
<1>1. /\ stack' = <<f>> /\ UNCHANGED <<request, source, held, answer, root>>
      /\ answer = "none"
  BY DEF StartPatch, Begin
<1>2. /\ request.updates \in Seq(Operations) /\ request.offsets \in Path
      /\ source \in Tables /\ held \in Nat
  BY OperationAssumption, EditAssumption DEF IInv, TypeOK, StartPatch
<1>3. f \in Frames
  BY <1>2, NewFrameType
<1>4. /\ f.next = 1 /\ f.source = source /\ f.result = NoBuffer
      /\ f.bytesHeld = held
  BY DEF NewFrame
<1> HIDE DEF f
<1>5. /\ stack' \in Seq(Frames) /\ DOMAIN stack' = {1} /\ stack'[1] = f
      /\ Len(stack') = 1
  BY <1>1, <1>3
<1>6. TypeOK' /\ BuiltOnlyIfApplied'
  BY <1>1, <1>5 DEF IInv, TypeOK, BuiltOnlyIfApplied
<1>7. ListsShareTheRunningTable'
  BY <1>1, <1>4, <1>5 DEF ListsShareTheRunningTable
<1>8. BytesHeldAddUp'
  BY <1>1, <1>4, <1>5 DEF BytesHeldAddUp
<1>9. ResultsAreFaithful'
  BY <1>4, <1>5 DEF ResultsAreFaithful
<1>10. AppliedListsHaveBuilt'
  <2>1. Returned(1)' = 0
    BY <1>4, <1>5 DEF Returned
  <2>2. QED BY <1>5, <2>1 DEF AppliedListsHaveBuilt
<1>11. QED BY <1>1, <1>6, <1>7, <1>8, <1>9, <1>10 DEF IInv

-----------------------------------------------------------------------------

LEMMA InitInvariant == Init => IInv
BY DEF Init, IInv, TypeOK, BuiltOnlyIfApplied, ListsShareTheRunningTable,
   BytesHeldAddUp, ResultsAreFaithful, AppliedListsHaveBuilt, Applied

LEMMA NextKeepsInvariant == IInv /\ [Next]_vars => IInv'
<1>1. ASSUME IInv, Next PROVE IInv'
  BY <1>1, AloneKeepsInvariant, StartingKeepsInvariant,
     NestedPutKeepsInvariant, NestedDeleteKeepsInvariant,
     EnteringKeepsInvariant, CopyingKeepsInvariant, ReturningKeepsInvariant,
     FoldingKeepsInvariant DEF Next
<1>2. ASSUME IInv, UNCHANGED vars PROVE IInv'
  BY <1>2 DEF vars, IInv, TypeOK, BuiltOnlyIfApplied,
     ListsShareTheRunningTable, BytesHeldAddUp, ResultsAreFaithful,
     AppliedListsHaveBuilt, Returned, BufferSize
<1>3. QED BY <1>1, <1>2

\* The invariant holds from the call to its return.
LEMMA InvariantHolds == Spec => []IInv
BY InitInvariant, NextKeepsInvariant, PTL DEF Spec

\* The lists, their running tables and the answer keep to their types, for any
\* request.
THEOREM TypeCorrect == Spec => []TypeOK
<1>1. IInv => TypeOK
  BY DEF IInv
<1>2. QED BY <1>1, InvariantHolds, PTL

\* applyRequestPatch folds a root into the caller's builder exactly when it
\* answers Applied, however deep the operation that failed.
THEOREM AllOrNothing == Spec => []BuiltOnlyIfApplied
<1>1. IInv => BuiltOnlyIfApplied
  BY DEF IInv
<1>2. QED BY <1>1, InvariantHolds, PTL

\* applyOperationList never classifies against a table it has replaced, however
\* the patches nest.
THEOREM NoStaleRunningTable == Spec => []ListsShareTheRunningTable
<1>1. IInv => ListsShareTheRunningTable
  BY DEF IInv
<1>2. QED BY <1>1, InvariantHolds, PTL

\* result.data() is read only where a buffer was built, and the deep copy of it
\* loses nothing.
THEOREM FoldReadsABuffer == Spec => []FoldsAFaithfulBuffer
<1>1. IInv => FoldsAFaithfulBuffer
  BY EndedListHasBuilt DEF FoldsAFaithfulBuffer
<1>2. QED BY <1>1, InvariantHolds, PTL

-----------------------------------------------------------------------------
(***************************************************************************)
(* What is left of the lists changes in three ways: the list in front      *)
(* moves on, a list is entered, or one returns.  One lemma for each says   *)
(* what the agenda, the running table and the outcome become.              *)
(***************************************************************************)

\* What each list may grow is at most what the request alone may, and a list that
\* waits for another is not one of nothing.
ListsNest ==
  \A k \in DOMAIN stack :
    /\ stack[k].bytesHeld >= held
    /\ k < Len(stack) => stack[k].updates # << >>

-----------------------------------------------------------------------------
(* What a list has left to do.                                               *)

LEMMA LeftOfFrame ==
  ASSUME NEW f \in Frames
  PROVE  /\ Left(f) \in Seq(ItemSet)
         /\ f.next > Len(f.updates) /\ (f.updates = << >> => f.result # NoBuffer)
              => Left(f) = << >>
         /\ f.updates = << >> /\ f.result = NoBuffer =>
              Left(f) = <<[op |-> Copying, path |-> f.prefix]>>
         /\ f.next <= Len(f.updates) =>
              /\ Len(Left(f)) = Len(f.updates) + 1 - f.next
              /\ Left(f) # << >>
         /\ \A i \in 1..(Len(f.updates) + 1 - f.next) :
              Left(f)[i] =
                [op |-> f.updates[f.next - 1 + i],
                 path |-> ConcatPath(f.prefix, f.updates[f.next - 1 + i].offsets)]
<1> DEFINE n == Len(f.updates) + 1 - f.next
<1>1. /\ f.updates \in Seq(Operations) /\ f.prefix \in Path /\ f.next \in Nat \ {0}
      /\ Len(f.updates) \in Nat /\ n \in Int
  BY DEF Frames
<1>2. CASE f.updates = << >>
  <2>1. 1..n = {} /\ ~(f.next <= Len(f.updates))
    BY <1>1, <1>2
  <2>2. [op |-> Copying, path |-> f.prefix] \in ItemSet
    BY <1>1 DEF ItemSet
  <2>3. Left(f) = IF f.result = NoBuffer
                    THEN <<[op |-> Copying, path |-> f.prefix]>> ELSE << >>
    BY <1>2 DEF Left, Items
  <2> HIDE DEF n
  <2> QED BY <1>2, <2>1, <2>2, <2>3 DEF n
<1>3. ASSUME f.updates # << >>, NEW i \in 1..n
      PROVE  /\ Left(f)[i] =
                  [op |-> f.updates[f.next - 1 + i],
                   path |-> ConcatPath(f.prefix, f.updates[f.next - 1 + i].offsets)]
             /\ Left(f)[i] \in ItemSet
  <2>1. f.next - 1 + i \in 1..Len(f.updates)
    BY <1>1
  <2>2. f.updates[f.next - 1 + i] \in Operations
    BY <1>1, <2>1
  <2>3. ConcatPath(f.prefix, f.updates[f.next - 1 + i].offsets) \in Path
    BY <1>1, <2>2, OperationAssumption
  <2>4. Left(f)[i] =
          [op |-> f.updates[f.next - 1 + i],
           path |-> ConcatPath(f.prefix, f.updates[f.next - 1 + i].offsets)]
    BY <1>3 DEF Left
  <2> QED BY <2>2, <2>3, <2>4 DEF ItemSet
<1>4. CASE f.updates # << >> /\ n <= 0
  <2>1. 1..n = {} /\ ~(f.next <= Len(f.updates))
    BY <1>1, <1>4
  <2>2. Left(f) = << >>
    BY <1>4, <2>1 DEF Left
  <2> QED BY <1>1, <1>4, <2>1, <2>2
<1>5. CASE f.updates # << >> /\ n > 0
  <2>1. Left(f) = [i \in 1..n |-> Left(f)[i]]
    BY <1>5 DEF Left
  <2>2. Left(f) \in [1..n -> ItemSet]
    BY <1>3, <1>5, <2>1
  <2>3. n \in Nat
    BY <1>1, <1>5
  <2>4. Left(f) \in Seq(ItemSet) /\ Len(Left(f)) = n
    BY <2>2, <2>3, SeqDef
  <2>5. Left(f) # << >>
    BY <1>5, <2>4
  <2> QED BY <1>1, <1>3, <1>5, <2>4, <2>5
<1> QED BY <1>1, <1>2, <1>4, <1>5

\* A list past its operation has what came after it left.
LEMMA LeftPastOperation ==
  ASSUME NEW f \in Frames, NEW g \in Frames, f.next <= Len(f.updates),
         g.updates = f.updates, g.prefix = f.prefix, g.next = f.next + 1
  PROVE  /\ Left(g) = Tail(Left(f))
         /\ Left(f)[1] =
              [op |-> f.updates[f.next],
               path |-> ConcatPath(f.prefix, f.updates[f.next].offsets)]
<1> DEFINE n == Len(f.updates) + 1 - f.next
<1>1. /\ Len(f.updates) \in Nat /\ f.next \in Nat /\ f.next > 0
      /\ n \in Nat /\ n > 0 /\ f.next - 1 + 1 = f.next
      /\ f.updates # << >>
  BY DEF Frames
<1>2. /\ Left(f) \in Seq(ItemSet) /\ Len(Left(f)) = n /\ Left(f) # << >>
      /\ \A i \in 1..n :
           Left(f)[i] =
             [op |-> f.updates[f.next - 1 + i],
              path |-> ConcatPath(f.prefix, f.updates[f.next - 1 + i].offsets)]
  BY LeftOfFrame
<1>3. /\ Left(g) \in Seq(ItemSet)
      /\ n = 1 => Left(g) = << >>
      /\ n > 1 => Len(Left(g)) = n - 1
      /\ \A i \in 1..(n - 1) :
           Left(g)[i] =
             [op |-> f.updates[f.next + i],
              path |-> ConcatPath(f.prefix, f.updates[f.next + i].offsets)]
  <2>1. /\ Len(g.updates) + 1 - g.next = n - 1
        /\ \A i \in 1..(n - 1) : g.next - 1 + i = f.next + i
    <3>1. \A m, l \in Nat :
            /\ m + 1 - (l + 1) = m + 1 - l - 1
            /\ \A i \in Int : (l + 1) - 1 + i = l + i
      OBVIOUS
    <3>2. n - 1 = Len(f.updates) + 1 - f.next - 1
      BY <1>1 DEF n
    <3>3. Len(g.updates) + 1 - g.next = n - 1
      BY <1>1, <3>1, <3>2
    <3>4. \A i \in 1..(n - 1) : i \in Int
      BY <1>1
    <3> HIDE DEF n
    <3>5. ASSUME NEW i \in 1..(n - 1)
          PROVE  g.next - 1 + i = f.next + i
      <4>1. i \in Int
        BY <3>4
      <4>2. (f.next + 1) - 1 + i = f.next + i
        BY <1>1, <3>1, <4>1
      <4> QED BY <4>2
    <3> QED BY <3>3, <3>5
  <2>2. n = 1 => g.next > Len(g.updates)
    BY <1>1
  <2>3. n > 1 => g.next <= Len(g.updates)
    BY <1>1
  <2> HIDE DEF n
  <2> QED BY <1>1, <2>1, <2>2, <2>3, LeftOfFrame
<1>4. /\ Tail(Left(f)) \in Seq(ItemSet) /\ Len(Tail(Left(f))) = n - 1
      /\ \A i \in 1..(n - 1) : Tail(Left(f))[i] = Left(f)[i + 1]
  BY <1>2, HeadTailProperties
<1>5. \A i \in 1..(n - 1) : i + 1 \in 1..n /\ f.next - 1 + (i + 1) = f.next + i
  <2>1. \A m, l \in Nat : \A i \in 1..(m - 1) :
          i + 1 \in 1..m /\ l - 1 + (i + 1) = l + i
    OBVIOUS
  <2> HIDE DEF n
  <2> QED BY <1>1, <2>1
<1>6. Len(Left(g)) = n - 1
  <2>1. CASE n = 1
    BY <1>3, <2>1, EmptySeq
  <2>2. CASE n > 1
    BY <1>3, <2>2
  <2> HIDE DEF n
  <2> QED BY <1>1, <2>1, <2>2
<1>7. \A i \in 1..(n - 1) : Left(g)[i] = Tail(Left(f))[i]
  BY <1>2, <1>3, <1>4, <1>5
<1>8. Left(g) = Tail(Left(f))
  BY <1>3, <1>4, <1>6, <1>7, SeqEqual
<1>9. 1 \in 1..n
  BY <1>1
<1> QED BY <1>1, <1>2, <1>8, <1>9

\* A list that is begun has all of its operations left.
LEMMA LeftOfNewFrame ==
  ASSUME NEW updates \in Seq(Operations), NEW prefix \in Path, NEW t, NEW n
  PROVE  Left(NewFrame(updates, prefix, t, n)) = Agenda!Items(updates, prefix)
<1>1. \A i \in 1..Len(updates) : 1 - 1 + i = i
  OBVIOUS
<1>2. DOMAIN updates = 1..(Len(updates) + 1 - 1)
  OBVIOUS
<1>3. Left(NewFrame(updates, prefix, t, n)) = Items(updates, prefix)
  BY <1>1, <1>2 DEF Left, NewFrame, Items
<1> QED BY <1>3 DEF Items, Agenda!Items, Copying, Agenda!Copying

-----------------------------------------------------------------------------
(* The agenda of a stack.                                                    *)

LEMMA ListsLeft ==
  ASSUME NEW s \in Seq(Frames)
  PROVE  LET left == [k \in DOMAIN s |-> Left(s[k])]
         IN  /\ left \in Seq(Seq(ItemSet)) /\ Len(left) = Len(s)
             /\ \A k \in 1..Len(s) : left[k] = Left(s[k])
             /\ left = << >> <=> s = << >>
<1> DEFINE left == [k \in DOMAIN s |-> Left(s[k])]
<1>1. /\ Len(s) \in Nat /\ DOMAIN s = 1..Len(s)
      /\ \A k \in 1..Len(s) : s[k] \in Frames
  OBVIOUS
<1>2. left \in [1..Len(s) -> Seq(ItemSet)]
  BY <1>1, LeftOfFrame
<1>3. left \in Seq(Seq(ItemSet)) /\ Len(left) = Len(s)
  BY <1>1, <1>2, SeqDef
<1>4. \A k \in 1..Len(s) : left[k] = Left(s[k])
  BY <1>1
<1> QED BY <1>1, <1>3, <1>4, EmptySeq

LEMMA AgendaShape ==
  ASSUME IInv
  PROVE  /\ AgendaLeft \in Seq(Seq(ItemSet)) /\ Len(AgendaLeft) = Len(stack)
         /\ DOMAIN AgendaLeft = 1..Len(stack) /\ Len(stack) \in Nat
         /\ \A k \in 1..Len(stack) : AgendaLeft[k] = Left(stack[k])
         /\ AgendaLeft = << >> <=> stack = << >>
<1>1. stack \in Seq(Frames)
  BY DEF IInv, TypeOK
<1> QED BY <1>1, ListsLeft DEF AgendaLeft

LEMMA NextAgendaShape ==
  ASSUME stack' \in Seq(Frames)
  PROVE  /\ AgendaLeft' \in Seq(Seq(ItemSet)) /\ Len(AgendaLeft') = Len(stack')
         /\ \A k \in 1..Len(stack') : AgendaLeft'[k] = Left(stack'[k])
BY ListsLeft DEF AgendaLeft

-----------------------------------------------------------------------------
(* How the agenda changes.                                                   *)

\* All lists end with the answer.
LEMMA AllListsEnd ==
  ASSUME stack' = << >>, source' = source
  PROVE  /\ AgendaLeft' = << >> /\ RunningTable' = source
         /\ OutcomeSoFar' = Applied /\ ListsNest'
<1>1. DOMAIN stack' = {}
  OBVIOUS
<1>2. AgendaLeft' = << >>
  BY <1>1 DEF AgendaLeft
<1> QED BY <1>1, <1>2 DEF RunningTable, OutcomeSoFar, ListsNest

\* The list in front comes to be `f`, and the others stay as they are.
LEMMA FrontMovesOn ==
  ASSUME IInv, ListsNest, Running, held' = held, NEW f \in Frames,
         stack' = Replace(f), f.bytesHeld = Top.bytesHeld
  PROVE  /\ stack' \in Seq(Frames)
         /\ AgendaLeft' = [AgendaLeft EXCEPT ![Len(AgendaLeft)] = Left(f)]
         /\ RunningTable' = f.source
         /\ f.outcome = Top.outcome => OutcomeSoFar' = OutcomeSoFar
         /\ f.outcome = NotStored => OutcomeSoFar' = NotStored
         /\ ListsNest'
<1> DEFINE n == Len(stack)
<1>1. /\ n \in Nat \ {0} /\ DOMAIN stack = 1..n /\ Top = stack[n]
  BY TopFrame
<1>2. /\ stack' \in Seq(Frames) /\ Len(stack') = n /\ stack'[n] = f
      /\ \A k \in 1..(n - 1) : stack'[k] = stack[k]
  BY ReplaceTop
<1>3. DOMAIN stack' = 1..n /\ stack' # << >>
  BY <1>1, <1>2
<1>4. \A k \in 1..n : k = n \/ k \in 1..(n - 1)
  <2>1. \A i \in Nat \ {0} : \A k \in 1..i : k = i \/ k \in 1..(i - 1)
    OBVIOUS
  <2> HIDE DEF n
  <2> QED BY <1>1, <2>1
<1>5. \A k \in 1..(n - 1) : k \in 1..n
  BY <1>1
<1>6. n \in 1..n
  BY <1>1
<1>7. AgendaLeft' = [AgendaLeft EXCEPT ![Len(AgendaLeft)] = Left(f)]
  <2> DEFINE moved == [AgendaLeft EXCEPT ![n] = Left(f)]
  <2>1. /\ AgendaLeft \in Seq(Seq(ItemSet)) /\ Len(AgendaLeft) = n
        /\ \A k \in 1..n : AgendaLeft[k] = Left(stack[k])
    BY AgendaShape
  <2>2. Left(f) \in Seq(ItemSet)
    BY LeftOfFrame
  <2>3. /\ moved \in Seq(Seq(ItemSet)) /\ Len(moved) = n
        /\ \A k \in 1..n : moved[k] = IF k = n THEN Left(f) ELSE AgendaLeft[k]
    BY <1>6, <2>1, <2>2, ExceptSeq
  <2>4. /\ AgendaLeft' \in Seq(Seq(ItemSet)) /\ Len(AgendaLeft') = n
        /\ \A k \in 1..n : AgendaLeft'[k] = Left(stack'[k])
    BY <1>2, NextAgendaShape
  <2>5. \A k \in 1..n : AgendaLeft'[k] = moved[k]
    <3> TAKE k \in 1..n
    <3>1. CASE k = n
      BY <1>2, <2>3, <2>4, <3>1
    <3>2. CASE k # n
      BY <1>2, <1>4, <2>1, <2>3, <2>4, <3>2
    <3> QED BY <3>1, <3>2
  <2> HIDE DEF moved
  <2>6. AgendaLeft' = moved
    BY <2>3, <2>4, <2>5, SeqEqual
  <2> QED BY <2>1, <2>6 DEF moved
<1>8. RunningTable' = f.source
  BY <1>2, <1>3 DEF RunningTable, Top
<1>9. f.outcome = Top.outcome => OutcomeSoFar' = OutcomeSoFar
  BY <1>1, <1>2, <1>3, <1>4, <1>5, <1>6 DEF OutcomeSoFar
<1>10. f.outcome = NotStored => OutcomeSoFar' = NotStored
  BY <1>2, <1>3, <1>6 DEF OutcomeSoFar
<1>11. ListsNest'
  <2>1. \A k \in 1..n : stack'[k].bytesHeld >= held
    BY <1>1, <1>2, <1>4, <1>5, <1>6 DEF ListsNest
  <2>2. \A k \in 1..n : k < n => stack'[k].updates # << >>
    <3>1. \A k \in 1..n : k < n => k \in 1..(n - 1) /\ stack[k].updates # << >>
      <4>1. \A k \in 1..n : k < n => stack[k].updates # << >>
        BY <1>1 DEF ListsNest
      <4>2. n \in Nat /\ ~(n < n)
        BY <1>1
      <4> HIDE DEF n
      <4> QED BY <4>1, <4>2, FrontOrBefore
    <3> QED BY <1>2, <3>1
  <2> QED BY <1>2, <1>3, <2>1, <2>2 DEF ListsNest
<1> QED BY <1>2, <1>7, <1>8, <1>9, <1>10, <1>11

\* The list in front is past an operation.
LEMMA OperationDone ==
  ASSUME IInv, ListsNest, Running, held' = held, NEW f \in Frames,
         stack' = Replace(f), f.bytesHeld = Top.bytesHeld,
         Top.next <= Len(Top.updates),
         f.updates = Top.updates, f.prefix = Top.prefix, f.next = Top.next + 1
  PROVE  AgendaLeft' = Agenda!ItemDone
<1>1. Left(f) = Tail(Left(Top))
  BY TopFrame, LeftPastOperation
<1>2. /\ Len(AgendaLeft) = Len(stack) /\ Len(stack) \in 1..Len(stack)
      /\ AgendaLeft[Len(AgendaLeft)] = Left(Top)
  BY AgendaShape, TopFrame
<1> QED BY <1>1, <1>2, FrontMovesOn DEF Agenda!ItemDone

\* What the agenda is at, while the list in front has operations left.
LEMMA AgendaItem ==
  ASSUME IInv, NEW type, AtOperation(type)
  PROVE  /\ Agenda!Begun /\ Agenda!Remaining # << >>
         /\ Agenda!Item = [op |-> Operation, path |-> Target]
         /\ RunningTable = Top.source
<1>1. Running /\ Top.next <= Len(Top.updates) /\ Top \in Frames
  BY TopFrame DEF AtOperation
<1>2. Left(Top) # << >> /\ Left(Top)[1] = [op |-> Operation, path |-> Target]
  <2> DEFINE g == Past(Top)
  <2>1. g \in Frames /\ g.next = Top.next + 1 /\ g.updates = Top.updates
        /\ g.prefix = Top.prefix
    BY <1>1, PastFrame
  <2> HIDE DEF g
  <2> QED BY <1>1, <2>1, LeftOfFrame, LeftPastOperation DEF Operation, Target
<1>3. AgendaLeft # << >> /\ AgendaLeft[Len(AgendaLeft)] = Left(Top)
  BY <1>1, AgendaShape, TopFrame DEF Running
<1> QED
  BY <1>1, <1>2, <1>3
     DEF Running, RunningTable, Agenda!Begun, Agenda!Remaining, Agenda!Item

\* And where it has none.
LEMMA AgendaAtEnd ==
  ASSUME IInv, ListEnds
  PROVE  /\ Agenda!Begun /\ Agenda!Remaining = << >>
         /\ RunningTable = Top.source /\ Len(AgendaLeft) = Len(stack)
<1>1. Running /\ Left(Top) = << >>
  BY TopFrame, LeftOfFrame DEF ListEnds
<1>2. AgendaLeft # << >> /\ AgendaLeft[Len(AgendaLeft)] = Left(Top)
      /\ Len(AgendaLeft) = Len(stack)
  BY <1>1, AgendaShape, TopFrame DEF Running
<1> QED
  BY <1>1, <1>2 DEF Running, RunningTable, Agenda!Begun, Agenda!Remaining

-----------------------------------------------------------------------------
(* Each action of PatchApply is one of the agenda's, or none.                *)

LEMMA BudgetWithin ==
  ASSUME NEW m \in Nat, NEW n \in Nat, m >= n
  PROVE  VectorGrowthBudget(m) \in 0..VectorGrowthBudget(n)
BY EditAssumption DEF VectorGrowthBudget

LEMMA BeginIsNotBegun ==
  ASSUME IInv, Begin
  PROVE  /\ Agenda!NotBegun /\ root = NoBuffer /\ RunningTable = source
         /\ held \in Nat
BY AgendaShape, EditAssumption
   DEF IInv, TypeOK, BuiltOnlyIfApplied, Begin, Agenda!NotBegun, RunningTable, Applied

\* The request is answered, and all lists end.
LEMMA AnsweringIsAnswer ==
  ASSUME IInv, NEW result, NEW built, Answer(result),
         UNCHANGED <<request, source, held>>,
         root' = IF result = Applied THEN built ELSE NoBuffer
  PROVE  Agenda!Answer(result, built) /\ ListsNest'
<1>1. stack' = << >> /\ answer' = result
  BY DEF Answer
<1> QED BY <1>1, AllListsEnd DEF Agenda!Answer, Applied, Agenda!Applied

LEMMA RefusingIsOfTheAgenda ==
  ASSUME IInv, RefuseIllFormed
  PROVE  Agenda!RefuseIllFormed /\ ListsNest'
<1>1. /\ Begin /\ ~WellFormed(request) /\ Answer(Refused)
      /\ UNCHANGED <<request, source, held, root>>
  BY DEF RefuseIllFormed
<1>2. Agenda!NotBegun /\ root = NoBuffer
  BY <1>1, BeginIsNotBegun
<1>3. Agenda!Answer(Refused, NoBuffer) /\ ListsNest'
  BY <1>1, <1>2, AnsweringIsAnswer DEF Refused, Applied
<1> QED BY <1>1, <1>2, <1>3 DEF Agenda!RefuseIllFormed, Refused, Agenda!Refused

LEMMA LoneEditIsOfTheAgenda ==
  ASSUME IInv, LonePut \/ LoneDelete \/ EmptyPatch
  PROVE  Agenda!LoneEdit /\ ListsNest'
<1>1. /\ Begin /\ WellFormed(request)
      /\ request.type = "patch" => request.updates = << >>
      /\ UNCHANGED <<request, source, held>>
  BY DEF LonePut, LoneDelete, EmptyPatch
<1>2. /\ Agenda!NotBegun /\ root = NoBuffer /\ RunningTable = source /\ held \in Nat
      /\ source \in Tables
  BY <1>1, BeginIsNotBegun DEF IInv, TypeOK
<1>3. ASSUME NEW result \in Agenda!CanAnswer(source, Agenda!LoneItem, held),
             Answer(result),
             root' = IF result = Applied THEN Agenda!Made(source, Agenda!LoneItem)
                                         ELSE NoBuffer
      PROVE  Agenda!LoneEdit /\ ListsNest'
  <2>1. /\ Agenda!Answer(result, Agenda!Made(source, Agenda!LoneItem))
        /\ ListsNest'
    BY <1>1, <1>3, AnsweringIsAnswer
  <2> QED BY <1>1, <1>2, <1>3, <2>1 DEF Agenda!LoneEdit
<1>4. CASE LonePut
  <2> DEFINE result == ClassifyPut(source, request.offsets, request.payload,
                                   VectorGrowthBudget(held))
             built == Put(source, request.offsets, request.payload)
  <2>1. /\ request.type = "put" /\ Answer(result)
        /\ root' = IF result = Applied THEN built ELSE NoBuffer
    BY <1>2, <1>4 DEF LonePut
  <2>2. VectorGrowthBudget(held) \in 0..VectorGrowthBudget(held)
    BY <1>2, BudgetWithin
  <2>3. Agenda!LoneItem = [op |-> request, path |-> request.offsets]
    BY <2>1 DEF Agenda!LoneItem
  <2>4. result \in Agenda!CanAnswer(source, Agenda!LoneItem, held)
    BY <2>1, <2>2, <2>3
       DEF Agenda!CanAnswer, VectorGrowthBudget, Agenda!VectorGrowthBudget
  <2>5. built = Agenda!Made(source, Agenda!LoneItem)
    BY <2>1, <2>3 DEF Agenda!Made
  <2> HIDE DEF result, built
  <2> QED BY <1>3, <2>1, <2>4, <2>5
<1>5. CASE LoneDelete
  <2> DEFINE result == ClassifyDelete(source, request.offsets)
             built == Delete(source, request.offsets)
  <2>1. /\ request.type = "delete" /\ Answer(result)
        /\ root' = IF result = Applied THEN built ELSE NoBuffer
    BY <1>2, <1>5 DEF LoneDelete
  <2>2. Agenda!LoneItem = [op |-> request, path |-> request.offsets]
    BY <2>1 DEF Agenda!LoneItem
  <2>3. result \in Agenda!CanAnswer(source, Agenda!LoneItem, held)
    BY <2>1, <2>2 DEF Agenda!CanAnswer
  <2>4. built = Agenda!Made(source, Agenda!LoneItem)
    BY <2>1, <2>2 DEF Agenda!Made
  <2> HIDE DEF result, built
  <2> QED BY <1>3, <2>1, <2>3, <2>4
<1>6. CASE EmptyPatch
  <2> DEFINE result == IF Faithful(source) THEN Applied ELSE Refused
  <2>1. /\ request.type = "patch" /\ Answer(result)
        /\ root' = IF result = Applied THEN source ELSE NoBuffer
    BY <1>2, <1>6, EditAssumption DEF EmptyPatch, Applied, Refused
  <2>2. Agenda!LoneItem = [op |-> Copying, path |-> request.offsets]
    BY <2>1 DEF Agenda!LoneItem, Copying, Agenda!Copying
  <2>3. Copying.type = "copy"
    BY DEF Copying
  <2>4. result \in Agenda!CanAnswer(source, Agenda!LoneItem, held)
    BY <2>2, <2>3
       DEF Agenda!CanAnswer, Applied, Refused, Agenda!Applied, Agenda!Refused
  <2>5. source = Agenda!Made(source, Agenda!LoneItem)
    BY <2>2, <2>3 DEF Agenda!Made
  <2> HIDE DEF result
  <2> QED BY <1>3, <2>1, <2>4, <2>5
<1> QED BY <1>4, <1>5, <1>6

LEMMA StartIsOfTheAgenda ==
  ASSUME IInv, StartPatch
  PROVE  Agenda!Start /\ ListsNest'
<1> DEFINE f == NewFrame(request.updates, request.offsets, source, held)
<1>1. /\ Begin /\ WellFormed(request) /\ request.type = "patch"
      /\ request.updates # << >> /\ stack' = <<f>>
      /\ UNCHANGED <<request, source, held, answer, root>>
  BY DEF StartPatch
<1>2. /\ Agenda!NotBegun /\ RunningTable = source /\ stack = << >>
  BY <1>1, BeginIsNotBegun DEF Begin
<1>3. /\ request.updates \in Seq(Operations) /\ request.offsets \in Path
      /\ held \in Nat
  BY <1>1, OperationAssumption, EditAssumption DEF IInv, TypeOK
<1>4. /\ Left(f) = Agenda!Items(request.updates, request.offsets)
      /\ f.source = source /\ f.outcome = Applied /\ f.bytesHeld = held
  BY <1>3, LeftOfNewFrame DEF NewFrame
<1> HIDE DEF f
<1>5. DOMAIN stack' = {1} /\ stack'[1] = f /\ Len(stack') = 1 /\ stack' # << >>
  BY <1>1
<1>6. AgendaLeft' = <<Left(f)>>
  BY <1>5 DEF AgendaLeft
<1>7. RunningTable' = RunningTable
  BY <1>2, <1>4, <1>5 DEF RunningTable, Top
<1>8. OutcomeSoFar' = OutcomeSoFar
  BY <1>2, <1>4, <1>5 DEF OutcomeSoFar, Applied, NotStored
<1>9. ListsNest'
  BY <1>1, <1>3, <1>4, <1>5 DEF ListsNest
<1> QED BY <1>1, <1>2, <1>4, <1>6, <1>7, <1>8, <1>9 DEF Agenda!Start

\* A put's budget within its lists is one it could have alone.
LEMMA NestedBudget ==
  ASSUME IInv, ListsNest, NEW type, AtOperation(type)
  PROVE  VectorGrowthBudget(BytesBeside) \in 0..VectorGrowthBudget(held)
<1>1. Running /\ BytesBeside \in Nat /\ Top \in Frames /\ Top.bytesHeld >= held
  BY TopOperation, TopFrame DEF AtOperation, ListsNest
<1>2. BufferSize(Top.result) \in Nat /\ Top.bytesHeld \in Nat /\ held \in Nat
  BY <1>1, BufferSizeType, EditAssumption DEF Frames, IInv, TypeOK
<1>3. BytesBeside >= held
  BY <1>1, <1>2 DEF BytesBeside
<1> QED BY <1>1, <1>2, <1>3, BudgetWithin

\* An edit within a list that is Applied, or NotStored, or Refused.
LEMMA AppliedIsOfTheAgenda ==
  ASSUME IInv, ListsNest, NEW type, AtOperation(type), type # "patch",
         NEW t \in Tables, t = Agenda!Made(Top.source, Agenda!Item),
         Applied \in Agenda!CanAnswer(Top.source, Agenda!Item, held),
         stack' = Replace(Past(Advance(Top, t))),
         UNCHANGED <<request, source, held, answer, root>>
  PROVE  Agenda!Edit /\ ListsNest'
<1> DEFINE g == Advance(Top, t)
           f == Past(g)
<1>1. /\ Running /\ Top.next <= Len(Top.updates) /\ Top \in Frames
      /\ Operation.type = type
  BY TopFrame, TopOperation DEF AtOperation
<1>2. /\ g \in Frames /\ g.source = t /\ g.outcome = Top.outcome
      /\ g.bytesHeld = Top.bytesHeld /\ g.next = Top.next
      /\ g.updates = Top.updates /\ g.prefix = Top.prefix
  BY <1>1, AdvancedFrame
<1> HIDE DEF g
<1>3. /\ f \in Frames /\ f.source = t /\ f.outcome = Top.outcome
      /\ f.bytesHeld = Top.bytesHeld /\ f.next = Top.next + 1
      /\ f.updates = Top.updates /\ f.prefix = Top.prefix
  BY <1>2, PastFrame
<1>4. stack' = Replace(f) /\ held' = held
  BY DEF g
<1> HIDE DEF f
<1>5. AgendaLeft' = Agenda!ItemDone
  BY <1>1, <1>3, <1>4, OperationDone
<1>6. RunningTable' = t /\ OutcomeSoFar' = OutcomeSoFar /\ ListsNest'
  BY <1>1, <1>3, <1>4, FrontMovesOn
<1>7. /\ Agenda!Begun /\ Agenda!Remaining # << >>
      /\ Agenda!Item.op = Operation /\ RunningTable = Top.source
  BY AgendaItem
<1> QED
  BY <1>1, <1>5, <1>6, <1>7
     DEF Agenda!Edit, Applied, Agenda!Applied, Agenda!Refused, Agenda!NotStored

LEMMA NotStoredIsOfTheAgenda ==
  ASSUME IInv, ListsNest, NEW type, AtOperation(type), type # "patch",
         NotStored \in Agenda!CanAnswer(Top.source, Agenda!Item, held),
         stack' = Replace(Past([Top EXCEPT !.outcome = NotStored])),
         UNCHANGED <<request, source, held, answer, root>>
  PROVE  Agenda!Edit /\ ListsNest'
<1> DEFINE g == [Top EXCEPT !.outcome = NotStored]
           f == Past(g)
<1>1. /\ Running /\ Top.next <= Len(Top.updates) /\ Top \in Frames
      /\ Operation.type = type
  BY TopFrame, TopOperation DEF AtOperation
<1>2. /\ g \in Frames /\ g.source = Top.source /\ g.outcome = NotStored
      /\ g.bytesHeld = Top.bytesHeld /\ g.next = Top.next
      /\ g.updates = Top.updates /\ g.prefix = Top.prefix
  BY <1>1, MissedFrame
<1> HIDE DEF g
<1>3. /\ f \in Frames /\ f.source = Top.source /\ f.outcome = NotStored
      /\ f.bytesHeld = Top.bytesHeld /\ f.next = Top.next + 1
      /\ f.updates = Top.updates /\ f.prefix = Top.prefix
  BY <1>2, PastFrame
<1>4. stack' = Replace(f) /\ held' = held
  BY DEF g
<1> HIDE DEF f
<1>5. AgendaLeft' = Agenda!ItemDone
  BY <1>1, <1>3, <1>4, OperationDone
<1>6. /\ RunningTable' = Top.source /\ OutcomeSoFar' = NotStored
      /\ ListsNest'
  BY <1>1, <1>3, <1>4, FrontMovesOn
<1>7. /\ Agenda!Begun /\ Agenda!Remaining # << >>
      /\ Agenda!Item.op = Operation /\ RunningTable = Top.source
  BY AgendaItem
<1> QED
  BY <1>1, <1>5, <1>6, <1>7
     DEF Agenda!Edit, NotStored, Agenda!Applied, Agenda!Refused, Agenda!NotStored

LEMMA RefusedIsOfTheAgenda ==
  ASSUME IInv, ListsNest, NEW type, AtOperation(type), type # "patch",
         Refused \in Agenda!CanAnswer(Top.source, Agenda!Item, held),
         Answer(Refused), UNCHANGED <<request, source, held, root>>
  PROVE  Agenda!Edit /\ ListsNest'
<1>1. root' = IF Refused = Applied THEN NoBuffer ELSE NoBuffer
  BY TopFrame DEF AtOperation
<1>2. Agenda!Answer(Refused, NoBuffer) /\ ListsNest'
  BY <1>1, AnsweringIsAnswer DEF Refused, Applied
<1>3. Operation.type = type
  BY TopOperation
<1>4. /\ Agenda!Begun /\ Agenda!Remaining # << >>
      /\ Agenda!Item.op = Operation /\ RunningTable = Top.source
  BY AgendaItem
<1> QED BY <1>2, <1>3, <1>4 DEF Agenda!Edit, Refused, Agenda!Refused

LEMMA NestedPutIsOfTheAgenda ==
  ASSUME IInv, ListsNest, NestedPut
  PROVE  Agenda!Edit /\ ListsNest'
<1> DEFINE budget == VectorGrowthBudget(BytesBeside)
           result == ClassifyPut(Top.source, Target, Operation.payload, budget)
           t == Put(Top.source, Target, Operation.payload)
<1>1. /\ AtOperation("put") /\ Operation.type = "put" /\ Target \in Path
      /\ Operation \in Operations /\ budget \in 0..Largest
      /\ Top.source \in Tables /\ Agenda!Item.op = Operation
      /\ Agenda!Item.path = Target
  BY TopOperation, TopFrame, AgendaItem DEF NestedPut, AtOperation, Frames
<1>2. budget \in 0..VectorGrowthBudget(held)
  BY <1>1, NestedBudget
<1>3. result \in {Applied, Refused} /\ (result = Applied => t \in Tables)
  BY <1>1, EditAssumption
<1>4. result \in Agenda!CanAnswer(Top.source, Agenda!Item, held)
  BY <1>1, <1>2
     DEF Agenda!CanAnswer, VectorGrowthBudget, Agenda!VectorGrowthBudget
<1>5. t = Agenda!Made(Top.source, Agenda!Item)
  BY <1>1 DEF Agenda!Made
<1>6. CASE result = Applied
  <2>1. /\ stack' = Replace(Past(Advance(Top, t)))
        /\ UNCHANGED <<request, source, held, answer, root>>
    BY <1>6 DEF NestedPut
  <2> HIDE DEF result, t
  <2> QED BY <1>1, <1>3, <1>4, <1>5, <1>6, <2>1, AppliedIsOfTheAgenda
<1>7. CASE result # Applied
  <2>1. Answer(Refused) /\ UNCHANGED <<request, source, held, root>>
    BY <1>7 DEF NestedPut
  <2> HIDE DEF result
  <2>2. Refused \in Agenda!CanAnswer(Top.source, Agenda!Item, held)
    BY <1>3, <1>4, <1>7
  <2> QED BY <1>1, <2>1, <2>2, RefusedIsOfTheAgenda
<1> QED BY <1>6, <1>7

LEMMA NestedDeleteIsOfTheAgenda ==
  ASSUME IInv, ListsNest, NestedDelete
  PROVE  Agenda!Edit /\ ListsNest'
<1> DEFINE result == ClassifyDelete(Top.source, Target)
           t == Delete(Top.source, Target)
<1>1. /\ AtOperation("delete") /\ Operation.type = "delete" /\ Target \in Path
      /\ Top.source \in Tables /\ Agenda!Item.op = Operation
      /\ Agenda!Item.path = Target
      /\ UNCHANGED <<request, source, held, root>>
  BY TopOperation, TopFrame, AgendaItem DEF NestedDelete, AtOperation, Frames
<1>2. result \in Outcomes /\ (result = Applied => t \in Tables)
  BY <1>1, EditAssumption
<1>3. result \in Agenda!CanAnswer(Top.source, Agenda!Item, held)
  BY <1>1 DEF Agenda!CanAnswer
<1>4. t = Agenda!Made(Top.source, Agenda!Item)
  BY <1>1 DEF Agenda!Made
<1>5. CASE result = Applied
  <2>1. stack' = Replace(Past(Advance(Top, t))) /\ UNCHANGED answer
    BY <1>5 DEF NestedDelete, Applied, NotStored, Refused
  <2> HIDE DEF result, t
  <2> QED BY <1>1, <1>2, <1>3, <1>4, <1>5, <2>1, AppliedIsOfTheAgenda
<1>6. CASE result = NotStored
  <2>1. /\ stack' = Replace(Past([Top EXCEPT !.outcome = NotStored]))
        /\ UNCHANGED answer
    BY <1>6 DEF NestedDelete, Applied, NotStored, Refused
  <2> HIDE DEF result
  <2> QED BY <1>1, <1>3, <1>6, <2>1, NotStoredIsOfTheAgenda
<1>7. CASE result = Refused
  <2>1. Answer(Refused)
    BY <1>7 DEF NestedDelete, Applied, NotStored, Refused
  <2> HIDE DEF result
  <2> QED BY <1>1, <1>3, <1>7, <2>1, RefusedIsOfTheAgenda
<1> QED BY <1>2, <1>5, <1>6, <1>7 DEF Outcomes

LEMMA EnterIsOfTheAgenda ==
  ASSUME IInv, ListsNest, EnterPatch
  PROVE  Agenda!Enter /\ ListsNest'
<1> DEFINE inner == NewFrame(Operation.updates, Target, Top.source, BytesBeside)
           n == Len(stack)
           before == Replace(Past(Top))
<1>1. /\ AtOperation("patch") /\ Running /\ stack' = Append(before, inner)
      /\ Operation \in Operations /\ Operation.type = "patch" /\ Target \in Path
      /\ BytesBeside \in Nat /\ Top.next <= Len(Top.updates)
      /\ UNCHANGED <<request, source, held, answer, root>>
  BY TopOperation DEF EnterPatch, AtOperation
<1>2. /\ n \in Nat \ {0} /\ DOMAIN stack = 1..n /\ Top = stack[n]
      /\ Top \in Frames /\ \A k \in 1..n : stack[k] \in Frames
  BY <1>1, TopFrame
<1>3. /\ Past(Top) \in Frames /\ Past(Top).next = Top.next + 1
      /\ Past(Top).outcome = Top.outcome /\ Past(Top).bytesHeld = Top.bytesHeld
      /\ Past(Top).updates = Top.updates /\ Past(Top).prefix = Top.prefix
  BY <1>2, PastFrame
<1>4. Operation.updates \in Seq(Operations)
  BY <1>1, OperationAssumption
<1>5. /\ inner \in Frames
      /\ inner.source = Top.source /\ inner.outcome = Applied
      /\ inner.bytesHeld = BytesBeside
      /\ Left(inner) = Agenda!Items(Operation.updates, Target)
  <2>1. Top.source \in Tables
    BY <1>2 DEF Frames
  <2>2. inner \in Frames
    BY <1>1, <1>4, <2>1, NewFrameType
  <2>3. Left(inner) = Agenda!Items(Operation.updates, Target)
    BY <1>1, <1>4, LeftOfNewFrame
  <2> QED BY <2>2, <2>3 DEF NewFrame
<1> HIDE DEF inner
<1>6. /\ before \in Seq(Frames) /\ Len(before) = n /\ before[n] = Past(Top)
      /\ \A k \in 1..(n - 1) : before[k] = stack[k]
  BY <1>1, <1>3, ReplaceTop
<1>7. /\ stack' \in Seq(Frames) /\ Len(stack') = n + 1 /\ stack'[n + 1] = inner
      /\ \A k \in 1..n : stack'[k] = before[k]
  BY <1>1, <1>5, <1>6, AppendProperties
<1> HIDE DEF before
<1>8. DOMAIN stack' = 1..(n + 1) /\ stack' # << >>
  BY <1>2, <1>7
<1>9. /\ n \in 1..n /\ n + 1 \in 1..(n + 1)
      /\ \A k \in 1..n : k \in 1..(n + 1) /\ k # n + 1
                         /\ (k = n \/ k \in 1..(n - 1))
      /\ \A k \in 1..(n + 1) : k = n + 1 \/ k \in 1..n
  <2>1. \A i \in Nat \ {0} :
          /\ i \in 1..i /\ i + 1 \in 1..(i + 1)
          /\ \A k \in 1..i : k \in 1..(i + 1) /\ k # i + 1
                             /\ (k = i \/ k \in 1..(i - 1))
          /\ \A k \in 1..(i + 1) : k = i + 1 \/ k \in 1..i
    OBVIOUS
  <2> HIDE DEF n
  <2> QED BY <1>2, <2>1
<1>10. /\ Len(AgendaLeft) = n /\ AgendaLeft \in Seq(Seq(ItemSet))
       /\ \A k \in 1..n : AgendaLeft[k] = Left(stack[k])
  BY AgendaShape
<1>11. Left(Past(Top)) = Tail(Left(Top))
  BY <1>1, <1>2, <1>3, LeftPastOperation
<1>12. AgendaLeft' = Append(Agenda!ItemDone, Left(inner))
  <2> DEFINE done == [AgendaLeft EXCEPT ![n] = Tail(Left(Top))]
             next == Append(done, Left(inner))
  <2>1. Tail(Left(Top)) \in Seq(ItemSet) /\ Left(inner) \in Seq(ItemSet)
    BY <1>3, <1>5, <1>11, LeftOfFrame
  <2>2. /\ done \in Seq(Seq(ItemSet)) /\ Len(done) = n
        /\ \A k \in 1..n :
             done[k] = IF k = n THEN Tail(Left(Top)) ELSE AgendaLeft[k]
    <3> HIDE DEF n
    <3> QED BY <1>9, <1>10, <2>1, ExceptSeq
  <2>3. /\ next \in Seq(Seq(ItemSet)) /\ Len(next) = n + 1
        /\ next[n + 1] = Left(inner) /\ \A k \in 1..n : next[k] = done[k]
    <3> HIDE DEF done
    <3> QED BY <2>1, <2>2, AppendProperties
  <2>4. /\ AgendaLeft' \in Seq(Seq(ItemSet)) /\ Len(AgendaLeft') = n + 1
        /\ \A k \in 1..(n + 1) : AgendaLeft'[k] = Left(stack'[k])
    BY <1>7, NextAgendaShape
  <2>5. \A k \in 1..(n + 1) : AgendaLeft'[k] = next[k]
    <3> TAKE k \in 1..(n + 1)
    <3> HIDE DEF next, done
    <3>1. CASE k = n + 1
      BY <1>7, <2>3, <2>4, <3>1
    <3>2. CASE k # n + 1
      <4>1. k \in 1..n /\ stack'[k] = before[k] /\ next[k] = done[k]
        BY <1>7, <1>9, <2>3, <3>2
      <4>2. CASE k = n
        BY <1>6, <1>11, <2>2, <2>4, <4>1, <4>2, ZenonT(60)
      <4>3. CASE k # n
        BY <1>6, <1>9, <1>10, <2>2, <2>4, <4>1, <4>3, SMTT(30)
      <4> QED BY <4>2, <4>3
    <3> QED BY <3>1, <3>2
  <2>6. done = Agenda!ItemDone
    BY <1>2, <1>9, <1>10 DEF Agenda!ItemDone
  <2> HIDE DEF next, done
  <2>7. AgendaLeft' = next
    BY <2>3, <2>4, <2>5, SeqEqual
  <2> QED BY <2>6, <2>7 DEF next
<1>13. RunningTable' = RunningTable
  <2>1. RunningTable' = inner.source
    BY <1>7, <1>8 DEF RunningTable, Top
  <2> QED BY <1>1, <1>5, <2>1, AgendaItem
<1>14. OutcomeSoFar' = OutcomeSoFar
  <2>1. \A k \in 1..n : stack'[k].outcome = stack[k].outcome
    BY <1>2, <1>3, <1>6, <1>7, <1>9
  <2>2. stack'[n + 1].outcome # NotStored
    BY <1>5, <1>7 DEF Applied, NotStored
  <2> QED BY <1>2, <1>8, <1>9, <2>1, <2>2 DEF OutcomeSoFar
<1>15. ListsNest'
  <2>1. \A k \in 1..n : stack'[k].bytesHeld = stack[k].bytesHeld
    BY <1>2, <1>3, <1>6, <1>7, <1>9
  <2>2. BytesBeside >= held
    <3>1. Top.bytesHeld >= held
      BY <1>2, <1>9 DEF ListsNest
    <3>2. BufferSize(Top.result) \in Nat /\ Top.bytesHeld \in Nat /\ held \in Nat
      BY <1>2, BufferSizeType, EditAssumption DEF Frames, IInv, TypeOK
    <3> QED BY <3>1, <3>2 DEF BytesBeside
  <2>3. \A k \in 1..n : stack'[k].updates # << >>
    <3>1. \A k \in 1..n : k # n => k < n
      <4>1. n \in Nat
        BY <1>2
      <4> HIDE DEF n
      <4> QED BY <4>1, FrontOrBefore
    <3>2. Past(Top).updates # << >>
      BY <1>1, <1>2, <1>3 DEF Frames
    <3>3. \A k \in 1..n : k # n => stack[k].updates # << >>
      BY <1>2, <3>1 DEF ListsNest
    <3> HIDE DEF n
    <3> QED BY <1>6, <1>7, <1>9, <3>2, <3>3
  <2>4. \A k \in 1..(n + 1) : stack'[k].bytesHeld >= held
    BY <1>1, <1>2, <1>5, <1>7, <1>9, <2>1, <2>2 DEF ListsNest
  <2>5. \A k \in 1..(n + 1) : k < n + 1 => stack'[k].updates # << >>
    <3>1. ~(n + 1 < n + 1)
      BY <1>2
    <3> QED BY <1>9, <2>3, <3>1
  <2> QED BY <1>1, <1>7, <1>8, <2>4, <2>5 DEF ListsNest
<1>16. /\ Agenda!Begun /\ Agenda!Remaining # << >>
       /\ Agenda!Item.op = Operation /\ Agenda!Item.path = Target
  BY <1>1, AgendaItem
<1> QED
  BY <1>1, <1>5, <1>12, <1>13, <1>14, <1>15, <1>16 DEF Agenda!Enter

\* An empty list's copy is the table itself, or there is none.
LEMMA CopyingIsOfTheAgenda ==
  ASSUME IInv, ListsNest, CopyForEmptyList
  PROVE  Agenda!Edit /\ ListsNest'
<1> DEFINE item == [op |-> Copying, path |-> Top.prefix]
<1>1. /\ Running /\ Top.updates = << >> /\ Top \in Frames /\ Top.result = NoBuffer
      /\ Top.source \in Tables /\ root = NoBuffer
      /\ UNCHANGED <<request, source, held, root>>
  BY TopFrame DEF CopyForEmptyList, Frames
<1>2. Left(Top) = <<item>> /\ item.op = Copying /\ Copying.type = "copy"
  BY <1>1, LeftOfFrame DEF Copying
<1> HIDE DEF item
<1>3. /\ AgendaLeft # << >> /\ AgendaLeft[Len(AgendaLeft)] = Left(Top)
      /\ AgendaLeft \in Seq(Seq(ItemSet))
  BY <1>1, AgendaShape, TopFrame DEF Running
<1>4. /\ Agenda!Begun /\ Agenda!Remaining # << >> /\ Agenda!Item = item
      /\ RunningTable = Top.source
      /\ Agenda!ItemDone = [AgendaLeft EXCEPT ![Len(AgendaLeft)] = << >>]
  <2>1. <<item>> # << >> /\ <<item>>[1] = item /\ Tail(<<item>>) = << >>
    OBVIOUS
  <2> QED
    BY <1>1, <1>2, <1>3, <2>1
       DEF Running, RunningTable, Agenda!Begun, Agenda!Remaining, Agenda!Item,
           Agenda!ItemDone
<1>5. /\ Agenda!CanAnswer(Top.source, item, held) =
           {IF Faithful(Top.source) THEN Applied ELSE Refused}
      /\ Agenda!Made(Top.source, item) = Top.source
  BY <1>2 DEF Agenda!CanAnswer, Agenda!Made, Applied, Refused, Agenda!Applied,
     Agenda!Refused
<1>6. CASE Faithful(Top.source)
  <2> DEFINE f == Advance(Top, Top.source)
  <2>1. stack' = Replace(f) /\ UNCHANGED answer
    BY <1>1, <1>6, EditAssumption DEF CopyForEmptyList
  <2>2. /\ f \in Frames /\ f.source = Top.source /\ f.outcome = Top.outcome
        /\ f.bytesHeld = Top.bytesHeld /\ f.next = Top.next
        /\ f.updates = << >> /\ f.result # NoBuffer
    BY <1>1, AdvancedFrame, EditAssumption
  <2> HIDE DEF f
  <2>3. Left(f) = << >>
    BY <2>2 DEF Left
  <2>4. /\ AgendaLeft' = [AgendaLeft EXCEPT ![Len(AgendaLeft)] = Left(f)]
        /\ RunningTable' = Top.source /\ OutcomeSoFar' = OutcomeSoFar
        /\ ListsNest'
    BY <1>1, <2>1, <2>2, FrontMovesOn
  <2>5. AgendaLeft' = Agenda!ItemDone
    BY <1>4, <2>3, <2>4
  <2> QED
    BY <1>1, <1>2, <1>4, <1>5, <1>6, <2>1, <2>4, <2>5
       DEF Agenda!Edit, Applied, Agenda!Applied, Agenda!Refused, Agenda!NotStored
<1>7. CASE ~Faithful(Top.source)
  <2>1. Answer(Refused)
    BY <1>7 DEF CopyForEmptyList
  <2>2. root' = IF Refused = Applied THEN NoBuffer ELSE NoBuffer
    BY <1>1
  <2>3. Agenda!Answer(Refused, NoBuffer) /\ ListsNest'
    BY <1>1, <2>1, <2>2, AnsweringIsAnswer
  <2> QED
    BY <1>2, <1>4, <1>5, <1>7, <2>3 DEF Agenda!Edit, Refused, Agenda!Refused
<1> QED BY <1>6, <1>7

\* A caller takes the table, and of outcomes the worse.
LEMMA ReturnedCaller ==
  ASSUME IInv, Running, Len(stack) > 1
  PROVE  LET caller == stack[Len(stack) - 1]
             advanced == IF Top.result # NoBuffer THEN Advance(caller, Top.result)
                                                  ELSE caller
             returned == IF Top.outcome = NotStored
                           THEN [advanced EXCEPT !.outcome = NotStored]
                           ELSE advanced
         IN  /\ caller \in Frames /\ returned \in Frames
             /\ returned.updates = caller.updates
             /\ returned.prefix = caller.prefix /\ returned.next = caller.next
             /\ returned.bytesHeld = caller.bytesHeld
             /\ returned.source = Top.source
             /\ returned.outcome = NotStored <=>
                  Top.outcome = NotStored \/ caller.outcome = NotStored
<1> DEFINE n == Len(stack)
           caller == stack[n - 1]
           advanced == IF Top.result # NoBuffer THEN Advance(caller, Top.result)
                                                ELSE caller
<1>1. /\ n \in Nat \ {0} /\ Top = stack[n] /\ Top \in Frames
      /\ n \in DOMAIN stack /\ \A k \in 1..n : stack[k] \in Frames
  BY TopFrame
<1>2. n - 1 \in 1..n /\ n # 1
  <2>1. \A i \in Nat : i > 1 => i - 1 \in 1..i /\ i # 1
    OBVIOUS
  <2>2. n \in Nat /\ n > 1
    BY <1>1
  <2> HIDE DEF n
  <2> QED BY <2>1, <2>2
<1>3. caller \in Frames
  BY <1>1, <1>2
<1>4. /\ Top.source = IF Top.result # NoBuffer THEN Top.result ELSE caller.source
      /\ Top.result \in Tables \cup {NoBuffer}
  BY <1>1, <1>2 DEF IInv, ListsShareTheRunningTable, Frames
<1> HIDE DEF caller
<1>5. /\ advanced \in Frames /\ advanced.source = Top.source
      /\ advanced.updates = caller.updates /\ advanced.prefix = caller.prefix
      /\ advanced.next = caller.next /\ advanced.outcome = caller.outcome
      /\ advanced.bytesHeld = caller.bytesHeld
  <2>1. CASE Top.result # NoBuffer
    BY <1>3, <1>4, <2>1, AdvancedFrame
  <2>2. CASE Top.result = NoBuffer
    BY <1>3, <1>4, <2>2
  <2> QED BY <2>1, <2>2
<1> HIDE DEF advanced
<1> DEFINE missed == [advanced EXCEPT !.outcome = NotStored]
<1>6. /\ missed \in Frames /\ missed.source = Top.source
      /\ missed.updates = caller.updates /\ missed.prefix = caller.prefix
      /\ missed.next = caller.next /\ missed.outcome = NotStored
      /\ missed.bytesHeld = caller.bytesHeld
  BY <1>5, MissedFrame
<1> HIDE DEF missed
<1> DEFINE returned == IF Top.outcome = NotStored THEN missed ELSE advanced
<1>7. /\ returned \in Frames
      /\ returned.updates = caller.updates
      /\ returned.prefix = caller.prefix /\ returned.next = caller.next
      /\ returned.bytesHeld = caller.bytesHeld
      /\ returned.source = Top.source
      /\ returned.outcome = NotStored <=>
           Top.outcome = NotStored \/ caller.outcome = NotStored
  BY <1>5, <1>6
<1> QED BY <1>3, <1>7 DEF caller, advanced, missed

LEMMA ReturningIsOfTheAgenda ==
  ASSUME IInv, ListsNest, ReturnToCaller
  PROVE  Agenda!Return /\ ListsNest'
<1> DEFINE n == Len(stack)
           caller == stack[n - 1]
           advanced == IF Top.result # NoBuffer THEN Advance(caller, Top.result)
                                                ELSE caller
           f == IF Top.outcome = NotStored
                  THEN [advanced EXCEPT !.outcome = NotStored]
                  ELSE advanced
<1>1. /\ Running /\ ListEnds /\ n > 1 /\ Top.next > Len(Top.updates)
      /\ stack' = SubSeq(stack, 1, n - 2) \o <<f>>
      /\ UNCHANGED <<request, source, held, answer, root>>
  BY DEF ReturnToCaller, ListEnds
<1>2. /\ f \in Frames /\ caller \in Frames
      /\ f.updates = caller.updates /\ f.prefix = caller.prefix
      /\ f.next = caller.next /\ f.bytesHeld = caller.bytesHeld
      /\ f.source = Top.source
      /\ f.outcome = NotStored <=>
           Top.outcome = NotStored \/ caller.outcome = NotStored
  BY <1>1, ReturnedCaller
<1> HIDE DEF f
<1>3. /\ stack' \in Seq(Frames) /\ Len(stack') = n - 1 /\ stack'[n - 1] = f
      /\ \A k \in 1..((n - 1) - 1) : stack'[k] = stack[k]
  BY <1>1, <1>2, FrontGivesWay
<1>4. n \in Nat \ {0} /\ DOMAIN stack = 1..n /\ Top = stack[n]
  BY <1>1, TopFrame
<1>5. /\ n - 1 \in Nat /\ n - 1 \in 1..(n - 1) /\ n \in 1..n /\ n - 1 \in 1..n
      /\ n - 1 # 0
      /\ \A k \in 1..(n - 1) : k \in 1..n /\ (k = n - 1 \/ k \in 1..((n - 1) - 1))
      /\ \A k \in 1..n : k = n \/ k \in 1..(n - 1)
  <2>1. \A i \in Nat : i > 1 =>
          /\ i - 1 \in Nat /\ i - 1 \in 1..(i - 1) /\ i \in 1..i /\ i - 1 \in 1..i
          /\ i - 1 # 0
          /\ \A k \in 1..(i - 1) : k \in 1..i /\ (k = i - 1 \/ k \in 1..((i - 1) - 1))
          /\ \A k \in 1..i : k = i \/ k \in 1..(i - 1)
    OBVIOUS
  <2>2. n \in Nat /\ n > 1
    BY <1>1, <1>4
  <2> HIDE DEF n
  <2> QED BY <2>1, <2>2
<1>6. DOMAIN stack' = 1..(n - 1) /\ stack' # << >>
  BY <1>3, <1>5
<1>7. /\ Agenda!Begun /\ Agenda!Remaining = << >>
      /\ RunningTable = Top.source /\ Len(AgendaLeft) = n
  BY <1>1, AgendaAtEnd
<1>8. Left(f) = Left(caller)
  <2>1. caller.updates # << >>
    <3>1. n - 1 \in DOMAIN stack
      BY <1>4, <1>5
    <3>2. n - 1 < n
      BY <1>4
    <3> QED BY <3>1, <3>2 DEF ListsNest
  <2> QED BY <1>2, <2>1 DEF Left
<1>9. AgendaLeft' = SubSeq(AgendaLeft, 1, Len(AgendaLeft) - 1)
  <2> DEFINE outer == SubSeq(AgendaLeft, 1, n - 1)
  <2>1. /\ AgendaLeft \in Seq(Seq(ItemSet)) /\ DOMAIN AgendaLeft = 1..n
        /\ \A k \in 1..n : AgendaLeft[k] = Left(stack[k])
    BY AgendaShape
  <2>2. /\ outer \in Seq(Seq(ItemSet)) /\ Len(outer) = n - 1
        /\ \A k \in 1..(n - 1) : outer[k] = AgendaLeft[k]
    <3>1. \A k \in 1..(n - 1) : AgendaLeft[k] \in Seq(ItemSet)
      BY <1>5, <2>1
    <3>2. /\ 1 \in Int /\ n - 1 \in Int /\ (n - 1) - 1 + 1 = n - 1
          /\ \A i \in 1..(n - 1) : 1 + i - 1 = i
          /\ (IF 1 <= n - 1 THEN (n - 1) - 1 + 1 ELSE 0) = n - 1
      <4> HIDE DEF n
      <4> QED BY <1>4, <1>5
    <3> HIDE DEF n
    <3> QED BY <3>1, <3>2, SubSeqProperties
  <2>3. /\ AgendaLeft' \in Seq(Seq(ItemSet)) /\ Len(AgendaLeft') = n - 1
        /\ \A k \in 1..(n - 1) : AgendaLeft'[k] = Left(stack'[k])
    BY <1>3, NextAgendaShape
  <2>4. \A k \in 1..(n - 1) : AgendaLeft'[k] = outer[k]
    <3> TAKE k \in 1..(n - 1)
    <3> HIDE DEF outer
    <3>1. CASE k = n - 1
      BY <1>3, <1>5, <1>8, <2>1, <2>2, <2>3, <3>1
    <3>2. CASE k # n - 1
      BY <1>3, <1>5, <2>1, <2>2, <2>3, <3>2
    <3> QED BY <3>1, <3>2
  <2> HIDE DEF outer
  <2>5. AgendaLeft' = outer
    BY <2>2, <2>3, <2>4, SeqEqual
  <2> QED BY <1>7, <2>5 DEF outer
<1>10. RunningTable' = RunningTable
  BY <1>2, <1>3, <1>6, <1>7 DEF RunningTable, Top
<1>11. OutcomeSoFar' = OutcomeSoFar
  <2>1. (\E k \in 1..(n - 1) : stack'[k].outcome = NotStored)
          <=> \E k \in 1..n : stack[k].outcome = NotStored
    <3>1. ASSUME NEW k \in 1..(n - 1), stack'[k].outcome = NotStored
          PROVE  \E j \in 1..n : stack[j].outcome = NotStored
      BY <1>2, <1>3, <1>4, <1>5, <3>1
    <3>2. ASSUME NEW k \in 1..n, stack[k].outcome = NotStored
          PROVE  \E j \in 1..(n - 1) : stack'[j].outcome = NotStored
      <4>1. CASE k = n
        BY <1>2, <1>3, <1>4, <1>5, <3>2, <4>1
      <4>2. CASE k = n - 1
        BY <1>2, <1>3, <1>5, <3>2, <4>2
      <4>3. CASE k # n /\ k # n - 1
        BY <1>3, <1>5, <3>2, <4>3
      <4> QED BY <4>1, <4>2, <4>3
    <3> QED BY <3>1, <3>2
  <2> QED BY <1>4, <1>6, <2>1 DEF OutcomeSoFar
<1>12. ListsNest'
  <2>1. \A k \in 1..n :
          /\ stack[k].bytesHeld >= held
          /\ k < n => stack[k].updates # << >>
    BY <1>4 DEF ListsNest
  <2>2. \A k \in 1..(n - 1) : stack'[k].bytesHeld = stack[k].bytesHeld
    BY <1>2, <1>3, <1>5
  <2>3. \A k \in 1..(n - 1) : stack'[k].updates = stack[k].updates
    BY <1>2, <1>3, <1>5
  <2>4. \A k \in 1..(n - 1) : k \in 1..n /\ k < n
    <3>1. \A i \in Nat : \A k \in 1..(i - 1) : k \in 1..i /\ k < i
      OBVIOUS
    <3>2. n \in Nat
      BY <1>4
    <3> HIDE DEF n
    <3> QED BY <3>1, <3>2
  <2>5. ASSUME NEW k \in 1..(n - 1)
        PROVE  stack'[k].bytesHeld >= held /\ stack'[k].updates # << >>
    <3> HIDE DEF n
    <3>1. k \in 1..n /\ k < n
      BY <2>4
    <3>2. stack[k].bytesHeld >= held /\ stack[k].updates # << >>
      BY <2>1, <3>1
    <3> QED BY <2>2, <2>3, <3>2
  <2> QED BY <1>1, <1>6, <2>5 DEF ListsNest
<1> QED BY <1>1, <1>7, <1>9, <1>10, <1>11, <1>12 DEF Agenda!Return

LEMMA FoldingIsOfTheAgenda ==
  ASSUME IInv, FoldResult
  PROVE  Agenda!Finish /\ ListsNest'
<1>1. /\ Running /\ ListEnds /\ Len(stack) = 1 /\ Top.next > Len(Top.updates)
      /\ Top \in Frames /\ Top = stack[Len(stack)] /\ root = NoBuffer
      /\ DOMAIN stack = 1..Len(stack) /\ Answer(Top.outcome)
      /\ UNCHANGED <<request, source, held>>
      /\ root' = IF Top.outcome = Applied THEN Copy(Top.result) ELSE root
  BY TopFrame DEF FoldResult, ListEnds
<1>2. /\ Agenda!Begun /\ Agenda!Remaining = << >>
      /\ RunningTable = Top.source /\ Len(AgendaLeft) = 1
  BY <1>1, AgendaAtEnd
<1>3. OutcomeSoFar = Top.outcome
  <2>1. DOMAIN stack = {1} /\ Top = stack[1]
    BY <1>1
  <2>2. Top.outcome \in {Applied, NotStored}
    BY <1>1 DEF Frames
  <2> QED BY <2>1, <2>2 DEF OutcomeSoFar
<1>4. Top.outcome = Applied =>
        Faithful(Top.source) /\ Copy(Top.result) = Top.source
  <2>1. Top.outcome = Applied => Top.result # NoBuffer /\ Faithful(Top.result)
    BY <1>1, EndedListHasBuilt
  <2>2. Top.result # NoBuffer => Top.source = Top.result /\ Top.result \in Tables
    BY <1>1, TopRunsOnItsBuffer DEF Frames
  <2> QED BY <2>1, <2>2, EditAssumption
<1>5. root' = IF Top.outcome = Applied THEN Top.source ELSE NoBuffer
  BY <1>1, <1>4
<1>6. Agenda!Answer(Top.outcome, Top.source) /\ ListsNest'
  BY <1>1, <1>5, AnsweringIsAnswer
<1> QED
  BY <1>2, <1>3, <1>4, <1>6 DEF Agenda!Finish, Applied, Agenda!Applied

-----------------------------------------------------------------------------

LEMMA InitIsOfTheAgenda == Init => Agenda!Init /\ ListsNest
<1> SUFFICES ASSUME Init PROVE Agenda!Init /\ ListsNest
  OBVIOUS
<1>1. /\ stack = << >> /\ DOMAIN stack = {} /\ request \in Requests
      /\ source \in Tables /\ held \in HeldSizes /\ answer = "none"
      /\ root = NoBuffer
  BY DEF Init
<1>2. AgendaLeft = << >> /\ RunningTable = source /\ ListsNest
  BY <1>1 DEF AgendaLeft, RunningTable, ListsNest
<1>3. OutcomeSoFar = Agenda!Applied
  BY <1>1 DEF OutcomeSoFar, Applied, Agenda!Applied
<1> QED BY <1>1, <1>2, <1>3 DEF Agenda!Init

LEMMA NextIsOfTheAgenda ==
  IInv /\ ListsNest /\ [Next]_vars =>
    [Agenda!Next]_(Agenda!vars) /\ ListsNest'
<1>1. ASSUME IInv, ListsNest, Next
      PROVE  (Agenda!Next \/ UNCHANGED Agenda!vars) /\ ListsNest'
  BY <1>1, RefusingIsOfTheAgenda, LoneEditIsOfTheAgenda,
     StartIsOfTheAgenda, NestedPutIsOfTheAgenda,
     NestedDeleteIsOfTheAgenda, EnterIsOfTheAgenda, CopyingIsOfTheAgenda,
     ReturningIsOfTheAgenda, FoldingIsOfTheAgenda DEF Next, Agenda!Next
<1>2. ASSUME UNCHANGED vars, ListsNest
      PROVE  UNCHANGED Agenda!vars /\ ListsNest'
  BY <1>2 DEF vars, Agenda!vars, AgendaLeft, RunningTable, Top, OutcomeSoFar,
     ListsNest
<1> QED BY <1>1, <1>2

\* applyOperationList's lists, running tables and buffers come to one running
\* table, edited by one operation after another in the order they are written,
\* and the caller's builder gains the last of it or nothing.
THEOREM OneTableOneOrder == Spec => ImplementsAgenda
<1>1. Init => IInv /\ ListsNest /\ Agenda!Init
  BY InitInvariant, InitIsOfTheAgenda
<1>2. IInv /\ ListsNest /\ [Next]_vars =>
        [Agenda!Next]_(Agenda!vars) /\ IInv' /\ ListsNest'
  BY NextKeepsInvariant, NextIsOfTheAgenda
<1> QED BY <1>1, <1>2, PTL DEF Spec, ImplementsAgenda, Agenda!Spec

-----------------------------------------------------------------------------
(* What PatchAgendaProofs proves of an agenda holds of this one.             *)

Steps == INSTANCE PatchAgendaProofs WITH
  agenda <- AgendaLeft, table <- RunningTable, outcome <- OutcomeSoFar

LEMMA StepsAssumptions == Steps!OperationAssumption /\ Steps!EditAssumption
BY OperationAssumption, EditAssumption
   DEF Steps!OperationAssumption, Steps!EditAssumption, Outcomes, Steps!Outcomes,
       Applied, Steps!Applied, NotStored, Steps!NotStored, Refused, Steps!Refused

LEMMA StepsAreTheAgendas ==
  /\ Agenda!Init => Steps!Init
  /\ [Agenda!Next]_(Agenda!vars) => [Steps!Next]_(Steps!vars)
<1>1. Agenda!Init => Steps!Init
  BY DEF Agenda!Init, Steps!Init, Agenda!Applied, Steps!Applied
<1>2. UNCHANGED Agenda!vars => UNCHANGED Steps!vars
  BY DEF Agenda!vars, Steps!vars
<1>3. Agenda!Next => Steps!Next
  BY DEF Agenda!Next, Steps!Next, Agenda!RefuseIllFormed, Steps!RefuseIllFormed,
     Agenda!LoneEdit, Steps!LoneEdit, Agenda!Start, Steps!Start,
     Agenda!Edit, Steps!Edit, Agenda!Enter, Steps!Enter,
     Agenda!Return, Steps!Return, Agenda!Finish, Steps!Finish,
     Agenda!Answer, Steps!Answer, Agenda!NotBegun, Steps!NotBegun,
     Agenda!Begun, Steps!Begun, Agenda!LoneItem, Steps!LoneItem,
     Agenda!Remaining, Steps!Remaining, Agenda!Item, Steps!Item,
     Agenda!ItemDone, Steps!ItemDone, Agenda!Items, Steps!Items,
     Agenda!CanAnswer, Steps!CanAnswer, Agenda!Made, Steps!Made,
     Agenda!Copying, Steps!Copying,
     Agenda!VectorGrowthBudget, Steps!VectorGrowthBudget,
     Agenda!Applied, Steps!Applied, Agenda!NotStored, Steps!NotStored,
     Agenda!Refused, Steps!Refused
<1> QED BY <1>1, <1>2, <1>3

LEMMA SamePromise ==
  /\ Steps!Abstract!Init => Agenda!Abstract!Init
  /\ [Steps!Abstract!Respond]_(Steps!Abstract!vars) =>
       [Agenda!Abstract!Respond]_(Agenda!Abstract!vars)
<1>1. /\ Steps!Abstract!Applied = Agenda!Abstract!Applied
      /\ Steps!Abstract!NotStored = Agenda!Abstract!NotStored
      /\ Steps!Abstract!Refused = Agenda!Abstract!Refused
      /\ UNCHANGED Steps!Abstract!vars => UNCHANGED Agenda!Abstract!vars
      /\ Steps!Abstract!Copying = Agenda!Abstract!Copying
  BY DEF Steps!Abstract!Applied, Agenda!Abstract!Applied, Steps!Abstract!NotStored,
     Agenda!Abstract!NotStored, Steps!Abstract!Refused, Agenda!Abstract!Refused,
     Steps!Abstract!vars, Agenda!Abstract!vars, Steps!Abstract!Copying,
     Agenda!Abstract!Copying
<1>2. \A s : Steps!Abstract!FlattenSeq(s) = Agenda!Abstract!FlattenSeq(s)
  BY Zenon DEF Steps!Abstract!FlattenSeq, Agenda!Abstract!FlattenSeq
<1>3. /\ Steps!Abstract!ItemSet = Agenda!Abstract!ItemSet
      /\ \A list, path :
           Steps!Abstract!Items(list, path) = Agenda!Abstract!Items(list, path)
  BY <1>1, Zenon DEF Steps!Abstract!Items, Agenda!Abstract!Items,
     Steps!Abstract!ItemSet, Agenda!Abstract!ItemSet
<1>4. Steps!Abstract!Flatten = Agenda!Abstract!Flatten
  BY <1>2, <1>3, Zenon DEF Steps!Abstract!Flatten, Agenda!Abstract!Flatten
<1>5. Steps!Abstract!Edits = Agenda!Abstract!Edits
  BY <1>4, Zenon DEF Steps!Abstract!Edits, Agenda!Abstract!Edits
<1>6. \A t, item, bytes :
        /\ Steps!Abstract!CanAnswer(t, item, bytes) =
             Agenda!Abstract!CanAnswer(t, item, bytes)
        /\ Steps!Abstract!Made(t, item) = Agenda!Abstract!Made(t, item)
  BY <1>1 DEF Steps!Abstract!CanAnswer, Agenda!Abstract!CanAnswer,
     Steps!Abstract!Made, Agenda!Abstract!Made,
     Steps!Abstract!VectorGrowthBudget, Agenda!Abstract!VectorGrowthBudget
<1>7. \A edits, t, bytes :
        Steps!Abstract!After(edits, t, bytes) = Agenda!Abstract!After(edits, t, bytes)
  BY DEF Steps!Abstract!After, Agenda!Abstract!After, Steps!Abstract!Edited,
     Agenda!Abstract!Edited, Steps!Abstract!CanAnswer, Agenda!Abstract!CanAnswer,
     Steps!Abstract!Made, Agenda!Abstract!Made,
     Steps!Abstract!VectorGrowthBudget, Agenda!Abstract!VectorGrowthBudget,
     Steps!Abstract!Applied, Agenda!Abstract!Applied, Steps!Abstract!NotStored,
     Agenda!Abstract!NotStored, Steps!Abstract!Refused, Agenda!Abstract!Refused
<1>8. \A edits, t, bytes :
        Steps!Abstract!CanBeRefused(edits, t, bytes) =
          Agenda!Abstract!CanBeRefused(edits, t, bytes)
  BY <1>1, <1>6, <1>7, Zenon
     DEF Steps!Abstract!CanBeRefused, Agenda!Abstract!CanBeRefused
<1>9. Steps!Abstract!Refuse => Agenda!Abstract!Refuse
  BY <1>1, <1>5, <1>8 DEF Steps!Abstract!Refuse, Agenda!Abstract!Refuse
<1>10. Steps!Abstract!Serve => Agenda!Abstract!Serve
  BY <1>1, <1>5, <1>7 DEF Steps!Abstract!Serve, Agenda!Abstract!Serve
<1>11. Steps!Abstract!Respond => Agenda!Abstract!Respond
  BY <1>9, <1>10 DEF Steps!Abstract!Respond, Agenda!Abstract!Respond
<1>12. Steps!Abstract!Init => Agenda!Abstract!Init
  BY DEF Steps!Abstract!Init, Agenda!Abstract!Init
<1> QED BY <1>1, <1>11, <1>12

\* applyOperationList answers what the request's puts and deletes come to one
\* after another at their whole paths: nested patches, the buffers their lists
\* build and the order outcomes come back in do not show, however deep the patches
\* nest.
THEOREM AnswersAtOnce == Spec => ImplementsPatchSpec
<1>1. Spec => Agenda!Spec
  BY OneTableOneOrder DEF ImplementsAgenda
<1>2. Agenda!Spec => Steps!Spec
  BY StepsAreTheAgendas, PTL DEF Agenda!Spec, Steps!Spec
<1>3. Steps!Spec => Steps!Abstract!Spec
  BY Steps!OneAfterAnotherIsAtOnce, StepsAssumptions, PTL
<1>4. Steps!Abstract!Spec => Agenda!Abstract!Spec
  BY SamePromise, PTL DEF Steps!Abstract!Spec, Agenda!Abstract!Spec
<1> QED BY <1>1, <1>2, <1>3, <1>4, PTL DEF ImplementsPatchSpec

-----------------------------------------------------------------------------
(* What a put is budgeted beside.                                            *)

\* What the front list counts is all that is alive: each list counts what its
\* caller counted and built.
LEMMA AllThatLivesIsCounted ==
  ASSUME IInv, Running
  PROVE  LiveBytes[Len(stack)] = BytesBeside
<1> DEFINE lists == 0..Len(stack)
           counted == [k \in lists |->
             IF k = 0 THEN held ELSE stack[k].bytesHeld + BufferSize(stack[k].result)]
           Sums(f) == f = [k \in lists |->
             IF k = 0 THEN held ELSE f[k - 1] + BufferSize(stack[k].result)]
           agree == {k \in lists : LiveBytes[k] = counted[k]}
<1>1. /\ Len(stack) \in Nat \ {0} /\ DOMAIN stack = 1..Len(stack)
      /\ Top = stack[Len(stack)]
  BY TopFrame
<1>2. ASSUME NEW k \in lists, k # 0 PROVE counted[k - 1] = stack[k].bytesHeld
  <2>1. k \in DOMAIN stack /\ k - 1 \in lists
    BY <1>1, <1>2
  <2>2. CASE k = 1
    BY <2>1, <2>2 DEF IInv, BytesHeldAddUp
  <2>3. CASE k # 1
    <3>1. k - 1 # 0
      BY <1>1, <2>3
    <3> QED BY <2>1, <2>3, <3>1 DEF IInv, BytesHeldAddUp
  <2> QED BY <2>2, <2>3
<1>3. Sums(counted)
  BY <1>2
<1>4. Sums(LiveBytes)
  <2>1. LiveBytes = CHOOSE f : Sums(f)
    BY DEF LiveBytes
  <2> HIDE DEF Sums, counted
  <2> QED BY <1>3, <2>1
<1>5. 0 \in agree
  BY <1>1, <1>3, <1>4
<1>6. ASSUME NEW k \in lists, k # 0, k - 1 \in agree PROVE k \in agree
  <2>1. LiveBytes[k] = LiveBytes[k - 1] + BufferSize(stack[k].result)
    BY <1>4, <1>6
  <2>2. counted[k] = counted[k - 1] + BufferSize(stack[k].result)
    BY <1>3, <1>6
  <2>3. LiveBytes[k - 1] = counted[k - 1]
    BY <1>6
  <2> HIDE DEF counted
  <2> QED BY <1>6, <2>1, <2>2, <2>3
<1>7. Len(stack) \in agree
  <2> HIDE DEF agree
  <2>1. \A k \in 0..Len(stack) : k \in agree
    BY <1>1, <1>5, <1>6, Steps!RangeInduction, StepsAssumptions
  <2> QED BY <1>1, <2>1
<1> QED BY <1>1, <1>7 DEF BytesBeside

\* Of all steps only NestedPut takes a put of a list.
LEMMA PutsAreNestedPuts ==
  ASSUME IInv, [Next]_vars, ~UNCHANGED vars, AtOperation("put")
  PROVE  NestedPut
<1>1. Running /\ ~Begin /\ Top.next <= Len(Top.updates)
  BY DEF AtOperation, Running, Begin
<1>2. Top.next \in Nat \ {0} /\ Len(Top.updates) \in Nat
  BY <1>1, TopFrame DEF Frames
<1>3. ~ListEnds /\ Top.updates # << >>
  BY <1>1, <1>2 DEF ListEnds
<1>4. ~AtOperation("delete") /\ ~AtOperation("patch")
  BY DEF AtOperation
<1> QED
  BY <1>1, <1>3, <1>4 DEF Next, RefuseIllFormed, LonePut, LoneDelete, EmptyPatch, StartPatch,
     NestedDelete, EnterPatch, CopyForEmptyList, ReturnToCaller, FoldResult

\* applyOperationList makes a put exactly where it fits beside the caller's builder
\* and every running table alive under it, at any depth and after any operations.
THEOREM BudgetIsTakenBesideAllBuffers == Spec => BudgetCountsLiveBuffers
<1> DEFINE outcome == ClassifyPut(Top.source, Target, Operation.payload,
                        VectorGrowthBudget(LiveBytes[Len(stack)]))
           PutAnswered == AtOperation("put") =>
                            (answer' # Refused <=> outcome = Applied)
<1>1. IInv /\ [Next]_vars => [PutAnswered]_vars
  <2> SUFFICES ASSUME IInv, [Next]_vars, ~UNCHANGED vars, AtOperation("put")
               PROVE  answer' # Refused <=> outcome = Applied
    OBVIOUS
  <2>1. NestedPut /\ Running
    BY PutsAreNestedPuts DEF AtOperation
  <2>2. outcome = ClassifyPut(Top.source, Target, Operation.payload,
                              VectorGrowthBudget(BytesBeside))
    BY <2>1, AllThatLivesIsCounted
  <2>3. answer = "none"
    BY <2>1 DEF Running
  <2> HIDE DEF outcome
  <2> QED BY <2>1, <2>2, <2>3 DEF NestedPut, Answer, Refused
<1> QED BY <1>1, InvariantHolds, PTL DEF Spec, BudgetCountsLiveBuffers
=============================================================================
