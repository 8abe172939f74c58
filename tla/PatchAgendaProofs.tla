--------------------------- MODULE PatchAgendaProofs ---------------------------
(***************************************************************************)
(* Proof that PatchAgenda implements PatchSpec, for every set of tables    *)
(* and operations and any nesting of patches: to carry out a request one   *)
(* operation after another comes to its flattened puts and deletes.        *)
(***************************************************************************)
EXTENDS PatchAgenda, SequenceTheorems, WellFoundedInduction, TLAPS

-----------------------------------------------------------------------------
(* Induction, over sets of numbers.                                          *)

\* A set of natural numbers that is not empty has a least element.
LEMMA LeastElement ==
  ASSUME NEW S, S \subseteq Nat, S # {}
  PROVE  \E least \in S : \A n \in S : least <= n
<1> DEFINE below == OpToRel(<, Nat)
<1>1. IsWellFoundedOn(below, Nat)
  BY NatLessThanWellFounded
<1>2. \A m, n \in Nat : m < n => <<m, n>> \in below
  BY DEF OpToRel
<1> HIDE DEF below
<1>3. PICK least \in S : \A n \in S : <<n, least>> \notin below
  BY <1>1, WFMin
<1>4. \A n \in S : ~(n < least)
  BY <1>2, <1>3
<1> QED BY <1>4

\* One that holds a number, and with each number of a range the next, holds the
\* range.
LEMMA RangeInduction ==
  ASSUME NEW S, NEW lo \in Nat, NEW hi \in Nat, lo \in S,
         \A n \in lo..hi : n # lo /\ n - 1 \in S => n \in S
  PROVE  \A n \in lo..hi : n \in S
<1> DEFINE missing == {n \in lo..hi : n \notin S}
<1> SUFFICES ASSUME missing # {} PROVE FALSE
  OBVIOUS
<1>1. missing \subseteq Nat
  OBVIOUS
<1>2. PICK least \in missing : \A n \in missing : least <= n
  BY <1>1, LeastElement
<1>3. /\ least \in lo..hi /\ least # lo /\ least - 1 \in lo..hi
      /\ ~(least <= least - 1)
  <2>1. least \in lo..hi /\ least # lo
    BY <1>2
  <2> QED BY <2>1
<1>4. least - 1 \in S
  BY <1>2, <1>3
<1> QED BY <1>2, <1>3, <1>4

GoesBy(g, step, first, lo, hi, S) ==
  /\ g \in [lo..hi -> S] /\ g[lo] = first
  /\ \A i \in lo..hi : i # lo => g[i] = step[i][g[i - 1]]

\* A function that goes step by step over a range is there.
LEMMA StepByStep ==
  ASSUME NEW S, NEW first \in S, NEW lo \in Nat, NEW hi \in Nat, lo <= hi,
         NEW step \in [lo..hi -> [S -> S]]
  PROVE  \E g : GoesBy(g, step, first, lo, hi, S)
<1> DEFINE Goes(g, n) ==
             /\ g[lo] = first
             /\ \A i \in lo..n : i # lo => g[i] = step[i][g[i - 1]]
           reached == {n \in lo..hi : \E g \in [lo..n -> S] : Goes(g, n)}
<1>1. lo \in reached
  <2> DEFINE g == [i \in lo..lo |-> first]
  <2>1. /\ g \in [lo..lo -> S] /\ g[lo] = first /\ lo \in lo..hi
        /\ \A i \in lo..lo : i = lo
    OBVIOUS
  <2> QED BY <2>1
<1>2. ASSUME NEW n \in lo..hi, n # lo, n - 1 \in reached
      PROVE  n \in reached
  <2>1. PICK g \in [lo..(n - 1) -> S] : Goes(g, n - 1)
    BY <1>2
  <2> DEFINE h == [i \in lo..n |-> IF i = n THEN step[n][g[n - 1]] ELSE g[i]]
  <2>2. /\ n - 1 \in lo..(n - 1) /\ lo \in lo..n /\ lo # n /\ n \in lo..n
        /\ \A i \in lo..n : i # n => i \in lo..(n - 1)
        /\ \A i \in lo..n : i # lo => i - 1 \in lo..n /\ i - 1 # n
    BY <1>2
  <2>3. step[n][g[n - 1]] \in S
    BY <2>1, <2>2
  <2>4. h \in [lo..n -> S]
    BY <2>1, <2>2, <2>3
  <2>5. h[lo] = first
    BY <2>1, <2>2
  <2>6. ASSUME NEW i \in lo..n, i # lo
        PROVE  h[i] = step[i][h[i - 1]]
    <3>1. h[i - 1] = g[i - 1]
      BY <2>2, <2>6
    <3>2. CASE i = n
      BY <2>2, <3>1, <3>2
    <3>3. CASE i # n
      BY <2>1, <2>2, <2>6, <3>1, <3>3
    <3> QED BY <3>2, <3>3
  <2> QED BY <2>4, <2>5, <2>6
<1>3. hi \in lo..hi
  OBVIOUS
<1> HIDE DEF reached
<1>4. hi \in reached
  BY <1>1, <1>2, <1>3, RangeInduction
<1> QED BY <1>4 DEF reached, GoesBy

-----------------------------------------------------------------------------
(* Sequences laid end to end.                                                *)

LEMMA SequenceIsAFunction ==
  ASSUME NEW S, NEW s \in Seq(S)
  PROVE  s = [i \in DOMAIN s |-> s[i]]
<1>1. s \in [1..Len(s) -> S]
  OBVIOUS
<1> QED BY <1>1

LEMMA FrontOfSequence ==
  ASSUME NEW S, NEW s \in Seq(S), s # << >>
  PROVE  /\ Len(SubSeq(s, 1, Len(s) - 1)) = Len(s) - 1
         /\ SubSeq(s, 1, Len(s) - 1) \in Seq(S)
         /\ \A i \in 1..(Len(s) - 1) : SubSeq(s, 1, Len(s) - 1)[i] = s[i]
<1>1. Len(s) \in Nat /\ Len(s) # 0
  BY EmptySeq
<1>2. /\ 1 \in 1..(Len(s) + 1) /\ Len(s) - 1 \in (1 - 1)..Len(s)
      /\ Len(s) - 1 - 1 + 1 = Len(s) - 1
  BY <1>1
<1> QED BY <1>1, <1>2, SubSeqProperties

\* FlattenSeq goes step by step.
LEMMA FlattenSeqSteps ==
  ASSUME NEW E, NEW s \in Seq(Seq(E)), s # << >>
  PROVE  \E g \in [1..Len(s) -> Seq(E)] :
           /\ g[1] = s[1]
           /\ \A i \in 1..Len(s) : i # 1 => g[i] = g[i - 1] \o s[i]
           /\ Abstract!FlattenSeq(s) = g[Len(s)]
<1> DEFINE n == Len(s)
           Laid(f) == f = [i \in 1..n |-> IF i = 1 THEN s[i] ELSE f[i - 1] \o s[i]]
           step == [i \in 1..n |-> [v \in Seq(E) |-> v \o s[i]]]
<1>1. /\ 1 \in Nat /\ n \in Nat /\ 1 <= n /\ n # 0 /\ n \in 1..n /\ 1 \in 1..n
      /\ \A i \in 1..n : i # 1 => i - 1 \in 1..n
  OBVIOUS
<1>2. \A i \in 1..n : s[i] \in Seq(E)
  OBVIOUS
<1> HIDE DEF n
<1>3. step \in [1..n -> [Seq(E) -> Seq(E)]]
  BY <1>2
<1>4. PICK g : GoesBy(g, step, s[1], 1, n, Seq(E))
  <2> HIDE DEF step
  <2>1. s[1] \in Seq(E)
    BY <1>1, <1>2
  <2> QED BY <1>1, <1>3, <2>1, StepByStep
<1>5. /\ g \in [1..n -> Seq(E)] /\ g[1] = s[1]
      /\ \A i \in 1..n : i # 1 => g[i] = g[i - 1] \o s[i]
  BY <1>1, <1>4 DEF GoesBy
<1>6. Laid(g)
  <2>1. g = [i \in 1..n |-> g[i]]
    BY <1>5
  <2>2. \A i \in 1..n : g[i] = IF i = 1 THEN s[i] ELSE g[i - 1] \o s[i]
    BY <1>5, Zenon
  <2> QED BY <2>1, <2>2, Zenon
<1> DEFINE f == CHOOSE f : Laid(f)
<1>7. Abstract!FlattenSeq(s) = f[n]
  BY <1>1 DEF Abstract!FlattenSeq, n
<1>8. Laid(f)
  BY <1>6
<1> HIDE DEF f
<1>9. \A i \in 1..n : f[i] = IF i = 1 THEN s[i] ELSE f[i - 1] \o s[i]
  BY <1>8, Zenon
<1>10. \A i \in 1..n : f[i] = g[i]
  <2> DEFINE same == {i \in 1..n : f[i] = g[i]}
  <2>1. 1 \in same
    BY <1>1, <1>5, <1>9
  <2>2. \A i \in 1..n : i # 1 /\ i - 1 \in same => i \in same
    BY <1>5, <1>9, Zenon
  <2> HIDE DEF Laid, step, same
  <2>3. \A i \in 1..n : i \in same
    BY <1>1, <2>1, <2>2, RangeInduction
  <2> QED BY <2>3 DEF same
<1> QED BY <1>1, <1>5, <1>7, <1>10 DEF n

\* What sequences laid end to end begin with, and go on as.
LEMMA FlattenSeqFrom ==
  ASSUME NEW E, NEW s \in Seq(Seq(E))
  PROVE  /\ Abstract!FlattenSeq(s) \in Seq(E)
         /\ s = << >> => Abstract!FlattenSeq(s) = << >>
         /\ s # << >> =>
              Abstract!FlattenSeq(s) = s[1] \o Abstract!FlattenSeq(Tail(s))
<1>1. CASE s = << >>
  <2>1. Abstract!FlattenSeq(s) = << >> /\ << >> \in Seq(E)
    BY <1>1 DEF Abstract!FlattenSeq
  <2> QED BY <1>1, <2>1, Zenon
<1>2. CASE s # << >>
  <2> DEFINE n == Len(s)
             t == Tail(s)
  <2>1. /\ n \in Nat /\ n >= 1 /\ \A i \in 1..n : s[i] \in Seq(E)
    BY <1>2
  <2>2. /\ t \in Seq(Seq(E)) /\ Len(t) = n - 1
        /\ \A i \in 1..(n - 1) : t[i] = s[i + 1]
    BY <1>2, HeadTailProperties
  <2>3. PICK g \in [1..n -> Seq(E)] :
          /\ g[1] = s[1] /\ \A i \in 1..n : i # 1 => g[i] = g[i - 1] \o s[i]
          /\ Abstract!FlattenSeq(s) = g[n]
    BY <1>2, FlattenSeqSteps
  <2> HIDE DEF n, t
  <2>4. /\ 1 \in 1..n /\ n \in 1..n
    BY <2>1
  <2>5. CASE n = 1
    <3>1. t = << >>
      BY <2>2, <2>5, EmptySeq
    <3>2. Abstract!FlattenSeq(t) = << >>
      BY <3>1 DEF Abstract!FlattenSeq
    <3>3. s[1] \o << >> = s[1]
      BY <2>1, <2>4, ConcatEmptySeq
    <3> QED BY <1>2, <2>3, <2>4, <2>5, <3>2, <3>3 DEF t
  <2>6. CASE n # 1
    <3>1. t # << >> /\ n - 1 \in Nat /\ n - 1 \in 1..(n - 1) /\ 1 \in 1..(n - 1)
          /\ (n - 1) + 1 = n /\ 1 + 1 = 2
      BY <2>1, <2>2, <2>6
    <3>2. PICK h \in [1..(n - 1) -> Seq(E)] :
            /\ h[1] = t[1] /\ \A i \in 1..(n - 1) : i # 1 => h[i] = h[i - 1] \o t[i]
            /\ Abstract!FlattenSeq(t) = h[n - 1]
      <4>1. \E h \in [1..Len(t) -> Seq(E)] :
              /\ h[1] = t[1]
              /\ \A i \in 1..Len(t) : i # 1 => h[i] = h[i - 1] \o t[i]
              /\ Abstract!FlattenSeq(t) = h[Len(t)]
        BY <2>2, <3>1, FlattenSeqSteps, Zenon
      <4> QED BY <2>2, <4>1
    <3> DEFINE later == [i \in 1..(n - 1) |-> g[i + 1]]
               joined == [i \in 1..(n - 1) |-> s[1] \o h[i]]
    <3>3. later[1] = joined[1]
      <4>1. 2 \in 1..n /\ 2 # 1 /\ 2 - 1 = 1
        BY <2>1, <2>6
      <4>2. g[2] = g[1] \o s[2]
        BY <2>3, <4>1
      <4>3. t[1] = s[2]
        BY <2>2, <3>1
      <4>4. later[1] = g[2] /\ joined[1] = s[1] \o h[1]
        BY <3>1
      <4> QED BY <2>3, <3>2, <4>2, <4>3, <4>4, Zenon
    <3>4. ASSUME NEW i \in 1..(n - 1), i # 1, later[i - 1] = joined[i - 1]
          PROVE  later[i] = joined[i]
      <4>1. /\ i - 1 \in 1..(n - 1) /\ i + 1 \in 1..n /\ i + 1 # 1
            /\ (i + 1) - 1 = i /\ (i - 1) + 1 = i
        BY <2>1, <3>4
      <4>2. later[i] = (s[1] \o h[i - 1]) \o s[i + 1]
        <5>1. later[i] = g[i] \o s[i + 1]
          BY <2>3, <4>1
        <5>2. later[i - 1] = g[i] /\ joined[i - 1] = s[1] \o h[i - 1]
          BY <4>1
        <5> QED BY <3>4, <5>1, <5>2
      <4>3. joined[i] = s[1] \o (h[i - 1] \o s[i + 1])
        BY <2>2, <3>2, <3>4, <4>1
      <4>4. s[1] \in Seq(E) /\ h[i - 1] \in Seq(E) /\ s[i + 1] \in Seq(E)
        BY <2>1, <2>4, <3>2, <4>1
      <4>5. \A a, b, c \in Seq(E) : (a \o b) \o c = a \o (b \o c)
        BY ConcatAssociative, SMTT(30)
      <4> QED BY <4>2, <4>3, <4>4, <4>5, Zenon
    <3>5. later[n - 1] = joined[n - 1]
      <4> DEFINE same == {i \in 1..(n - 1) : later[i] = joined[i]}
      <4> HIDE DEF later, joined
      <4>1. 1 \in same
        BY <3>1, <3>3
      <4>2. \A i \in 1..(n - 1) : i # 1 /\ i - 1 \in same => i \in same
        BY <3>4
      <4> HIDE DEF same
      <4>3. \A i \in 1..(n - 1) : i \in same
        BY <3>1, <4>1, <4>2, RangeInduction
      <4> QED BY <3>1, <4>3 DEF same
    <3>6. g[n] = s[1] \o h[n - 1]
      BY <3>1, <3>5
    <3> QED BY <1>2, <2>3, <2>4, <3>2, <3>6 DEF t
  <2> QED BY <2>5, <2>6
<1> QED BY <1>1, <1>2

-----------------------------------------------------------------------------
(* What an item flattens to: the recursion over nested patches comes to an   *)
(* end, and its equation holds of every item.                                *)

\* The items that are no patch.
EditSet == {item \in ItemSet : item.op.type # "patch"}

Inner(item) == Items(item.op.updates, item.path)

\* How many patches deep an item nests, itself included.
Level(item) == IF item.op.type = "patch" THEN Nesting(item.op) + 1 ELSE 0
Upto(n) == {item \in ItemSet : Level(item) <= n}

\* What an item flattens to, where f has what the items of its patch do.
Body(f, item) ==
  IF item.op.type # "patch"
    THEN <<item>>
    ELSE Abstract!FlattenSeq([i \in DOMAIN Inner(item) |-> f[Inner(item)[i]]])

\* The agenda and the promise are made of the same items, edited alike.
LEMMA SameItems ==
  /\ Abstract!ItemSet = ItemSet
  /\ \A updates, prefix : Abstract!Items(updates, prefix) = Items(updates, prefix)
  /\ \A t, item, bytes :
       /\ Abstract!CanAnswer(t, item, bytes) = CanAnswer(t, item, bytes)
       /\ Abstract!Made(t, item) = Made(t, item)
  /\ Abstract!Applied = Applied /\ Abstract!NotStored = NotStored
  /\ Abstract!Refused = Refused
BY DEF Abstract!ItemSet, ItemSet, Abstract!Copying, Copying, Abstract!Items, Items,
   Abstract!CanAnswer, CanAnswer, Abstract!Made, Made, Abstract!Applied, Applied,
   Abstract!NotStored, NotStored, Abstract!Refused, Refused,
   Abstract!VectorGrowthBudget, VectorGrowthBudget

LEMMA LevelType ==
  \A item \in ItemSet : Level(item) \in Nat
BY OperationAssumption DEF ItemSet, Copying, Level

\* A patch holds items, each of which nests less deep than it does.
LEMMA InnerItems ==
  ASSUME NEW item \in ItemSet, item.op.type = "patch"
  PROVE  /\ Inner(item) \in Seq(ItemSet) /\ Inner(item) # << >>
         /\ \A i \in DOMAIN Inner(item) : Level(Inner(item)[i]) < Level(item)
<1>1. /\ item.op \in Operations /\ item.path \in Path
      /\ item.op.updates \in Seq(Operations) /\ Nesting(item.op) \in Nat
      /\ \A i \in DOMAIN item.op.updates :
           Nesting(item.op.updates[i]) < Nesting(item.op)
  BY OperationAssumption DEF ItemSet, Copying
<1> DEFINE updates == item.op.updates
           copy == [op |-> Copying, path |-> item.path]
           inside == [i \in DOMAIN updates |->
             [op |-> updates[i], path |-> ConcatPath(item.path, updates[i].offsets)]]
<1>2. CASE updates = << >>
  <2>1. copy \in ItemSet /\ Level(copy) = 0
    BY <1>1 DEF ItemSet, Copying, Level
  <2>2. Inner(item) = <<copy>>
    BY <1>2 DEF Inner, Items
  <2>3. Level(item) > 0
    BY <1>1 DEF Level
  <2> HIDE DEF copy
  <2> QED BY <2>1, <2>2, <2>3
<1>3. CASE updates # << >>
  <2>1. Inner(item) = inside
    BY <1>3 DEF Inner, Items
  <2>2. /\ Len(updates) \in Nat /\ DOMAIN updates = 1..Len(updates)
        /\ Len(updates) # 0
    BY <1>1, <1>3, EmptySeq
  <2>3. \A i \in DOMAIN updates :
          /\ inside[i] \in ItemSet
          /\ inside[i].op = updates[i]
          /\ Nesting(updates[i]) \in Nat
    BY <1>1, OperationAssumption DEF ItemSet
  <2>4. \A i \in DOMAIN updates : Level(inside[i]) < Level(item)
    <3> HIDE DEF inside, updates
    <3>1. Level(item) = Nesting(item.op) + 1
      BY DEF Level
    <3>2. \A i \in DOMAIN updates : Level(inside[i]) \in {0, Nesting(updates[i]) + 1}
      BY <2>3, Zenon DEF Level
    <3>3. \A i \in DOMAIN updates : Nesting(updates[i]) < Nesting(item.op)
      BY <1>1 DEF updates
    <3> QED BY <1>1, <2>3, <3>1, <3>2, <3>3
  <2>5. inside \in Seq(ItemSet) /\ Len(inside) = Len(updates)
        /\ DOMAIN inside = DOMAIN updates
    <3> HIDE DEF updates
    <3> QED BY <2>2, <2>3, IsASeq, LenProperties
  <2>6. inside # << >>
    BY <2>2, <2>5
  <2> QED BY <2>1, <2>4, <2>5, <2>6
<1> QED BY <1>2, <1>3

\* What an item flattens to depends on its items alone, and is typed as they are.
LEMMA BodyOfInner ==
  ASSUME NEW item \in ItemSet, NEW f, NEW g,
         item.op.type = "patch" =>
           \A i \in DOMAIN Inner(item) : f[Inner(item)[i]] = g[Inner(item)[i]]
  PROVE  Body(f, item) = Body(g, item)
<1>1. CASE item.op.type # "patch"
  BY <1>1 DEF Body
<1>2. CASE item.op.type = "patch"
  <2>1. [i \in DOMAIN Inner(item) |-> f[Inner(item)[i]]] =
          [i \in DOMAIN Inner(item) |-> g[Inner(item)[i]]]
    BY <1>2
  <2> QED BY <1>2, <2>1 DEF Body
<1> QED BY <1>1, <1>2

LEMMA BodyType ==
  ASSUME NEW item \in ItemSet, NEW f,
         item.op.type = "patch" =>
           \A i \in DOMAIN Inner(item) : f[Inner(item)[i]] \in Seq(EditSet)
  PROVE  Body(f, item) \in Seq(EditSet)
<1>1. CASE item.op.type # "patch"
  <2>1. item \in EditSet
    BY <1>1 DEF EditSet
  <2> QED BY <1>1, <2>1 DEF Body
<1>2. CASE item.op.type = "patch"
  <2> DEFINE inner == Inner(item)
             parts == [i \in DOMAIN inner |-> f[inner[i]]]
  <2>1. inner \in Seq(ItemSet) /\ \A i \in DOMAIN inner : f[inner[i]] \in Seq(EditSet)
    BY <1>2, InnerItems
  <2>2. Len(inner) \in Nat /\ DOMAIN inner = 1..Len(inner)
    BY <2>1
  <2> HIDE DEF inner
  <2>3. parts \in Seq(Seq(EditSet))
    BY <2>1, <2>2, IsASeq
  <2> HIDE DEF parts
  <2>4. Abstract!FlattenSeq(parts) \in Seq(EditSet)
    BY <2>3, FlattenSeqFrom
  <2> QED BY <1>2, <2>4 DEF Body, parts, inner
<1> QED BY <1>1, <1>2

\* A function that flattens the items that nest at most n patches deep.
Solves(f, n) ==
  /\ f \in [Upto(n) -> Seq(EditSet)]
  /\ \A item \in Upto(n) : f[item] = Body(f, item)

\* An item of a patch nests at most as deep as one less than the patch.
LEMMA InnerUpto ==
  ASSUME NEW n \in Nat, NEW item \in Upto(n), item.op.type = "patch",
         NEW i \in DOMAIN Inner(item)
  PROVE  /\ n # 0 /\ Inner(item)[i] \in Upto(n - 1) /\ Inner(item)[i] \in Upto(n)
         /\ Inner(item)[i] \in ItemSet
         /\ Inner(item)[i] \in Upto(Level(item))
         /\ Level(Inner(item)[i]) < Level(item)
<1>1. item \in ItemSet /\ Level(item) <= n
  BY DEF Upto
<1>2. Inner(item)[i] \in ItemSet /\ Level(Inner(item)[i]) < Level(item)
  BY <1>1, InnerItems
<1>3. Level(item) \in Nat /\ Level(Inner(item)[i]) \in Nat
  BY <1>1, <1>2, LevelType
<1>4. n # 0 /\ Level(Inner(item)[i]) <= n - 1 /\ Level(Inner(item)[i]) <= n
      /\ Level(Inner(item)[i]) <= Level(item)
  BY <1>1, <1>2, <1>3
<1> QED BY <1>2, <1>4 DEF Upto

\* There is no second way to flatten an item.
LEMMA SolutionsAgree ==
  ASSUME NEW m \in Nat, NEW n \in Nat, m <= n, NEW f, NEW g,
         Solves(f, m), Solves(g, n)
  PROVE  \A item \in Upto(m) : f[item] = g[item]
<1> DEFINE apart == {item \in Upto(m) : f[item] # g[item]}
           levels == {Level(item) : item \in apart}
<1> SUFFICES ASSUME apart # {} PROVE FALSE
  OBVIOUS
<1>1. apart \subseteq ItemSet /\ levels \subseteq Nat /\ levels # {}
  BY LevelType DEF Upto
<1>2. PICK least \in levels : \A k \in levels : least <= k
  BY <1>1, LeastElement
<1>3. PICK item \in apart : Level(item) = least
  OBVIOUS
<1>4. item \in Upto(m) /\ item \in Upto(n) /\ item \in ItemSet
      /\ Level(item) \in Nat
  <2>1. item \in Upto(m)
    OBVIOUS
  <2>2. item \in ItemSet /\ Level(item) <= m
    BY <2>1 DEF Upto
  <2>3. Level(item) \in Nat
    BY <2>2, LevelType
  <2>4. Level(item) <= n
    BY <2>2, <2>3
  <2> QED BY <2>1, <2>2, <2>3, <2>4 DEF Upto
<1>5. ASSUME item.op.type = "patch", NEW i \in DOMAIN Inner(item)
      PROVE  f[Inner(item)[i]] = g[Inner(item)[i]]
  <2>1. Inner(item)[i] \in Upto(m) /\ Level(Inner(item)[i]) < Level(item)
        /\ Level(Inner(item)[i]) \in Nat
    BY <1>4, <1>5, InnerUpto, LevelType
  <2>2. CASE Inner(item)[i] \in apart
    BY <1>2, <1>3, <1>4, <2>1, <2>2
  <2> QED BY <2>1, <2>2
<1>6. Body(f, item) = Body(g, item)
  <2> HIDE DEF apart
  <2> QED BY <1>4, <1>5, BodyOfInner
<1>7. f[item] = Body(f, item) /\ g[item] = Body(g, item)
  BY <1>4 DEF Solves
<1> QED BY <1>6, <1>7

\* However deep the patches nest, they can be flattened.
LEMMA SolutionExists ==
  ASSUME NEW n \in Nat
  PROVE  \E f : Solves(f, n)
<1> DEFINE solved == {k \in Nat : \E f : Solves(f, k)}
<1>1. 0 \in solved
  <2> DEFINE f == [item \in Upto(0) |-> <<item>>]
  <2>1. \A item \in Upto(0) : item.op.type # "patch" /\ item \in EditSet
    <3> SUFFICES ASSUME NEW item \in Upto(0)
                 PROVE  item.op.type # "patch" /\ item \in EditSet
      OBVIOUS
    <3>1. item \in ItemSet /\ Level(item) <= 0
      BY DEF Upto
    <3>2. CASE item.op.type = "patch"
      <4>1. Inner(item) \in Seq(ItemSet) /\ Inner(item) # << >>
        BY <3>1, <3>2, InnerItems
      <4>2. 1 \in DOMAIN Inner(item)
        BY <4>1
      <4> QED BY <3>2, <4>2, InnerUpto
    <3> QED BY <3>1, <3>2 DEF EditSet
  <2>2. f \in [Upto(0) -> Seq(EditSet)]
    BY <2>1
  <2>3. \A item \in Upto(0) : f[item] = Body(f, item)
    BY <2>1 DEF Body
  <2> QED BY <2>2, <2>3 DEF Solves
<1>2. ASSUME NEW k \in 0..n, k # 0, k - 1 \in solved
      PROVE  k \in solved
  <2>1. PICK f : Solves(f, k - 1)
    BY <1>2
  <2> DEFINE g == [item \in Upto(k) |-> Body(f, item)]
  <2>2. k \in Nat /\ k - 1 \in Nat
    BY <1>2
  <2>3. ASSUME NEW item \in Upto(k), item.op.type = "patch",
               NEW i \in DOMAIN Inner(item)
        PROVE  /\ f[Inner(item)[i]] \in Seq(EditSet)
               /\ f[Inner(item)[i]] = g[Inner(item)[i]]
    <3>1. Inner(item)[i] \in Upto(k - 1) /\ Inner(item)[i] \in Upto(k)
      BY <2>2, <2>3, InnerUpto
    <3>2. g[Inner(item)[i]] = Body(f, Inner(item)[i])
      BY <3>1
    <3> HIDE DEF g
    <3> QED BY <2>1, <3>1, <3>2 DEF Solves
  <2>4. ASSUME NEW item \in Upto(k)
        PROVE  Body(f, item) \in Seq(EditSet) /\ Body(f, item) = Body(g, item)
    <3>1. item \in ItemSet
      BY DEF Upto
    <3> HIDE DEF g
    <3> QED BY <2>3, <3>1, BodyOfInner, BodyType
  <2>5. g \in [Upto(k) -> Seq(EditSet)]
    BY <2>4
  <2>6. \A item \in Upto(k) : g[item] = Body(g, item)
    BY <2>4
  <2> HIDE DEF g
  <2> QED BY <2>2, <2>5, <2>6 DEF Solves
<1> HIDE DEF solved
<1>3. n \in solved
  <2>1. 0 \in Nat /\ n \in 0..n
    OBVIOUS
  <2> QED BY <1>1, <1>2, <2>1, RangeInduction
<1> QED BY <1>3 DEF solved

\* PatchSpec's Flatten flattens every item.
LEMMA FlattenSolves ==
  ASSUME NEW item \in ItemSet
  PROVE  /\ Abstract!Flatten[item] \in Seq(EditSet)
         /\ Abstract!Flatten[item] = Body(Abstract!Flatten, item)
<1> DEFINE way(n) == CHOOSE f : Solves(f, n)
           F == [x \in ItemSet |-> way(Level(x))[x]]
           Whole(f) == f = [x \in ItemSet |-> Body(f, x)]
           flatten == CHOOSE f : Whole(f)
<1>1. \A n \in Nat : Solves(way(n), n)
  BY SolutionExists
<1> HIDE DEF way
<1>2. ASSUME NEW x \in ItemSet
      PROVE  F[x] = Body(F, x)
  <2>1. Level(x) \in Nat /\ x \in Upto(Level(x))
    BY LevelType DEF Upto
  <2>2. ASSUME x.op.type = "patch", NEW i \in DOMAIN Inner(x)
        PROVE  way(Level(x))[Inner(x)[i]] = F[Inner(x)[i]]
    <3> DEFINE y == Inner(x)[i]
    <3>1. y \in ItemSet /\ Level(y) < Level(x)
      BY <2>1, <2>2, InnerUpto
    <3>2. Level(y) \in Nat /\ y \in Upto(Level(y)) /\ Level(y) <= Level(x)
      BY <2>1, <3>1, LevelType DEF Upto
    <3>3. way(Level(y))[y] = way(Level(x))[y]
      <4> HIDE DEF y
      <4>1. Solves(way(Level(y)), Level(y)) /\ Solves(way(Level(x)), Level(x))
        BY <1>1, <2>1, <3>2
      <4> QED BY <2>1, <3>2, <4>1, SolutionsAgree
    <3> QED BY <3>1, <3>3
  <2>3. Body(way(Level(x)), x) = Body(F, x)
    <3> HIDE DEF F
    <3> QED BY <2>2, BodyOfInner
  <2>4. way(Level(x))[x] = Body(way(Level(x)), x)
    BY <1>1, <2>1 DEF Solves
  <2> QED BY <2>3, <2>4
<1>3. Whole(F)
  <2>1. F = [x \in ItemSet |-> F[x]]
    OBVIOUS
  <2> HIDE DEF F
  <2> QED BY <1>2, <2>1
<1>4. Whole(flatten)
  BY <1>3
<1> HIDE DEF flatten
<1>5. Abstract!Flatten = flatten
  BY SameItems, Zenon DEF Abstract!Flatten, flatten, Body, Inner
<1>6. \A x \in ItemSet : flatten[x] = Body(flatten, x)
  BY <1>4
<1> HIDE DEF Whole
<1> DEFINE untyped == {x \in ItemSet : flatten[x] \notin Seq(EditSet)}
           levels == {Level(x) : x \in untyped}
<1>7. untyped = {}
  <2> SUFFICES ASSUME untyped # {} PROVE FALSE
    OBVIOUS
  <2>1. levels \subseteq Nat /\ levels # {}
    BY LevelType
  <2>2. PICK least \in levels : \A k \in levels : least <= k
    BY <2>1, LeastElement
  <2>3. PICK x \in untyped : Level(x) = least
    OBVIOUS
  <2>4. x \in ItemSet /\ Level(x) \in Nat /\ x \in Upto(Level(x))
    BY <2>1, <2>3, LevelType DEF Upto
  <2>5. ASSUME x.op.type = "patch", NEW i \in DOMAIN Inner(x)
        PROVE  flatten[Inner(x)[i]] \in Seq(EditSet)
    <3>1. Inner(x)[i] \in ItemSet /\ Level(Inner(x)[i]) < Level(x)
          /\ Level(Inner(x)[i]) \in Nat
      BY <2>4, <2>5, InnerUpto, LevelType
    <3>2. \A y \in untyped : Level(x) <= Level(y)
      BY <2>2, <2>3
    <3>3. Inner(x)[i] \notin untyped
      <4> HIDE DEF untyped
      <4> QED BY <2>4, <3>1, <3>2
    <3> QED BY <3>1, <3>3
  <2>6. Body(flatten, x) \in Seq(EditSet)
    <3> HIDE DEF untyped
    <3> QED BY <2>4, <2>5, BodyType
  <2> QED BY <1>6, <2>6
<1> QED BY <1>5, <1>6, <1>7

-----------------------------------------------------------------------------
(* What an agenda still has to do, flattened.                                *)

\* What a list of items flattens to.
ListEdits(list) ==
  Abstract!FlattenSeq([i \in DOMAIN list |-> Abstract!Flatten[list[i]]])

\* What an agenda does: its innermost list first.
Rest(lists) ==
  Abstract!FlattenSeq(
    [i \in 1..Len(lists) |-> ListEdits(lists[Len(lists) + 1 - i])])

LEMMA FlattenItem ==
  ASSUME NEW item \in ItemSet
  PROVE  /\ Abstract!Flatten[item] \in Seq(EditSet)
         /\ Abstract!Flatten[item] =
              IF item.op.type = "patch" THEN ListEdits(Inner(item)) ELSE <<item>>
BY FlattenSolves, Zenon DEF Body, ListEdits

LEMMA ListEditsFrom ==
  ASSUME NEW list \in Seq(ItemSet)
  PROVE  /\ ListEdits(list) \in Seq(EditSet)
         /\ list = << >> => ListEdits(list) = << >>
         /\ list # << >> =>
              ListEdits(list) = Abstract!Flatten[list[1]] \o ListEdits(Tail(list))
<1> DEFINE parts == [i \in DOMAIN list |-> Abstract!Flatten[list[i]]]
           tail == Tail(list)
           rest == [i \in DOMAIN tail |-> Abstract!Flatten[tail[i]]]
<1>1. /\ Len(list) \in Nat /\ DOMAIN list = 1..Len(list)
      /\ \A i \in 1..Len(list) : list[i] \in ItemSet
  OBVIOUS
<1>2. \A i \in 1..Len(list) : Abstract!Flatten[list[i]] \in Seq(EditSet)
  BY <1>1, FlattenSolves
<1>3. parts \in Seq(Seq(EditSet)) /\ Len(parts) = Len(list)
  <2>1. parts \in Seq(Seq(EditSet))
    BY <1>1, <1>2, IsASeq
  <2>2. DOMAIN parts = 1..Len(list)
    BY <1>1
  <2> HIDE DEF parts
  <2> QED BY <1>1, <2>1, <2>2
<1>4. /\ list = << >> => parts = << >>
      /\ list # << >> => parts # << >> /\ Tail(parts) = rest /\
                         parts[1] = Abstract!Flatten[list[1]]
  <2>1. CASE list = << >>
    <3> HIDE DEF parts
    <3> QED BY <1>1, <1>3, <2>1, EmptySeq
  <2>2. CASE list # << >>
    <3>1. /\ tail \in Seq(ItemSet) /\ Len(tail) = Len(list) - 1
          /\ \A i \in 1..Len(tail) : tail[i] = list[i + 1]
          /\ Len(list) # 0 /\ DOMAIN tail = 1..Len(tail)
      BY <1>1, <2>2, HeadTailProperties, EmptySeq
    <3>2. parts[1] = Abstract!Flatten[list[1]] /\ parts # << >>
      <4>1. 1 \in DOMAIN list
        BY <1>1, <3>1
      <4>2. parts[1] = Abstract!Flatten[list[1]]
        BY <4>1
      <4> HIDE DEF parts
      <4> QED BY <1>1, <1>3, <3>1, <4>2
    <3>3. /\ Tail(parts) \in Seq(Seq(EditSet))
          /\ Len(Tail(parts)) = Len(parts) - 1
          /\ \A i \in 1..Len(Tail(parts)) : Tail(parts)[i] = parts[i + 1]
      <4> HIDE DEF parts
      <4> QED BY <1>3, <3>2, HeadTailProperties
    <3>4. /\ DOMAIN Tail(parts) = DOMAIN tail
          /\ \A i \in DOMAIN tail : i + 1 \in DOMAIN list /\ Tail(parts)[i] = parts[i + 1]
      <4> HIDE DEF parts, tail
      <4> QED BY <1>1, <1>3, <3>1, <3>3
    <3>5. \A i \in DOMAIN tail : Tail(parts)[i] = rest[i]
      <4>1. \A i \in DOMAIN tail : parts[i + 1] = Abstract!Flatten[tail[i]]
        BY <3>1, <3>4
      <4> QED BY <3>4, <4>1
    <3>6. Tail(parts) = rest
      <4>1. Tail(parts) = [i \in DOMAIN tail |-> Tail(parts)[i]]
        <5> HIDE DEF parts, tail
        <5>1. Tail(parts) = [i \in DOMAIN Tail(parts) |-> Tail(parts)[i]]
          BY <3>3, SequenceIsAFunction
        <5> QED BY <3>4, <5>1
      <4>2. rest = [i \in DOMAIN tail |-> rest[i]]
        OBVIOUS
      <4> HIDE DEF parts, tail, rest
      <4> QED BY <3>5, <4>1, <4>2
    <3> QED BY <2>2, <3>2, <3>6
  <2> QED BY <2>1, <2>2
<1>5. ListEdits(list) = Abstract!FlattenSeq(parts)
      /\ ListEdits(Tail(list)) = Abstract!FlattenSeq(rest)
  BY DEF ListEdits
<1> HIDE DEF parts, rest
<1> QED BY <1>3, <1>4, <1>5, FlattenSeqFrom

\* The innermost list comes first, then what is left of the agenda without it.
LEMMA RestFrom ==
  ASSUME NEW lists \in Seq(Seq(ItemSet))
  PROVE  /\ Rest(lists) \in Seq(EditSet)
         /\ lists = << >> => Rest(lists) = << >>
         /\ lists # << >> =>
              Rest(lists) = ListEdits(lists[Len(lists)]) \o
                              Rest(SubSeq(lists, 1, Len(lists) - 1))
<1> DEFINE n == Len(lists)
           parts == [i \in 1..n |-> ListEdits(lists[n + 1 - i])]
           front == SubSeq(lists, 1, n - 1)
           rest == [i \in 1..(n - 1) |-> ListEdits(front[n - i])]
<1>1. n \in Nat /\ \A i \in 1..n : lists[i] \in Seq(ItemSet)
  OBVIOUS
<1>2. \A i \in 1..n : ListEdits(lists[n + 1 - i]) \in Seq(EditSet)
  <2> SUFFICES ASSUME NEW i \in 1..n
               PROVE  ListEdits(lists[n + 1 - i]) \in Seq(EditSet)
    OBVIOUS
  <2>1. n + 1 - i \in 1..n
    BY <1>1
  <2>2. lists[n + 1 - i] \in Seq(ItemSet)
    BY <1>1, <2>1
  <2> QED BY <2>2, ListEditsFrom
<1>3. /\ parts \in Seq(Seq(EditSet)) /\ Len(parts) = n /\ DOMAIN parts = 1..n
  <2> HIDE DEF n
  <2>1. parts \in Seq(Seq(EditSet))
    BY <1>1, <1>2, IsASeq
  <2>2. DOMAIN parts = 1..n
    OBVIOUS
  <2> HIDE DEF parts
  <2> QED BY <1>1, <2>1, <2>2
<1>4. lists = << >> => parts = << >>
  <2> HIDE DEF parts
  <2> QED BY <1>3, EmptySeq
<1>5. ASSUME lists # << >>
      PROVE  /\ parts # << >> /\ parts[1] = ListEdits(lists[n])
             /\ Tail(parts) = rest /\ Rest(front) = Abstract!FlattenSeq(rest)
  <2>1. n # 0 /\ n - 1 \in Nat
    BY <1>1, <1>5, EmptySeq
  <2>2. parts # << >>
    <3> HIDE DEF parts, n
    <3> QED BY <1>3, <2>1
  <2>3. parts[1] = ListEdits(lists[n])
    <3> HIDE DEF n
    <3>1. 1 \in 1..n /\ n + 1 - 1 = n
      BY <1>1, <2>1
    <3> QED BY <3>1
  <2>4. /\ Len(front) = n - 1
        /\ \A i \in 1..(n - 1) : front[i] = lists[i]
    BY <1>5, FrontOfSequence
  <2>5. /\ DOMAIN Tail(parts) = 1..(n - 1) /\ Tail(parts) \in Seq(Seq(EditSet))
        /\ \A i \in 1..(n - 1) : Tail(parts)[i] = parts[i + 1]
    <3>1. /\ Tail(parts) \in Seq(Seq(EditSet))
          /\ Len(Tail(parts)) = Len(parts) - 1
          /\ \A i \in 1..Len(Tail(parts)) : Tail(parts)[i] = parts[i + 1]
      <4> HIDE DEF parts
      <4> QED BY <1>3, <2>2, HeadTailProperties
    <3> HIDE DEF parts, n
    <3> QED BY <1>1, <1>3, <2>1, <3>1
  <2>6. \A i \in 1..(n - 1) : parts[i + 1] = rest[i]
    <3> SUFFICES ASSUME NEW i \in 1..(n - 1) PROVE parts[i + 1] = rest[i]
      OBVIOUS
    <3> HIDE DEF n, front
    <3>1. /\ i + 1 \in 1..n /\ n + 1 - (i + 1) = n - i /\ n - i \in 1..(n - 1)
      BY <1>1, <2>1
    <3>2. parts[i + 1] = ListEdits(lists[n - i])
      BY <3>1
    <3>3. rest[i] = ListEdits(front[n - i])
      OBVIOUS
    <3>4. front[n - i] = lists[n - i]
      BY <2>4, <3>1
    <3> QED BY <3>2, <3>3, <3>4, Zenon
  <2>7. Tail(parts) = rest
    <3>1. rest = [i \in 1..(n - 1) |-> rest[i]]
      OBVIOUS
    <3>2. Tail(parts) = [i \in 1..(n - 1) |-> Tail(parts)[i]]
      <4> HIDE DEF parts, n
      <4>1. Tail(parts) = [i \in DOMAIN Tail(parts) |-> Tail(parts)[i]]
        BY <2>5, SequenceIsAFunction
      <4> QED BY <2>5, <4>1
    <3> HIDE DEF parts, rest, n
    <3> QED BY <2>5, <2>6, <3>1, <3>2
  <2>8. Rest(front) = Abstract!FlattenSeq(rest)
    <3>1. [i \in 1..Len(front) |-> ListEdits(front[Len(front) + 1 - i])] = rest
      <4> HIDE DEF n, front
      <4>1. \A i \in 1..(n - 1) : Len(front) + 1 - i = n - i
        BY <1>1, <2>1, <2>4
      <4> QED BY <2>4, <4>1
    <3> QED BY <3>1 DEF Rest
  <2> QED BY <2>2, <2>3, <2>7, <2>8
<1>6. Rest(lists) = Abstract!FlattenSeq(parts)
  BY DEF Rest
<1> HIDE DEF parts, rest, front
<1>7. /\ Rest(lists) \in Seq(EditSet)
      /\ parts = << >> => Rest(lists) = << >>
      /\ parts # << >> => Rest(lists) = parts[1] \o Abstract!FlattenSeq(Tail(parts))
  BY <1>3, <1>6, FlattenSeqFrom
<1> QED BY <1>4, <1>5, <1>7 DEF front

-----------------------------------------------------------------------------
(* Where the edits done so far can have left the table.                      *)

States == [table : Tables, missed : BOOLEAN]

\* An edit is answered an outcome, and makes a table where it is Applied.
LEMMA EditedType ==
  ASSUME NEW state \in States, NEW edit \in EditSet, NEW bytes \in HeldSizes
  PROVE  /\ CanAnswer(state.table, edit, bytes) \subseteq Outcomes
         /\ Applied \in CanAnswer(state.table, edit, bytes) =>
              Made(state.table, edit) \in Tables
         /\ edit.op.type = "copy" => Made(state.table, edit) = state.table
         /\ Abstract!Edited(state, edit, bytes) \subseteq States
<1>1. /\ state.table \in Tables /\ state.missed \in BOOLEAN
      /\ edit.op \in Operations \cup {Copying} /\ edit.op.type # "patch"
      /\ edit.path \in Path /\ VectorGrowthBudget(bytes) \in 0..Largest
  BY EditAssumption DEF States, EditSet, ItemSet, VectorGrowthBudget
<1> DEFINE Goal ==
             /\ CanAnswer(state.table, edit, bytes) \subseteq Outcomes
             /\ Applied \in CanAnswer(state.table, edit, bytes) =>
                  Made(state.table, edit) \in Tables
             /\ edit.op.type = "copy" => Made(state.table, edit) = state.table
<1>2. ASSUME edit.op.type = "put" PROVE Goal
  <2>1. edit.op \in Operations
    BY <1>1, <1>2 DEF Copying
  <2>2. \A budget \in 0..VectorGrowthBudget(bytes) : budget \in 0..Largest
    BY <1>1, EditAssumption
  <2> DEFINE answered(b) == ClassifyPut(state.table, edit.path, edit.op.payload, b)
  <2>3. \A b \in 0..VectorGrowthBudget(bytes) :
          /\ answered(b) \in {Applied, Refused}
          /\ answered(b) = Applied =>
               Put(state.table, edit.path, edit.op.payload) \in Tables
    BY <1>1, <1>2, <2>1, <2>2, EditAssumption
  <2>4. /\ CanAnswer(state.table, edit, bytes) =
             {answered(b) : b \in 0..VectorGrowthBudget(bytes)}
        /\ Made(state.table, edit) = Put(state.table, edit.path, edit.op.payload)
    BY <1>2 DEF CanAnswer, Made
  <2> HIDE DEF answered
  <2> QED BY <1>2, <2>3, <2>4 DEF Outcomes
<1>3. ASSUME edit.op.type = "delete" PROVE Goal
  <2>1. /\ CanAnswer(state.table, edit, bytes) =
             {ClassifyDelete(state.table, edit.path)}
        /\ Made(state.table, edit) = Delete(state.table, edit.path)
    BY <1>3 DEF CanAnswer, Made
  <2> QED BY <1>1, <1>3, <2>1, EditAssumption
<1>4. ASSUME edit.op.type = "copy" PROVE Goal
  <2>1. /\ CanAnswer(state.table, edit, bytes) =
             {IF Faithful(state.table) THEN Applied ELSE Refused}
        /\ Made(state.table, edit) = state.table
    BY <1>4 DEF CanAnswer, Made
  <2> QED BY <1>1, <2>1 DEF Outcomes
<1>5. edit.op.type \in {"put", "delete", "copy"}
  BY <1>1, OperationAssumption DEF Copying
<1>6. Goal
  BY <1>2, <1>3, <1>4, <1>5
<1>7. Abstract!Edited(state, edit, bytes) \subseteq States
  <2> DEFINE next(result) ==
        [table |-> IF result = Applied THEN Made(state.table, edit) ELSE state.table,
         missed |-> state.missed \/ result = NotStored]
  <2>1. \A result \in CanAnswer(state.table, edit, bytes) : next(result) \in States
    <3>1. ASSUME NEW result \in CanAnswer(state.table, edit, bytes)
          PROVE  IF result = Applied THEN Made(state.table, edit) \in Tables
                                     ELSE state.table \in Tables
      BY <1>1, <1>6
    <3>2. \A result : (state.missed \/ result = NotStored) \in BOOLEAN
      OBVIOUS
    <3> QED BY <3>1, <3>2 DEF States
  <2>2. Abstract!Edited(state, edit, bytes) =
          {next(result) : result \in CanAnswer(state.table, edit, bytes) \ {Refused}}
    BY SameItems, Zenon DEF Abstract!Edited
  <2> QED BY <2>1, <2>2
<1> QED BY <1>6, <1>7

\* After goes edit by edit.
LEMMA AfterSteps ==
  ASSUME NEW edits \in Seq(EditSet), NEW t \in Tables, NEW bytes \in HeldSizes
  PROVE  LET after == Abstract!After(edits, t, bytes) IN
         /\ after[0] = {[table |-> t, missed |-> FALSE]}
         /\ \A n \in 0..Len(edits) : after[n] \subseteq States
         /\ \A n \in DOMAIN edits :
              after[n] = UNION {Abstract!Edited(state, edits[n], bytes) :
                                  state \in after[n - 1]}
<1> DEFINE n == Len(edits)
           start == {[table |-> t, missed |-> FALSE]}
           next(i, states) ==
             UNION {Abstract!Edited(state, edits[i], bytes) : state \in states}
           Whole(f) == f = [i \in 0..n |-> IF i = 0 THEN start ELSE next(i, f[i - 1])]
           after == CHOOSE f : Whole(f)
           step == [i \in 0..n |-> [states \in SUBSET States |->
                      IF i = 0 THEN states ELSE next(i, states)]]
<1>1. n \in Nat /\ 0 \in Nat /\ 0 <= n /\ DOMAIN edits = 1..n
      /\ \A i \in 1..n : edits[i] \in EditSet
  OBVIOUS
<1> HIDE DEF n
<1>2. start \in SUBSET States
  BY DEF States
<1>3. \A i \in 1..n : \A states \in SUBSET States :
        next(i, states) \in SUBSET States
  BY <1>1, EditedType
<1> HIDE DEF start, next
<1>4. step \in [0..n -> [SUBSET States -> SUBSET States]]
  <2>1. \A i \in 0..n : i # 0 => i \in 1..n
    BY <1>1
  <2> QED BY <1>3, <2>1
<1>5. PICK g : GoesBy(g, step, start, 0, n, SUBSET States)
  <2> HIDE DEF step
  <2> QED BY <1>1, <1>2, <1>4, StepByStep
<1>6. /\ g \in [0..n -> SUBSET States] /\ g[0] = start
      /\ \A i \in 0..n : i # 0 => g[i] = next(i, g[i - 1])
  <2>1. \A i \in 0..n : i # 0 => i - 1 \in 0..n
    BY <1>1
  <2> QED BY <1>5, <2>1 DEF GoesBy
<1>7. Whole(g)
  <2>1. g = [i \in 0..n |-> g[i]]
    BY <1>6
  <2>2. \A i \in 0..n : g[i] = IF i = 0 THEN start ELSE next(i, g[i - 1])
    BY <1>6, Zenon
  <2> QED BY <2>1, <2>2, Zenon
<1>8. Whole(after)
  BY <1>7
<1>9. Abstract!After(edits, t, bytes) = after
  BY Zenon DEF Abstract!After, start, next, n
<1> HIDE DEF after
<1>10. \A i \in 0..n : after[i] = IF i = 0 THEN start ELSE next(i, after[i - 1])
  BY <1>8, Zenon
<1>11. 0 \in 0..n /\ after[0] = start
  BY <1>1, <1>10
<1>12. \A i \in 1..n : after[i] = next(i, after[i - 1])
  BY <1>1, <1>10
<1>13. \A i \in 0..n : after[i] \subseteq States
  <2> DEFINE typed == {i \in 0..n : after[i] \subseteq States}
  <2>1. 0 \in typed
    BY <1>2, <1>11
  <2>2. \A i \in 0..n : i # 0 /\ i - 1 \in typed => i \in typed
    BY <1>1, <1>3, <1>12
  <2> HIDE DEF Whole, step, typed
  <2>3. \A i \in 0..n : i \in typed
    BY <1>1, <2>1, <2>2, RangeInduction
  <2> QED BY <2>3 DEF typed
<1> QED BY <1>1, <1>9, <1>11, <1>12, <1>13 DEF start, next, n

-----------------------------------------------------------------------------
(* What each step does to what an agenda still has to do.                    *)

LEMMA NextOfSequence ==
  ASSUME NEW E, NEW done \in Seq(E), NEW x \in E, NEW rest \in Seq(E)
  PROVE  LET whole == done \o (<<x>> \o rest) IN
         /\ whole \in Seq(E)
         /\ whole = Append(done, x) \o rest
         /\ Append(done, x) \in Seq(E) /\ Len(Append(done, x)) = Len(done) + 1
         /\ Len(done) + 1 \in DOMAIN whole /\ whole[Len(done) + 1] = x
<1>1. /\ <<x>> \in Seq(E) /\ Append(done, x) = done \o <<x>>
      /\ Append(done, x) \in Seq(E) /\ Len(Append(done, x)) = Len(done) + 1
      /\ Append(done, x)[Len(done) + 1] = x
      /\ Len(done) \in Nat /\ Len(rest) \in Nat
  OBVIOUS
<1>2. (done \o <<x>>) \o rest = done \o (<<x>> \o rest)
  BY <1>1, ConcatAssociative
<1> DEFINE first == Append(done, x)
           whole == first \o rest
<1> HIDE DEF first
<1>3. /\ whole \in Seq(E) /\ Len(whole) = Len(first) + Len(rest)
      /\ \A i \in 1..Len(first) : whole[i] = first[i]
  BY <1>1, ConcatProperties DEF first
<1>4. Len(done) + 1 \in 1..Len(first) /\ DOMAIN whole = 1..Len(whole)
      /\ Len(done) + 1 \in 1..Len(whole)
  BY <1>1, <1>3 DEF first
<1>5. whole[Len(done) + 1] = x
  BY <1>1, <1>3, <1>4 DEF first
<1>6. whole = done \o (<<x>> \o rest)
  BY <1>1, <1>2 DEF first
<1> HIDE DEF whole
<1> QED BY <1>1, <1>3, <1>4, <1>5, <1>6 DEF first, whole

\* An item is the next of what an agenda does.
LEMMA RestAtItem ==
  ASSUME NEW lists \in Seq(Seq(ItemSet)), lists # << >>, lists[Len(lists)] # << >>
  PROVE  LET item == lists[Len(lists)][1]
             done == [lists EXCEPT ![Len(lists)] = Tail(@)]
         IN  /\ item \in ItemSet /\ done \in Seq(Seq(ItemSet)) /\ done # << >>
             /\ Rest(lists) = Abstract!Flatten[item] \o Rest(done)
<1> DEFINE n == Len(lists)
           last == lists[n]
           item == last[1]
           done == [lists EXCEPT ![n] = Tail(@)]
           front == SubSeq(lists, 1, n - 1)
<1>1. /\ n \in Nat /\ n # 0 /\ n \in 1..n /\ last \in Seq(ItemSet)
      /\ \A i \in 1..n : lists[i] \in Seq(ItemSet)
  BY EmptySeq
<1>2. item \in ItemSet /\ Tail(last) \in Seq(ItemSet)
  <2> HIDE DEF last
  <2>1. Len(last) \in Nat /\ Len(last) # 0
    BY <1>1, EmptySeq DEF last
  <2>2. 1 \in 1..Len(last)
    BY <2>1
  <2> QED BY <1>1, <2>1, <2>2, HeadTailProperties DEF last
<1>3. /\ done \in Seq(Seq(ItemSet)) /\ Len(done) = n /\ done[n] = Tail(last)
      /\ \A i \in 1..(n - 1) : done[i] = lists[i]
  <2>1. done \in Seq(Seq(ItemSet)) /\ Len(done) = n
    BY <1>1, <1>2
  <2>2. done[n] = Tail(last)
    BY <1>1
  <2>3. \A i \in 1..(n - 1) : done[i] = lists[i]
    BY <1>1
  <2> QED BY <2>1, <2>2, <2>3
<1> HIDE DEF last, done, n
<1>4. done # << >>
  BY <1>1, <1>3
<1>5. SubSeq(done, 1, n - 1) = front
  <2>1. /\ Len(front) = n - 1 /\ front \in Seq(Seq(ItemSet))
        /\ \A i \in 1..(n - 1) : front[i] = lists[i]
    BY FrontOfSequence DEF n
  <2>2. /\ Len(SubSeq(done, 1, n - 1)) = n - 1
        /\ SubSeq(done, 1, n - 1) \in Seq(Seq(ItemSet))
        /\ \A i \in 1..(n - 1) : SubSeq(done, 1, n - 1)[i] = done[i]
    BY <1>3, <1>4, FrontOfSequence
  <2> DEFINE doneFront == SubSeq(done, 1, n - 1)
  <2> HIDE DEF front, doneFront
  <2>3. Len(doneFront) = n - 1 /\ doneFront \in Seq(Seq(ItemSet))
    BY <2>2 DEF doneFront
  <2>4. \A i \in 1..Len(doneFront) : doneFront[i] = front[i]
    BY <1>3, <2>1, <2>2 DEF doneFront
  <2>5. doneFront = front
    BY <2>1, <2>3, <2>4, SeqEqual
  <2> QED BY <2>5 DEF doneFront
<1>6. Rest(lists) = ListEdits(last) \o Rest(front)
  BY RestFrom DEF n, last
<1>7. Rest(done) = ListEdits(Tail(last)) \o Rest(front)
  BY <1>3, <1>4, <1>5, RestFrom
<1>8. ListEdits(last) = Abstract!Flatten[item] \o ListEdits(Tail(last))
  BY <1>1, ListEditsFrom DEF last, n
<1>9. /\ Abstract!Flatten[item] \in Seq(EditSet)
      /\ ListEdits(Tail(last)) \in Seq(EditSet)
  BY <1>2, FlattenItem, ListEditsFrom
<1>10. Rest(front) \in Seq(EditSet)
  <2>1. front \in Seq(Seq(ItemSet))
    BY FrontOfSequence DEF n
  <2> QED BY <2>1, RestFrom
<1>11. Rest(lists) = Abstract!Flatten[item] \o Rest(done)
  <2>1. \A a, b, c \in Seq(EditSet) : (a \o b) \o c = a \o (b \o c)
    BY ConcatAssociative, SMTT(30)
  <2>2. Rest(lists) =
          (Abstract!Flatten[item] \o ListEdits(Tail(last))) \o Rest(front)
    BY <1>6, <1>8, Zenon
  <2>3. Abstract!Flatten[item] \o Rest(done) =
          Abstract!Flatten[item] \o (ListEdits(Tail(last)) \o Rest(front))
    BY <1>7, Zenon
  <2> QED BY <1>9, <1>10, <2>1, <2>2, <2>3, Zenon
<1> QED BY <1>2, <1>3, <1>4, <1>11 DEF done, last, n

\* To begin a list is to do it before the rest.
LEMMA RestOfAppend ==
  ASSUME NEW lists \in Seq(Seq(ItemSet)), NEW list \in Seq(ItemSet)
  PROVE  /\ Append(lists, list) \in Seq(Seq(ItemSet)) /\ Append(lists, list) # << >>
         /\ Rest(Append(lists, list)) = ListEdits(list) \o Rest(lists)
<1> DEFINE all == Append(lists, list)
           n == Len(lists)
<1>1. /\ all \in Seq(Seq(ItemSet)) /\ Len(all) = n + 1 /\ all[n + 1] = list
      /\ n \in Nat /\ all # << >>
      /\ \A i \in 1..n : all[i] = lists[i]
  <2>1. /\ all \in Seq(Seq(ItemSet)) /\ Len(all) = n + 1 /\ all[n + 1] = list
        /\ \A i \in 1..n : all[i] = lists[i]
    BY AppendProperties
  <2>2. n \in Nat
    OBVIOUS
  <2> HIDE DEF all, n
  <2> QED BY <2>1, <2>2
<1>2. SubSeq(all, 1, Len(all) - 1) = lists
  <2> DEFINE front == SubSeq(all, 1, Len(all) - 1)
  <2> HIDE DEF all
  <2>1. /\ Len(front) = Len(all) - 1 /\ front \in Seq(Seq(ItemSet))
        /\ \A i \in 1..(Len(all) - 1) : front[i] = all[i]
    BY <1>1, FrontOfSequence
  <2>2. Len(all) - 1 = n
    BY <1>1
  <2> HIDE DEF front
  <2>3. /\ front \in Seq(Seq(ItemSet)) /\ Len(front) = Len(lists)
        /\ \A i \in 1..Len(front) : front[i] = lists[i]
    BY <1>1, <2>1, <2>2
  <2> QED BY <2>3, SeqEqual DEF front
<1> HIDE DEF all
<1>3. Rest(all) = ListEdits(all[Len(all)]) \o Rest(SubSeq(all, 1, Len(all) - 1))
  BY <1>1, RestFrom
<1> QED BY <1>1, <1>2, <1>3 DEF all

\* A list that is done has nothing before the rest.
LEMMA RestPastList ==
  ASSUME NEW lists \in Seq(Seq(ItemSet)), lists # << >>, lists[Len(lists)] = << >>
  PROVE  LET front == SubSeq(lists, 1, Len(lists) - 1)
         IN  /\ front \in Seq(Seq(ItemSet)) /\ Len(front) = Len(lists) - 1
             /\ Rest(lists) = Rest(front)
<1> DEFINE front == SubSeq(lists, 1, Len(lists) - 1)
<1>1. front \in Seq(Seq(ItemSet)) /\ Len(front) = Len(lists) - 1
  BY FrontOfSequence
<1> HIDE DEF front
<1>2. Rest(lists) = ListEdits(lists[Len(lists)]) \o Rest(front)
  BY RestFrom DEF front
<1>3. << >> \in Seq(ItemSet)
  OBVIOUS
<1>4. ListEdits(<< >>) = << >>
  BY <1>3, ListEditsFrom
<1>5. Rest(front) \in Seq(EditSet)
  BY <1>1, RestFrom
<1>6. << >> \o Rest(front) = Rest(front)
  BY <1>5, ConcatEmptySeq
<1> QED BY <1>1, <1>2, <1>4, <1>6 DEF front

-----------------------------------------------------------------------------
(* The invariant.                                                            *)

Whole == [op |-> request, path |-> request.offsets]
State == [table |-> table, missed |-> outcome = NotStored]

\* The edits done come to where the table is, and those of the agenda are the
\* others.
Reached ==
  \E done \in Seq(EditSet) :
    /\ Abstract!Edits = done \o Rest(agenda)
    /\ State \in Abstract!After(Abstract!Edits, source, held)[Len(done)]

IInv ==
  /\ request \in Requests /\ source \in Tables /\ held \in HeldSizes
  /\ table \in Tables /\ outcome \in {Applied, NotStored}
  /\ agenda \in Seq(Seq(ItemSet))
  /\ agenda = << >> => table = source /\ outcome = Applied
  /\ agenda # << >> => WellFormed(request) /\ Reached

LEMMA WholeItem ==
  ASSUME request \in Requests
  PROVE  Whole \in ItemSet /\ Abstract!Edits = Abstract!Flatten[Whole]
                           /\ Abstract!Edits \in Seq(EditSet)
<1>1. Whole \in ItemSet
  BY OperationAssumption DEF Whole, ItemSet
<1> QED BY <1>1, FlattenItem DEF Abstract!Edits, Whole

\* An answer leaves nothing to do.
LEMMA AnswerKeepsInvariant ==
  ASSUME IInv, NEW result, NEW built, Answer(result, built)
  PROVE  IInv'
<1>1. /\ request' = request /\ source' = source /\ held' = held
      /\ agenda' = << >> /\ table' = source /\ outcome' = Applied
  BY DEF Answer
<1> QED BY <1>1 DEF IInv

\* A list begun, entered or returned from is done with what it did.
LEMMA StutterKeepsInvariant ==
  ASSUME IInv, agenda # << >>, agenda' \in Seq(Seq(ItemSet)), agenda' # << >>,
         Rest(agenda') = Rest(agenda),
         UNCHANGED <<request, source, held, table, outcome, answer, root>>
  PROVE  IInv' /\ UNCHANGED Abstract!vars
<1>1. PICK done \in Seq(EditSet) :
        /\ Abstract!Edits = done \o Rest(agenda)
        /\ State \in Abstract!After(Abstract!Edits, source, held)[Len(done)]
  BY DEF IInv, Reached
<1>2. Abstract!Edits' = Abstract!Edits /\ State' = State
  BY DEF Abstract!Edits, State
<1>3. Abstract!After(Abstract!Edits, source, held)' =
        Abstract!After(Abstract!Edits, source, held)
  BY <1>2 DEF Abstract!After, Abstract!Edited
<1>4. Rest(agenda)' = Rest(agenda)
  BY DEF Rest, ListEdits
<1>5. Reached'
  BY <1>1, <1>2, <1>3, <1>4 DEF Reached
<1> QED BY <1>5 DEF IInv, Abstract!vars

-----------------------------------------------------------------------------
(* Each action is Respond, or leaves the promise as it was.                  *)

LEMMA RefusingIsAResponse ==
  ASSUME IInv, RefuseIllFormed
  PROVE  Abstract!Respond /\ IInv'
<1>1. Answer(Refused, NoBuffer) /\ ~WellFormed(request) /\ answer = "none"
  BY DEF RefuseIllFormed, NotBegun
<1>2. Refused # Applied
  BY DEF Refused, Applied
<1>3. Abstract!Refuse
  BY <1>1, <1>2, SameItems DEF Answer, Abstract!Refuse
<1> QED BY <1>1, <1>3, AnswerKeepsInvariant DEF Answer, Abstract!Respond

\* A patch of none flattens to its copy.
LEMMA LoneEdits ==
  ASSUME IInv, request.type = "patch" => request.updates = << >>
  PROVE  LoneItem \in EditSet /\ Abstract!Edits = <<LoneItem>>
<1>1. Whole \in ItemSet /\ Abstract!Edits = Abstract!Flatten[Whole]
      /\ Whole.op = request /\ Whole.path = request.offsets
  BY WholeItem DEF IInv, Whole
<1>2. CASE request.type # "patch"
  <2>1. LoneItem = Whole
    BY <1>2 DEF LoneItem, Whole
  <2> QED BY <1>1, <1>2, <2>1, FlattenItem DEF EditSet
<1>3. CASE request.type = "patch"
  <2>1. Inner(Whole) = <<LoneItem>>
    BY <1>1, <1>3 DEF Inner, Items, LoneItem
  <2>2. LoneItem \in ItemSet /\ LoneItem.op.type # "patch"
    BY <1>1, <1>3, OperationAssumption DEF LoneItem, ItemSet, Copying, Whole
  <2> HIDE DEF LoneItem
  <2>3. /\ <<LoneItem>> \in Seq(ItemSet) /\ <<LoneItem>> # << >>
        /\ <<LoneItem>>[1] = LoneItem /\ Tail(<<LoneItem>>) = << >>
        /\ << >> \in Seq(ItemSet)
    BY <2>2
  <2>4. ListEdits(<<LoneItem>>) = <<LoneItem>> \o << >>
    BY <2>2, <2>3, ListEditsFrom, FlattenItem
  <2>5. <<LoneItem>> \o << >> = <<LoneItem>>
    BY <2>3, ConcatEmptySeq
  <2> QED BY <1>1, <1>3, <2>1, <2>2, <2>4, <2>5, FlattenItem DEF EditSet
<1> QED BY <1>2, <1>3

LEMMA LoneEditIsAResponse ==
  ASSUME IInv, LoneEdit
  PROVE  Abstract!Respond /\ IInv'
<1>1. PICK result \in CanAnswer(table, LoneItem, held) :
        Answer(result, Made(table, LoneItem))
  BY DEF LoneEdit
<1> DEFINE edit == LoneItem
           edits == Abstract!Edits
           start == [table |-> source, missed |-> FALSE]
           last == [table |-> IF result = Applied THEN Made(table, edit) ELSE source,
                    missed |-> FALSE \/ result = NotStored]
           after == Abstract!After(edits, source, held)
<1>2. /\ edit \in EditSet /\ edits = <<edit>> /\ table = source
      /\ answer = "none" /\ WellFormed(request) /\ start \in States
      /\ source \in Tables /\ held \in HeldSizes
  BY LoneEdits DEF LoneEdit, NotBegun, IInv, States
<1> HIDE DEF edit, edits
<1>3. /\ edits \in Seq(EditSet) /\ Len(edits) = 1 /\ 1 \in DOMAIN edits
      /\ edits[1] = edit /\ 1 - 1 = 0
  BY <1>2
<1>4. after[0] = {start} /\ after[1] = Abstract!Edited(start, edit, held)
  <2>1. after[1] = UNION {Abstract!Edited(state, edits[1], held) : state \in after[1 - 1]}
        /\ after[0] = {start}
    <3>1. /\ after[0] = {start}
          /\ \A n \in DOMAIN edits :
               after[n] = UNION {Abstract!Edited(state, edits[n], held) :
                                   state \in after[n - 1]}
      BY <1>2, <1>3, AfterSteps
    <3> HIDE DEF after, start
    <3> QED BY <1>3, <3>1
  <2> HIDE DEF after, start
  <2> QED BY <1>3, <2>1
<1>5. result \in Outcomes
  BY <1>1, <1>2, EditedType DEF edit, start
<1>6. CASE result = Refused
  <2>1. Abstract!Refused \in Abstract!CanAnswer(start.table, edits[1], held)
    BY <1>1, <1>2, <1>3, <1>6, SameItems DEF edit
  <2>2. start \in after[1 - 1]
    BY <1>3, <1>4
  <2> HIDE DEF after, start
  <2>3. Abstract!CanBeRefused(edits, source, held)
    BY <1>3, <2>1, <2>2 DEF Abstract!CanBeRefused, after
  <2>4. answer' = Refused /\ root' = NoBuffer
    BY <1>1, <1>6 DEF Answer, Refused, Applied
  <2> QED BY <1>1, <1>2, <2>3, <2>4, SameItems, AnswerKeepsInvariant
          DEF Abstract!Respond, Abstract!Refuse, Answer, edits
<1>7. CASE result # Refused
  <2>1. last \in Abstract!Edited(start, edit, held)
    <3>1. result \in Abstract!CanAnswer(start.table, edit, held) \ {Abstract!Refused}
      BY <1>1, <1>2, <1>7, SameItems DEF edit
    <3>2. last = [table |-> IF result = Abstract!Applied
                              THEN Abstract!Made(start.table, edit) ELSE start.table,
                  missed |-> start.missed \/ result = Abstract!NotStored]
      BY <1>2, SameItems
    <3> QED BY <3>1, <3>2 DEF Abstract!Edited
  <2>2. last \in after[Len(edits)]
    BY <1>3, <1>4, <2>1
  <2>3. /\ answer' = IF last.missed THEN NotStored ELSE Applied
        /\ root' = IF last.missed THEN NoBuffer ELSE last.table
    <3>1. answer' = result
          /\ root' = IF result = Applied THEN Made(table, edit) ELSE NoBuffer
      BY <1>1 DEF Answer, edit
    <3> QED BY <1>5, <1>7, <3>1 DEF Outcomes, Applied, NotStored, Refused
  <2> HIDE DEF after, last
  <2>4. Abstract!Serve
    BY <1>2, <2>2, <2>3, SameItems DEF Abstract!Serve, after, edits
  <2> QED BY <1>1, <1>2, <2>4, AnswerKeepsInvariant DEF Abstract!Respond, Answer
<1> QED BY <1>6, <1>7

LEMMA StartStutters ==
  ASSUME IInv, Start
  PROVE  IInv' /\ UNCHANGED Abstract!vars
<1>1. /\ agenda = << >> /\ WellFormed(request) /\ request.type = "patch"
      /\ agenda' = <<Items(request.updates, request.offsets)>>
      /\ UNCHANGED <<request, source, held, table, outcome, answer, root>>
      /\ table = source /\ outcome = Applied /\ request \in Requests
      /\ source \in Tables /\ held \in HeldSizes
  BY DEF Start, NotBegun, IInv
<1> DEFINE list == Inner(Whole)
<1>2. /\ Whole \in ItemSet /\ Abstract!Edits = Abstract!Flatten[Whole]
      /\ Abstract!Edits \in Seq(EditSet)
      /\ Whole.op.type = "patch" /\ agenda' = <<list>>
  BY <1>1, WholeItem DEF Whole, Inner
<1>3. list \in Seq(ItemSet) /\ Abstract!Edits = ListEdits(list)
  BY <1>2, InnerItems, FlattenItem
<1> HIDE DEF list
<1>4. << >> \in Seq(Seq(ItemSet)) /\ Append(<< >>, list) = <<list>>
  BY <1>3
<1>5. /\ <<list>> \in Seq(Seq(ItemSet)) /\ <<list>> # << >>
      /\ Rest(<<list>>) = ListEdits(list) \o << >>
  BY <1>3, <1>4, RestFrom, RestOfAppend
<1>6. ListEdits(list) \o << >> = ListEdits(list)
  BY <1>3, ListEditsFrom, ConcatEmptySeq
<1>7. Abstract!Edits = Rest(<<list>>)
  BY <1>3, <1>5, <1>6
<1>8. << >> \in Seq(EditSet) /\ Len(<< >>) = 0 /\ Abstract!Edits = << >> \o Abstract!Edits
  BY <1>2, ConcatEmptySeq
<1>9. State \in Abstract!After(Abstract!Edits, source, held)[0]
  <2>1. State = [table |-> source, missed |-> FALSE]
    BY <1>1 DEF State, Applied, NotStored
  <2>2. Abstract!After(Abstract!Edits, source, held)[0] =
          {[table |-> source, missed |-> FALSE]}
    BY <1>1, <1>2, AfterSteps
  <2> QED BY <2>1, <2>2
<1>10. Reached'
  <2>1. Abstract!Edits' = Abstract!Edits /\ State' = State
    BY <1>1 DEF Abstract!Edits, State
  <2>2. Abstract!After(Abstract!Edits, source, held)' =
          Abstract!After(Abstract!Edits, source, held)
    BY <1>1, <2>1 DEF Abstract!After, Abstract!Edited
  <2>3. Rest(agenda)' = Abstract!Edits
    BY <1>2, <1>7 DEF Rest, ListEdits
  <2> QED BY <1>8, <1>9, <2>1, <2>2, <2>3 DEF Reached
<1> QED BY <1>1, <1>2, <1>5, <1>10 DEF IInv, Abstract!vars

LEMMA EnterStutters ==
  ASSUME IInv, Enter
  PROVE  IInv' /\ UNCHANGED Abstract!vars
<1>1. /\ agenda # << >> /\ agenda[Len(agenda)] # << >> /\ Item.op.type = "patch"
      /\ agenda' = Append(ItemDone, Inner(Item)) /\ agenda \in Seq(Seq(ItemSet))
      /\ UNCHANGED <<request, source, held, table, outcome, answer, root>>
  BY DEF Enter, Begun, Remaining, Inner, IInv
<1>2. /\ Item \in ItemSet /\ ItemDone \in Seq(Seq(ItemSet))
      /\ Rest(agenda) = Abstract!Flatten[Item] \o Rest(ItemDone)
  BY <1>1, RestAtItem DEF Item, Remaining, ItemDone
<1>3. Inner(Item) \in Seq(ItemSet) /\ Abstract!Flatten[Item] = ListEdits(Inner(Item))
  BY <1>1, <1>2, InnerItems, FlattenItem
<1>4. /\ agenda' \in Seq(Seq(ItemSet)) /\ agenda' # << >>
      /\ Rest(agenda') = Rest(agenda)
  BY <1>1, <1>2, <1>3, RestOfAppend
<1> QED BY <1>1, <1>4, StutterKeepsInvariant

LEMMA ReturnStutters ==
  ASSUME IInv, Return
  PROVE  IInv' /\ UNCHANGED Abstract!vars
<1>1. /\ agenda # << >> /\ agenda[Len(agenda)] = << >> /\ Len(agenda) > 1
      /\ agenda' = SubSeq(agenda, 1, Len(agenda) - 1) /\ agenda \in Seq(Seq(ItemSet))
      /\ UNCHANGED <<request, source, held, table, outcome, answer, root>>
  BY DEF Return, Begun, Remaining, IInv
<1>2. /\ agenda' \in Seq(Seq(ItemSet)) /\ Len(agenda') = Len(agenda) - 1
      /\ Rest(agenda') = Rest(agenda)
  BY <1>1, RestPastList
<1>3. Len(agenda) \in Nat /\ Len(agenda') # 0
  BY <1>1, <1>2
<1>4. agenda' # << >>
  BY <1>3
<1> QED BY <1>1, <1>2, <1>4, StutterKeepsInvariant

LEMMA EditIsRefusedOrStutters ==
  ASSUME IInv, Edit
  PROVE  IInv' /\ (Abstract!Respond \/ UNCHANGED Abstract!vars)
<1> DEFINE edits == Abstract!Edits
           after == Abstract!After(edits, source, held)
           rest == Rest(ItemDone)
<1>1. /\ agenda # << >> /\ agenda[Len(agenda)] # << >> /\ Item.op.type # "patch"
      /\ agenda \in Seq(Seq(ItemSet)) /\ answer = "none" /\ WellFormed(request)
      /\ source \in Tables /\ held \in HeldSizes /\ request \in Requests
      /\ table \in Tables /\ outcome \in {Applied, NotStored} /\ Reached
  BY DEF Edit, Begun, Remaining, IInv
<1>2. PICK result \in CanAnswer(table, Item, held) :
        \/ result = Refused /\ Answer(Refused, NoBuffer)
        \/ /\ result # Refused
           /\ agenda' = ItemDone
           /\ table' = IF result = Applied THEN Made(table, Item) ELSE table
           /\ outcome' = IF result = NotStored THEN NotStored ELSE outcome
           /\ UNCHANGED <<request, source, held, answer, root>>
  BY DEF Edit
<1>3. /\ Item \in ItemSet /\ ItemDone \in Seq(Seq(ItemSet)) /\ ItemDone # << >>
      /\ Rest(agenda) = Abstract!Flatten[Item] \o rest
  BY <1>1, RestAtItem DEF Item, Remaining, ItemDone
<1>4. Item \in EditSet /\ Rest(agenda) = <<Item>> \o rest /\ rest \in Seq(EditSet)
  BY <1>1, <1>3, FlattenItem, RestFrom DEF EditSet
<1>5. PICK done \in Seq(EditSet) :
        edits = done \o Rest(agenda) /\ State \in after[Len(done)]
  BY <1>1 DEF Reached
<1> DEFINE n == Len(done) + 1
<1>6. /\ edits \in Seq(EditSet) /\ edits = Append(done, Item) \o rest
      /\ Append(done, Item) \in Seq(EditSet) /\ Len(Append(done, Item)) = n
      /\ n \in DOMAIN edits /\ edits[n] = Item /\ n - 1 = Len(done)
  <2>1. edits = done \o (<<Item>> \o rest)
    BY <1>4, <1>5
  <2> HIDE DEF edits, rest
  <2>2. Len(done) \in Nat
    BY <1>5
  <2>3. n - 1 = Len(done)
    BY <2>2
  <2> QED BY <1>4, <2>1, <2>3, NextOfSequence, SMTT(30)
<1> HIDE DEF edits, rest
<1>7. after[n] = UNION {Abstract!Edited(state, Item, held) : state \in after[n - 1]}
      /\ State \in after[n - 1]
  <2>1. \A k \in DOMAIN edits :
          after[k] = UNION {Abstract!Edited(state, edits[k], held) :
                              state \in after[k - 1]}
    BY <1>1, <1>6, AfterSteps, ZenonT(60)
  <2> HIDE DEF after, n
  <2>2. after[n] = UNION {Abstract!Edited(state, edits[n], held) : state \in after[n - 1]}
    BY <1>6, <2>1
  <2> QED BY <1>5, <1>6, <2>2
<1>8. State \in States /\ State.table = table
  BY <1>1 DEF State, States
<1>9. result \in Outcomes /\ (result = Applied => Made(table, Item) \in Tables)
  BY <1>1, <1>2, <1>4, <1>8, EditedType
<1>10. CASE result = Refused
  <2>1. Answer(Refused, NoBuffer)
    BY <1>2, <1>10
  <2>2. Abstract!Refused \in Abstract!CanAnswer(State.table, edits[n], held)
    BY <1>2, <1>6, <1>8, <1>10, SameItems
  <2>3. Abstract!CanBeRefused(edits, source, held)
    <3> HIDE DEF n
    <3> QED BY <1>6, <1>7, <2>2 DEF Abstract!CanBeRefused
  <2>4. answer' = Refused /\ root' = NoBuffer
    BY <2>1 DEF Answer, Refused, Applied
  <2> QED BY <1>1, <2>1, <2>3, <2>4, SameItems, AnswerKeepsInvariant
          DEF Abstract!Respond, Abstract!Refuse, Answer, edits
<1>11. CASE result # Refused
  <2>1. /\ agenda' = ItemDone
        /\ table' = IF result = Applied THEN Made(table, Item) ELSE table
        /\ outcome' = IF result = NotStored THEN NotStored ELSE outcome
        /\ UNCHANGED <<request, source, held, answer, root>>
    BY <1>2, <1>11
  <2>2. table' \in Tables /\ outcome' \in {Applied, NotStored}
    BY <1>1, <1>9, <2>1
  <2>3. State' \in after[n]
    <3>1. State' = [table |-> IF result = Applied THEN Made(table, Item) ELSE table,
                    missed |-> (outcome = NotStored) \/ result = NotStored]
      BY <2>1 DEF State
    <3>2. State' \in Abstract!Edited(State, Item, held)
      <4>1. result \in Abstract!CanAnswer(State.table, Item, held) \ {Abstract!Refused}
        BY <1>2, <1>8, <1>11, SameItems
      <4>2. State' = [table |-> IF result = Abstract!Applied
                                  THEN Abstract!Made(State.table, Item)
                                  ELSE State.table,
                      missed |-> State.missed \/ result = Abstract!NotStored]
        BY <1>8, <3>1, SameItems DEF State
      <4> QED BY <4>1, <4>2 DEF Abstract!Edited
    <3> HIDE DEF after, n
    <3> QED BY <1>7, <3>2
  <2>4. Reached'
    <3>1. Abstract!Edits' = edits
      BY <2>1 DEF Abstract!Edits, edits
    <3>2. Abstract!After(Abstract!Edits, source, held)' = after
      BY <2>1, <3>1 DEF Abstract!After, Abstract!Edited
    <3>3. Rest(agenda)' = rest
      BY <2>1 DEF Rest, ListEdits, rest
    <3> HIDE DEF after, n
    <3> QED BY <1>6, <2>3, <3>1, <3>2, <3>3 DEF Reached
  <2> QED BY <1>1, <1>3, <2>1, <2>2, <2>4 DEF IInv, Abstract!vars
<1> QED BY <1>10, <1>11

LEMMA FinishIsAResponse ==
  ASSUME IInv, Finish
  PROVE  Abstract!Respond /\ IInv'
<1>1. /\ agenda # << >> /\ agenda[Len(agenda)] = << >> /\ Len(agenda) = 1
      /\ agenda \in Seq(Seq(ItemSet)) /\ answer = "none" /\ WellFormed(request)
      /\ outcome \in {Applied, NotStored} /\ Answer(outcome, table) /\ Reached
  BY DEF Finish, Begun, Remaining, IInv
<1>2. Rest(agenda) = << >>
  <2> DEFINE front == SubSeq(agenda, 1, Len(agenda) - 1)
  <2>1. front \in Seq(Seq(ItemSet)) /\ Len(front) = 0 /\ Rest(agenda) = Rest(front)
    BY <1>1, RestPastList
  <2>2. front = << >>
    BY <2>1, EmptySeq
  <2> QED BY <2>1, <2>2, RestFrom
<1>3. PICK done \in Seq(EditSet) :
        /\ Abstract!Edits = done \o Rest(agenda)
        /\ State \in Abstract!After(Abstract!Edits, source, held)[Len(done)]
  BY <1>1 DEF Reached
<1>4. Len(done) = Len(Abstract!Edits)
  BY <1>2, <1>3, ConcatEmptySeq
<1>5. /\ answer' = IF State.missed THEN NotStored ELSE Applied
      /\ root' = IF State.missed THEN NoBuffer ELSE State.table
  BY <1>1 DEF Answer, State, Applied, NotStored
<1>6. Abstract!Serve
  BY <1>1, <1>3, <1>4, <1>5, SameItems DEF Abstract!Serve
<1> QED BY <1>1, <1>6, AnswerKeepsInvariant DEF Abstract!Respond, Answer

\* To carry out a request one operation after another, each nested patch in its
\* place, answers at once what its flattened puts and deletes come to.
THEOREM OneAfterAnotherIsAtOnce == Spec => Abstract!Spec
<1>1. Init => IInv /\ Abstract!Init
  BY DEF Init, IInv, Abstract!Init
<1>2. IInv /\ [Next]_vars => IInv' /\ [Abstract!Respond]_(Abstract!vars)
  <2>1. ASSUME IInv, Next
        PROVE  IInv' /\ (Abstract!Respond \/ UNCHANGED Abstract!vars)
    BY <2>1, RefusingIsAResponse, LoneEditIsAResponse, StartStutters,
       EditIsRefusedOrStutters, EnterStutters, ReturnStutters, FinishIsAResponse
       DEF Next
  <2>2. ASSUME IInv, UNCHANGED vars
        PROVE  IInv' /\ UNCHANGED Abstract!vars
    <3>1. /\ UNCHANGED <<request, source, held, agenda, table, outcome, answer, root>>
      BY <2>2 DEF vars
    <3>2. CASE agenda = << >>
      BY <2>2, <3>1, <3>2 DEF IInv, Abstract!vars
    <3>3. CASE agenda # << >>
      BY <2>2, <3>1, <3>3, StutterKeepsInvariant DEF IInv
    <3> QED BY <3>2, <3>3
  <2> QED BY <2>1, <2>2
<1> QED BY <1>1, <1>2, PTL DEF Spec, Abstract!Spec
=============================================================================
