------------------------ MODULE TwoPassDeleteProofs ------------------------
(***************************************************************************)
(* Proofs about TwoPassDelete, for every schema, stored table and delete   *)
(* the classify pass lets through.                                         *)
(*                                                                         *)
(* PresentIsBuilt is the point: the two passes count by different rules,   *)
(* and only faithfulness of the rest of the table and the path's being     *)
(* stored make the rules agree.  From there the argument is the one of     *)
(* TwoPassPutProofs: `offsets` is Genuine, Ordered and Complete, and       *)
(* offsetIndex splits it between the fields built and those to come.       *)
(***************************************************************************)
EXTENDS TwoPassDelete, TLAPS

\* The build pass reads an offset for `f`.
TakesOffset(f) == Present(f) /\ Kind[f] \in OffsetKinds

\* It reads one for slot `s` of `f`.
HasSlot(f, s) ==
  TakesOffset(f) /\ (s = 1 \/ (s = 0 /\ Kind[f] = "unionVector"))

SlotContent(f, s) == IF s = 1 THEN FieldOffset(f) ELSE TypesOffset(f)

Before(a, b) == a.for < b.for \/ (a.for = b.for /\ a.slot < b.slot)

Genuine ==
  \A k \in DOMAIN offsets : \E f \in Field, s \in {0, 1} :
    HasSlot(f, s) /\ offsets[k] = Held(f, s, SlotContent(f, s))

Ordered ==
  \A j, k \in DOMAIN offsets : j < k => Before(offsets[j], offsets[k])

\* The first field the generate pass has not gone through, and the build pass.
Generated == IF pass = "generate" THEN field ELSE NumFields + 1
Built == IF pass = "generate" THEN 1 ELSE field

Complete ==
  \A f \in Field, s \in {0, 1} :
    f < Generated /\ HasSlot(f, s) =>
      \E k \in DOMAIN offsets : offsets[k].for = f /\ offsets[k].slot = s

Split ==
  /\ offsetIndex <= Len(offsets)
  /\ \A k \in DOMAIN offsets :
       /\ offsets[k].for < Generated
       /\ k <= offsetIndex <=> offsets[k].for < Built

\* What the finished table holds at `f`, and beside the union `u`.
FinalValue(f) ==
  IF TakesOffset(f) THEN Held(f, 1, FieldOffset(f))
    ELSE IF Present(f) /\ Kind[f] \in {"scalar", "struct"}
           THEN Held(f, 1, "copied")
           ELSE Absent

FinalType(u) ==
  IF ~TakesOffset(u) THEN Absent
    ELSE IF Kind[u] = "union" THEN Held(u, 0, "copied")
    ELSE Held(u, 0, TypesOffset(u))

FinalMember(u) == IF TakesOffset(u) THEN source.member[u] ELSE NONE

BuiltSoFar ==
  /\ \A f \in Field \ Discriminators :
       table[f] = IF f < Built THEN FinalValue(f) ELSE Absent
  /\ \A u \in Unions \cup UnionVectors :
       table[TypeField[u]] = IF u < Built THEN FinalType(u) ELSE Absent
  /\ \A f \in Discriminators :
       (\A u \in Unions \cup UnionVectors : TypeField[u] # f)
         => table[f] = Absent
  /\ \A u \in Unions :
       member[u] = IF u < Built THEN FinalMember(u) ELSE NONE

IInv ==
  /\ TypeOK
  /\ Genuine /\ Ordered /\ Complete /\ Split
  /\ BuiltSoFar
  /\ pass = "done" => field = NumFields + 1

-----------------------------------------------------------------------------
(* What a field's offsets are.                                               *)

LEMMA ContentTypes ==
  ASSUME NEW f \in Field
  PROVE  /\ FieldOffset(f) \in Contents
         /\ TypesOffset(f) \in Contents
BY DEF FieldOffset, TypesOffset, Rebuild, CopyStored, Contents

\* What the build pass finds present is what the generate pass built.
LEMMA PresentIsBuilt ==
  ASSUME TypeOK, NEW f \in Field
  PROVE  TakesOffset(f) <=> FieldOffset(f) # "null"
<1> USE SchemaAssumption DEF TypeOK, Classified
<1>1. CASE Kind[f] \notin OffsetKinds
  <2>1. FieldOffset(f) = "null"
    BY <1>1 DEF FieldOffset, Rebuild, CopyStored, OffsetKinds, Discriminators,
                Kinds
  <2>2. QED BY <1>1, <2>1 DEF TakesOffset
<1>2. CASE Kind[f] \in OffsetKinds /\ ~InPath(f)
  <2>1. f \notin Discriminators
    BY <1>2 DEF OffsetKinds, Discriminators
  <2>2. FieldOffset(f) = CopyStored(f)
    BY <1>2, <2>1 DEF FieldOffset
  <2>3. f \in Unions => (InSource(f) <=> source.member[f] # NONE)
    BY <1>2 DEF OthersCopyFaithfully, InSource, InPath
  <2>4. QED
    BY <1>2, <2>2, <2>3
       DEF TakesOffset, Present, DeletedWhole, CopyStored
<1>3. CASE Kind[f] \in OffsetKinds /\ InPath(f)
  <2>1. /\ f \notin Discriminators /\ InSource(f) /\ path.head = f
        /\ path.size \in Nat /\ PathFits(source, path)
    BY <1>3 DEF OffsetKinds, Discriminators, PathFits, InPath, InSource, Paths
  <2>2. FieldOffset(f) = Rebuild(f)
    BY <1>3, <2>1 DEF FieldOffset
  <2>3. CASE Kind[f] = "union"
    <3>1. path.size = 1 \/ path.size = 2 \/ path.size >= 3
      BY <2>1 DEF Paths
    <3>2. path.size >= 2 => /\ path.member \in TableMembers
                            /\ source.member[f] = path.member
      BY <2>1, <2>3 DEF PathFits
    <3>3. CASE DeletesWholeUnion(f)
      <4>1. FieldOffset(f) = "null"
        BY <2>2, <2>3, <3>3 DEF Rebuild
      <4>2. ~TakesOffset(f)
        BY <1>3, <2>1, <2>3, <3>3 DEF TakesOffset, Present, DeletedWhole
      <4>3. QED BY <4>1, <4>2
    <3>4. CASE ~DeletesWholeUnion(f)
      <4>1. path.size >= 2
        BY <2>1, <3>1, <3>4 DEF DeletesWholeUnion
      <4>2. Rebuild(f) = "overlaid"
        BY <2>3, <3>2, <3>4, <4>1 DEF Rebuild
      <4>3. TakesOffset(f)
        BY <1>3, <2>1, <2>3, <3>4 DEF TakesOffset, Present, DeletedWhole
      <4>4. QED BY <2>2, <4>2, <4>3
    <3>5. QED BY <3>3, <3>4
  <2>4. CASE Kind[f] \in {"table", "vector", "unionVector"}
    BY <1>3, <2>1, <2>2, <2>4 DEF TakesOffset, Present, DeletedWhole, Rebuild
  <2>5. CASE Kind[f] \in {"string", "wideVector", "vector64"}
    <3>1. path.size = 1
      BY <2>1, <2>5 DEF PathFits
    <3>2. QED
      BY <1>3, <2>1, <2>2, <2>5, <3>1
         DEF TakesOffset, Present, DeletedWhole, Rebuild
  <2>6. QED BY <1>3, <2>3, <2>4, <2>5 DEF OffsetKinds
<1>4. QED BY <1>1, <1>2, <1>3

\* Which offsets a field has, and what they point at, is decided by the stored
\* table and the path, which no step changes.
LEMMA SourceAndPathDecide ==
  ASSUME source' = source, path' = path, NEW f
  PROVE  /\ InPath(f)' = InPath(f) /\ InSource(f)' = InSource(f)
         /\ TakesOffset(f)' = TakesOffset(f)
         /\ FieldOffset(f)' = FieldOffset(f)
         /\ TypesOffset(f)' = TypesOffset(f)
         /\ \A s : HasSlot(f, s)' = HasSlot(f, s)
         /\ \A s : SlotContent(f, s)' = SlotContent(f, s)
         /\ FinalValue(f)' = FinalValue(f)
         /\ FinalType(f)' = FinalType(f)
         /\ FinalMember(f)' = FinalMember(f)
<1>1. /\ InPath(f)' = InPath(f) /\ \A g : InSource(g)' = InSource(g)
      /\ DeletesWholeUnion(f)' = DeletesWholeUnion(f)
      /\ DeletesWholeElement(f)' = DeletesWholeElement(f)
  BY DEF InPath, InSource, DeletesWholeUnion, DeletesWholeElement
<1>2. \A g : CopyStored(g)' = CopyStored(g)
  BY <1>1 DEF CopyStored
<1>3. Present(f)' = Present(f) /\ TakesOffset(f)' = TakesOffset(f)
  BY <1>1 DEF Present, DeletedWhole, TakesOffset
<1>4. /\ FieldOffset(f)' = FieldOffset(f)
      /\ TypesOffset(f)' = TypesOffset(f)
  BY <1>1, <1>2 DEF FieldOffset, TypesOffset, Rebuild
<1>5. QED
  BY <1>1, <1>3, <1>4 DEF HasSlot, SlotContent, FinalValue, FinalType,
                          FinalMember

LEMMA PushedOffsets ==
  ASSUME TypeOK, NEW f \in Field
  PROVE  /\ Pushed(f) \in Seq(Offsets)
         /\ ~TakesOffset(f) => Pushed(f) = << >>
         /\ TakesOffset(f) /\ Kind[f] # "unionVector" =>
              Pushed(f) = <<Held(f, 1, FieldOffset(f))>>
         /\ TakesOffset(f) /\ Kind[f] = "unionVector" =>
              Pushed(f) = <<Held(f, 0, TypesOffset(f)),
                            Held(f, 1, FieldOffset(f))>>
<1>1. /\ Held(f, 1, FieldOffset(f)) \in Offsets
      /\ Held(f, 0, TypesOffset(f)) \in Offsets
  BY ContentTypes DEF Held, Offsets
<1>2. CASE ~TakesOffset(f)
  BY <1>2, PresentIsBuilt DEF Pushed
<1>3. CASE TakesOffset(f) /\ Kind[f] # "unionVector"
  BY <1>1, <1>3, PresentIsBuilt DEF Pushed
<1>4. CASE TakesOffset(f) /\ Kind[f] = "unionVector"
  BY <1>1, <1>4, PresentIsBuilt DEF Pushed
<1>5. QED BY <1>2, <1>3, <1>4

-----------------------------------------------------------------------------
(* The generate pass keeps `offsets` genuine, ordered and complete.          *)

LEMMA GenerateKeepsOffsets ==
  ASSUME IInv, GenerateField
  PROVE  /\ offsets' \in Seq(Offsets)
         /\ Genuine' /\ Ordered' /\ Complete' /\ Split'
<1> USE DEF IInv, TypeOK
<1> DEFINE new == Pushed(field)
<1>1. /\ field \in Field /\ pass = "generate" /\ pass' = "generate"
      /\ field' = field + 1 /\ offsets' = offsets \o new
      /\ source' = source /\ path' = path /\ offsetIndex' = offsetIndex
      /\ NumFields \in Nat
  BY SchemaAssumption DEF GenerateField
<1>2. Generated = field /\ Generated' = field + 1 /\ Built = 1 /\ Built' = 1
  BY <1>1 DEF Generated, Built
<1>3. /\ new \in Seq(Offsets)
      /\ \A k \in DOMAIN new : \E s \in {0, 1} :
           HasSlot(field, s) /\ new[k] = Held(field, s, SlotContent(field, s))
      /\ \A j, k \in DOMAIN new : j < k => new[j].slot < new[k].slot
      /\ \A s \in {0, 1} : HasSlot(field, s) =>
           \E k \in DOMAIN new : new[k].slot = s
  <2>1. CASE ~TakesOffset(field)
    BY <1>1, <2>1, PushedOffsets DEF HasSlot
  <2>2. CASE TakesOffset(field) /\ Kind[field] # "unionVector"
    BY <1>1, <2>2, PushedOffsets DEF HasSlot, SlotContent, Held
  <2>3. CASE TakesOffset(field) /\ Kind[field] = "unionVector"
    <3>1. new = <<Held(field, 0, SlotContent(field, 0)),
                  Held(field, 1, SlotContent(field, 1))>>
      BY <1>1, <2>3, PushedOffsets DEF SlotContent
    <3>2. DOMAIN new = {1, 2}
      BY <3>1
    <3>3. HasSlot(field, 0) /\ HasSlot(field, 1)
      BY <2>3 DEF HasSlot
    <3>4. /\ new[1] = Held(field, 0, SlotContent(field, 0))
          /\ new[2] = Held(field, 1, SlotContent(field, 1))
          /\ new[1].slot = 0 /\ new[2].slot = 1
      BY <3>1 DEF Held
    <3>5. new \in Seq(Offsets)
      BY <1>1, PushedOffsets
    <3>6. QED
      BY <3>2, <3>3, <3>4, <3>5
  <2>4. QED BY <2>1, <2>2, <2>3
<1> HIDE DEF new
<1>4. /\ offsets' \in Seq(Offsets)
      /\ Len(offsets') = Len(offsets) + Len(new)
      /\ \A k \in DOMAIN offsets : offsets'[k] = offsets[k]
      /\ \A k \in DOMAIN new :
           /\ Len(offsets) + k \in DOMAIN offsets'
           /\ offsets'[Len(offsets) + k] = new[k]
      /\ \A k \in DOMAIN offsets' :
           k \in DOMAIN offsets \/ k - Len(offsets) \in DOMAIN new
  BY <1>1, <1>3
<1>5. /\ DOMAIN offsets = 1..Len(offsets) /\ DOMAIN new = 1..Len(new)
      /\ DOMAIN offsets' = 1..Len(offsets')
      /\ Len(offsets) \in Nat /\ Len(new) \in Nat
  BY <1>3, <1>4
<1>6. \A k \in DOMAIN offsets' :
        \/ k \in DOMAIN offsets /\ offsets'[k] = offsets[k]
        \/ /\ k > Len(offsets) /\ k - Len(offsets) \in DOMAIN new
           /\ offsets'[k] = new[k - Len(offsets)]
  <2> TAKE k \in DOMAIN offsets'
  <2>1. CASE k \in DOMAIN offsets
    BY <2>1, <1>4
  <2>2. CASE k - Len(offsets) \in DOMAIN new
    BY <2>2, <1>4, <1>5
  <2>3. QED BY <2>1, <2>2, <1>4
<1>7. Genuine'
  <2> SUFFICES ASSUME NEW k \in DOMAIN offsets'
               PROVE  \E f \in Field, s \in {0, 1} :
                        /\ HasSlot(f, s)'
                        /\ offsets'[k] = Held(f, s, SlotContent(f, s)')
    BY DEF Genuine, Held
  <2>1. \E f \in Field, s \in {0, 1} :
          HasSlot(f, s) /\ offsets'[k] = Held(f, s, SlotContent(f, s))
    BY <1>1, <1>3, <1>6 DEF Genuine
  <2>2. QED BY <1>1, <2>1, SourceAndPathDecide
<1>8. Ordered'
  <2> SUFFICES ASSUME NEW j \in DOMAIN offsets', NEW k \in DOMAIN offsets',
                      j < k
               PROVE  Before(offsets'[j], offsets'[k])
    BY DEF Ordered, Before
  <2>1. CASE k \in DOMAIN offsets
    BY <2>1, <1>4, <1>5 DEF Ordered
  <2>2. CASE j \in DOMAIN offsets /\ k \notin DOMAIN offsets
    BY <2>2, <1>2, <1>3, <1>6 DEF Split, Before, Held
  <2>3. CASE j \notin DOMAIN offsets /\ k \notin DOMAIN offsets
    <3>1. j - Len(offsets) < k - Len(offsets)
      BY <1>5, <1>4
    <3>2. QED BY <2>3, <3>1, <1>3, <1>6 DEF Before, Held
  <2>4. CASE j \notin DOMAIN offsets /\ k \in DOMAIN offsets
    BY <2>4, <1>4, <1>5
  <2>5. QED BY <2>1, <2>2, <2>3, <2>4
<1>9. Complete'
  <2> SUFFICES ASSUME NEW f \in Field, NEW s \in {0, 1},
                      f < field + 1, HasSlot(f, s)
               PROVE  \E k \in DOMAIN offsets' :
                        offsets'[k].for = f /\ offsets'[k].slot = s
    <3>1. \A f \in Field, s \in {0, 1} : HasSlot(f, s)' = HasSlot(f, s)
      BY <1>1, SourceAndPathDecide
    <3>2. QED BY <1>2, <3>1 DEF Complete
  <2>1. CASE f < field
    <3>1. PICK k \in DOMAIN offsets : offsets[k].for = f /\ offsets[k].slot = s
      BY <2>1, <1>2 DEF Complete
    <3>2. QED BY <3>1, <1>4, <1>5
  <2>2. CASE f = field
    <3>1. PICK k \in DOMAIN new : new[k].slot = s
      BY <2>2, <1>3
    <3>2. QED BY <2>2, <3>1, <1>3, <1>4, SMTT(30) DEF Held
  <2>3. QED BY <2>1, <2>2, <1>1 DEF Field
<1>10. Split'
  <2>1. offsetIndex <= Len(offsets')
    BY <1>4, <1>5 DEF Split
  <2>2. \A k \in DOMAIN offsets' : offsets'[k].for < field + 1
    <3> TAKE k \in DOMAIN offsets'
    <3>1. CASE k \in DOMAIN offsets /\ offsets'[k] = offsets[k]
      <4>1. offsets[k].for < field
        BY <1>2, <3>1 DEF Split
      <4>2. offsets[k].for \in Nat
        BY <1>1, <3>1 DEF Genuine, Held, Field
      <4>3. QED BY <1>1, <3>1, <4>1, <4>2 DEF Field
    <3>2. CASE /\ k - Len(offsets) \in DOMAIN new
               /\ offsets'[k] = new[k - Len(offsets)]
      <4>1. offsets'[k].for = field
        BY <1>3, <3>2 DEF Held
      <4>2. QED BY <1>1, <4>1 DEF Field
    <3>3. QED BY <1>6, <3>1, <3>2
  <2>3. \A k \in DOMAIN offsets' :
          k <= offsetIndex <=> offsets'[k].for < 1
    BY <1>1, <1>2, <1>3, <1>4, <1>5, <1>6 DEF Split, Field, Held
  <2>4. QED BY <1>1, <1>2, <2>1, <2>2, <2>3 DEF Split
<1>11. QED BY <1>4, <1>7, <1>8, <1>9, <1>10

-----------------------------------------------------------------------------
(* The build pass reads, for each field, the offsets pushed for it.          *)

\* Where the build pass stands before a field whose slot `s` has an offset and
\* whose lower slots have none ahead, the next offset is that one.
LEMMA NextIsSlot ==
  ASSUME IInv, NEW n \in {1, 2}, NEW s \in {0, 1},
         pass = "build", field \in Field, HasSlot(field, s),
         \A k \in DOMAIN offsets :
           k > offsetIndex + n - 1 <=>
             \/ offsets[k].for > field
             \/ offsets[k].for = field /\ offsets[k].slot >= s
  PROVE  /\ offsetIndex + n \in DOMAIN offsets
         /\ offsets[offsetIndex + n] = Held(field, s, SlotContent(field, s))
         /\ \A k \in DOMAIN offsets :
              k > offsetIndex + n <=>
                \/ offsets[k].for > field
                \/ offsets[k].for = field /\ offsets[k].slot > s
<1> USE DEF IInv, TypeOK
<1>1. /\ DOMAIN offsets = 1..Len(offsets) /\ Len(offsets) \in Nat
      /\ offsetIndex \in Nat /\ NumFields \in Nat
      /\ \A k \in DOMAIN offsets :
           /\ offsets[k].for \in Nat /\ offsets[k].slot \in {0, 1}
           /\ offsets[k] = Held(offsets[k].for, offsets[k].slot,
                SlotContent(offsets[k].for, offsets[k].slot))
  <2>1. ASSUME NEW k \in DOMAIN offsets
        PROVE  /\ offsets[k].for \in Nat /\ offsets[k].slot \in {0, 1}
               /\ offsets[k] = Held(offsets[k].for, offsets[k].slot,
                    SlotContent(offsets[k].for, offsets[k].slot))
    <3>1. PICK f \in Field, s2 \in {0, 1} :
            offsets[k] = Held(f, s2, SlotContent(f, s2))
      BY DEF Genuine
    <3>2. offsets[k].for = f /\ offsets[k].slot = s2
      BY <3>1 DEF Held
    <3>3. QED BY <3>1, <3>2 DEF Field
  <2>2. QED BY <2>1, SchemaAssumption
<1>2. PICK i \in DOMAIN offsets :
        offsets[i].for = field /\ offsets[i].slot = s
  <2>1. Generated = NumFields + 1
    BY DEF Generated
  <2>2. QED BY <1>1, <2>1 DEF Complete, Field
<1>3. i > offsetIndex + n - 1
  BY <1>1, <1>2
<1>4. i = offsetIndex + n
  <2>1. SUFFICES ASSUME i > offsetIndex + n PROVE FALSE
    BY <1>1, <1>3
  <2> DEFINE j == offsetIndex + n
  <2>2. j \in DOMAIN offsets /\ j > offsetIndex + n - 1 /\ j < i
    BY <1>1, <2>1
  <2>3. Before(offsets[j], offsets[i])
    BY <2>2, <1>2 DEF Ordered
  <2> HIDE DEF j
  <2>4. QED BY <1>1, <1>2, <2>2, <2>3, SMTT(30) DEF Before, Field
<1>5. \A k \in DOMAIN offsets :
        k > i <=> \/ offsets[k].for > field
                  \/ offsets[k].for = field /\ offsets[k].slot > s
  <2> TAKE k \in DOMAIN offsets
  <2>1. CASE k > i
    <3>1. Before(offsets[i], offsets[k])
      BY <1>2, <2>1 DEF Ordered
    <3>2. QED BY <1>1, <1>2, <2>1, <3>1 DEF Before, Field
  <2>2. CASE k = i
    BY <1>1, <1>2, <2>2 DEF Field
  <2>3. CASE k < i
    <3>1. Before(offsets[k], offsets[i])
      BY <1>2, <2>3 DEF Ordered
    <3>2. QED BY <1>1, <1>2, <2>3, <3>1 DEF Before, Field
  <2>4. QED BY <1>1, <2>1, <2>2, <2>3
<1>6. QED BY <1>1, <1>2, <1>4, <1>5

LEMMA NextOffsets ==
  ASSUME IInv, pass = "build", field \in Field
  PROVE  /\ ~TakesOffset(field) =>
              \A k \in DOMAIN offsets :
                k <= offsetIndex <=> offsets[k].for < field + 1
         /\ TakesOffset(field) /\ Kind[field] # "unionVector" =>
              /\ offsetIndex + 1 \in DOMAIN offsets
              /\ Ahead(1) = Held(field, 1, FieldOffset(field))
              /\ \A k \in DOMAIN offsets :
                   k <= offsetIndex + 1 <=> offsets[k].for < field + 1
         /\ TakesOffset(field) /\ Kind[field] = "unionVector" =>
              /\ offsetIndex + 2 \in DOMAIN offsets
              /\ Ahead(1) = Held(field, 0, TypesOffset(field))
              /\ Ahead(2) = Held(field, 1, FieldOffset(field))
              /\ \A k \in DOMAIN offsets :
                   k <= offsetIndex + 2 <=> offsets[k].for < field + 1
<1> USE DEF IInv, TypeOK
<1>1. /\ DOMAIN offsets = 1..Len(offsets) /\ Len(offsets) \in Nat
      /\ offsetIndex \in Nat /\ NumFields \in Nat /\ field \in Nat
      /\ \A k \in DOMAIN offsets :
           /\ offsets[k].for \in Nat /\ offsets[k].slot \in {0, 1}
           /\ HasSlot(offsets[k].for, offsets[k].slot)
           /\ k <= offsetIndex <=> offsets[k].for < field
  BY SchemaAssumption DEF Genuine, Held, Field, Split, Built
<1>2. CASE ~TakesOffset(field)
  BY <1>1, <1>2 DEF HasSlot
<1>3. CASE TakesOffset(field) /\ Kind[field] # "unionVector"
  <2>1. HasSlot(field, 1) /\ ~HasSlot(field, 0)
    BY <1>3 DEF HasSlot
  <2>2. \A k \in DOMAIN offsets :
          k > offsetIndex + 1 - 1 <=>
            \/ offsets[k].for > field
            \/ offsets[k].for = field /\ offsets[k].slot >= 1
    BY <1>1, <2>1
  <2>3. /\ offsetIndex + 1 \in DOMAIN offsets
        /\ offsets[offsetIndex + 1] = Held(field, 1, SlotContent(field, 1))
        /\ \A k \in DOMAIN offsets :
             k > offsetIndex + 1 <=>
               \/ offsets[k].for > field
               \/ offsets[k].for = field /\ offsets[k].slot > 1
    BY <2>1, <2>2, NextIsSlot
  <2>4. QED BY <1>1, <1>3, <2>3, SMTT(30) DEF Ahead, SlotContent
<1>4. CASE TakesOffset(field) /\ Kind[field] = "unionVector"
  <2>1. HasSlot(field, 1) /\ HasSlot(field, 0)
    BY <1>4 DEF HasSlot
  <2>2. \A k \in DOMAIN offsets :
          k > offsetIndex + 1 - 1 <=>
            \/ offsets[k].for > field
            \/ offsets[k].for = field /\ offsets[k].slot >= 0
    BY <1>1, <2>1
  <2>3. /\ offsetIndex + 1 \in DOMAIN offsets
        /\ offsets[offsetIndex + 1] = Held(field, 0, SlotContent(field, 0))
        /\ \A k \in DOMAIN offsets :
             k > offsetIndex + 1 <=>
               \/ offsets[k].for > field
               \/ offsets[k].for = field /\ offsets[k].slot > 0
    BY <2>1, <2>2, NextIsSlot
  <2>4. \A k \in DOMAIN offsets :
          k > offsetIndex + 2 - 1 <=>
            \/ offsets[k].for > field
            \/ offsets[k].for = field /\ offsets[k].slot >= 1
    BY <1>1, <2>3
  <2>5. /\ offsetIndex + 2 \in DOMAIN offsets
        /\ offsets[offsetIndex + 2] = Held(field, 1, SlotContent(field, 1))
        /\ \A k \in DOMAIN offsets :
             k > offsetIndex + 2 <=>
               \/ offsets[k].for > field
               \/ offsets[k].for = field /\ offsets[k].slot > 1
    BY <2>1, <2>4, NextIsSlot
  <2>6. QED BY <1>1, <1>4, <2>3, <2>5 DEF Ahead, SlotContent
<1>5. QED BY <1>2, <1>3, <1>4

-----------------------------------------------------------------------------
(* The build pass gives each field, union and discriminant its final value.  *)

LEMMA SchemaFacts ==
  /\ Discriminators \subseteq Field
  /\ Unions \subseteq Field /\ UnionVectors \subseteq Field
  /\ (Unions \cup UnionVectors) \cap Discriminators = {}
  /\ \A u \in Unions \cup UnionVectors : TypeField[u] \in Discriminators
  /\ \A u, v \in Unions \cup UnionVectors : TypeField[u] = TypeField[v] => u = v
  /\ \A f \in Field : Kind[f] \in OffsetKinds \cup {"scalar", "struct"} =>
       f \notin Discriminators
BY SchemaAssumption
   DEF Unions, UnionVectors, Discriminators, OffsetKinds

LEMMA TypesAreBuilt ==
  ASSUME TypeOK, NEW f \in UnionVectors, TakesOffset(f)
  PROVE  TypesOffset(f) # "null"
<1>1. Kind[f] = "unionVector" /\ f \in Field /\ f \in source.stored
  BY DEF UnionVectors, TakesOffset, Present, InSource
<1>2. TypeField[f] \in source.stored /\ TypeField[f] \notin Unions
  BY <1>1, SchemaFacts DEF TypeOK, Sources
<1>3. CopyStored(TypeField[f]) = "copied"
  BY <1>1, <1>2, SchemaAssumption DEF CopyStored, InSource
<1>4. QED BY <1>3 DEF TypesOffset

LEMMA BuildFieldWrites ==
  ASSUME IInv, BuildField
  PROVE  /\ \A f \in Field \ Discriminators :
              table'[f] = IF f = field THEN FinalValue(f) ELSE table[f]
         /\ \A u \in Unions \cup UnionVectors :
              table'[TypeField[u]] =
                IF u = field THEN FinalType(u) ELSE table[TypeField[u]]
         /\ \A f \in Discriminators :
              (\A u \in Unions \cup UnionVectors : TypeField[u] # f) =>
                table'[f] = table[f]
         /\ \A u \in Unions :
              member'[u] = IF u = field THEN FinalMember(u) ELSE member[u]
<1> USE SchemaFacts DEF IInv, TypeOK
<1>1. pass = "build" /\ field \in Field /\ TypeOK
  BY DEF BuildField
<1>2. CASE AddOneOffset(field)
  <2>1. /\ TakesOffset(field) /\ field \notin Unions \cup UnionVectors
        /\ field \notin Discriminators
    BY <1>1, <1>2 DEF AddOneOffset, Unions, UnionVectors, TakesOffset
  <2>2. Ahead(1) = Held(field, 1, FieldOffset(field))
    BY <1>1, <1>2, <2>1, NextOffsets DEF AddOneOffset
  <2>3. Added(Ahead(1)) = FinalValue(field)
    BY <1>1, <2>1, <2>2, PresentIsBuilt DEF FinalValue, Added, Held
  <2>4. /\ table' = [table EXCEPT ![field] = FinalValue(field)]
        /\ member' = member
    BY <1>2, <2>3 DEF AddOneOffset
  <2>5. QED BY <1>1, <2>1, <2>4
<1>3. CASE AddUnionVector(field)
  <2>1. /\ TakesOffset(field) /\ field \in UnionVectors
        /\ field \notin Unions
        /\ Kind[field] = "unionVector"
    BY <1>1, <1>3 DEF AddUnionVector, Unions, UnionVectors, TakesOffset,
                      OffsetKinds
  <2>2. /\ Ahead(1) = Held(field, 0, TypesOffset(field))
        /\ Ahead(2) = Held(field, 1, FieldOffset(field))
    BY <1>1, <2>1, NextOffsets
  <2>3. /\ Added(Ahead(1)) = FinalType(field)
        /\ Added(Ahead(2)) = FinalValue(field)
    BY <1>1, <2>1, <2>2, PresentIsBuilt, TypesAreBuilt
       DEF FinalValue, FinalType, Added, Held
  <2>4. /\ table' = [table EXCEPT ![TypeField[field]] = FinalType(field),
                                  ![field] = FinalValue(field)]
        /\ member' = member
    BY <1>3, <2>3 DEF AddUnionVector
  <2>5. QED BY <1>1, <2>1, <2>4
<1>4. CASE AddUnion(field)
  <2>1. /\ TakesOffset(field) /\ field \in Unions /\ Kind[field] = "union"
        /\ Kind[field] # "unionVector"
    BY <1>1, <1>4 DEF AddUnion, Unions, TakesOffset, OffsetKinds
  <2>2. Ahead(1) = Held(field, 1, FieldOffset(field))
    BY <1>1, <2>1, NextOffsets
  <2>3. Added(Ahead(1)) = FinalValue(field)
    BY <1>1, <2>1, <2>2, PresentIsBuilt DEF FinalValue, Added, Held
  <2>4. /\ table' = [table EXCEPT ![TypeField[field]] = FinalType(field),
                                  ![field] = FinalValue(field)]
        /\ member' = [member EXCEPT ![field] = FinalMember(field)]
    BY <1>4, <2>1, <2>3 DEF AddUnion, FinalType, FinalMember
  <2>5. QED BY <1>1, <2>1, <2>4
<1>5. CASE AddInline(field)
  <2>1. /\ ~TakesOffset(field) /\ field \notin Unions \cup UnionVectors
        /\ field \notin Discriminators
    BY <1>1, <1>5 DEF AddInline, TakesOffset, OffsetKinds, Unions, UnionVectors
  <2>2. Present(field)
    BY <1>5 DEF AddInline, Present, DeletedWhole
  <2>3. /\ table' = [table EXCEPT ![field] = FinalValue(field)]
        /\ member' = member
    BY <1>5, <2>1, <2>2 DEF AddInline, FinalValue
  <2>4. QED BY <1>1, <2>1, <2>3
<1>6. CASE SkipField(field)
  <2>1. table' = table /\ member' = member /\ ~TakesOffset(field)
    BY <1>1, <1>6 DEF SkipField, TakesOffset, OffsetKinds, Discriminators
  <2>2. field \notin Discriminators =>
          table[field] = Absent /\ FinalValue(field) = Absent
    BY <1>1, <1>6, <2>1 DEF SkipField, FinalValue, BuiltSoFar, Built
  <2>3. field \in Unions \cup UnionVectors =>
          table[TypeField[field]] = Absent /\ FinalType(field) = Absent
    BY <1>1, <2>1 DEF FinalType, BuiltSoFar, Built, Field
  <2>4. field \in Unions => member[field] = NONE /\ FinalMember(field) = NONE
    BY <1>1, <2>1 DEF FinalMember, BuiltSoFar, Built, Field
  <2>5. QED BY <2>1, <2>2, <2>3, <2>4
<1>7. QED
  BY <1>2, <1>3, <1>4, <1>5, <1>6 DEF BuildField

-----------------------------------------------------------------------------
(* The invariant holds of the specification.                                 *)

LEMMA FinalTypes ==
  ASSUME TypeOK, NEW f \in Field
  PROVE  /\ FinalValue(f) \in Entries
         /\ f \in Unions \cup UnionVectors => FinalType(f) \in Entries
         /\ f \in Unions => FinalMember(f) \in Members
<1>1. /\ FinalValue(f) = Absent \/ \E c \in Contents :
            FinalValue(f) = Held(f, 1, c)
      /\ FinalType(f) = Absent \/ \E c \in Contents :
            FinalType(f) = Held(f, 0, c)
  BY ContentTypes DEF FinalValue, FinalType, Contents
<1>2. \A c \in Contents, s \in {0, 1} : Held(f, s, c) \in Entries
  BY DEF Held, Entries, Offsets
<1>3. f \in Unions => FinalMember(f) \in Members
  BY DEF TypeOK, FinalMember, Sources, Members
<1>4. QED BY <1>1, <1>2, <1>3 DEF Entries

LEMMA InitEstablishes == Init => IInv
<1> SUFFICES ASSUME Init PROVE IInv
  OBVIOUS
<1> USE SchemaAssumption, SchemaFacts DEF Init
<1>1. TypeOK
  BY DEF TypeOK, Field, Entries, Members
<1>2. offsets = << >> /\ DOMAIN offsets = {} /\ Generated = 1 /\ Built = 1
  BY DEF Generated, Built
<1>3. Genuine /\ Ordered /\ Complete /\ Split
  BY <1>2 DEF Genuine, Ordered, Complete, Split, Field
<1>4. BuiltSoFar
  BY <1>2 DEF BuiltSoFar, Field
<1>5. QED BY <1>1, <1>3, <1>4 DEF IInv

LEMMA BuildKeepsInvariant ==
  ASSUME IInv, BuildField
  PROVE  IInv'
<1> USE DEF IInv, TypeOK
<1>1. /\ pass = "build" /\ pass' = "build" /\ field \in Field
      /\ field' = field + 1 /\ source' = source /\ path' = path
      /\ offsets' = offsets /\ NumFields \in Nat
      /\ offsetIndex \in Nat /\ Len(offsets) \in Nat
      /\ DOMAIN offsets = 1..Len(offsets)
  BY SchemaAssumption DEF BuildField
<1>2. /\ Generated = NumFields + 1 /\ Generated' = NumFields + 1
      /\ Built = field /\ Built' = field + 1
  BY <1>1 DEF Generated, Built
<1>3. Split' /\ offsetIndex' \in Nat
  <2>1. CASE ~TakesOffset(field)
    <3>1. offsetIndex' = offsetIndex
      BY <2>1 DEF BuildField, AddOneOffset, AddUnionVector, AddUnion,
                  AddInline, SkipField, TakesOffset, OffsetKinds
    <3>2. QED BY <1>1, <1>2, <2>1, <3>1, NextOffsets DEF Split
  <2>2. CASE TakesOffset(field) /\ Kind[field] # "unionVector"
    <3>1. offsetIndex' = offsetIndex + 1
      BY <2>2 DEF BuildField, AddOneOffset, AddUnionVector, AddUnion,
                  AddInline, SkipField, TakesOffset, OffsetKinds,
                  Discriminators
    <3>2. QED BY <1>1, <1>2, <2>2, <3>1, NextOffsets DEF Split
  <2>3. CASE TakesOffset(field) /\ Kind[field] = "unionVector"
    <3>1. offsetIndex' = offsetIndex + 2
      BY <2>3 DEF BuildField, AddOneOffset, AddUnionVector, AddUnion,
                  AddInline, SkipField, TakesOffset, Discriminators
    <3>2. QED BY <1>1, <1>2, <2>3, <3>1, NextOffsets DEF Split
  <2>4. QED BY <2>1, <2>2, <2>3
<1>4. Genuine' /\ Ordered' /\ Complete'
  <2>1. \A f \in Field, s \in {0, 1} :
          /\ HasSlot(f, s)' = HasSlot(f, s)
          /\ SlotContent(f, s)' = SlotContent(f, s)
    BY <1>1, SourceAndPathDecide
  <2>2. Genuine'
    BY <1>1, <2>1 DEF Genuine, Held
  <2>3. Ordered'
    BY <1>1 DEF Ordered, Before
  <2>4. Complete'
    BY <1>1, <1>2, <2>1 DEF Complete
  <2>5. QED BY <2>2, <2>3, <2>4
<1>5. BuiltSoFar'
  <2>1. \A f \in Field : f < field + 1 <=> f < field \/ f = field
    BY <1>1 DEF Field
  <2>2. \A f : /\ FinalValue(f)' = FinalValue(f)
               /\ FinalType(f)' = FinalType(f)
               /\ FinalMember(f)' = FinalMember(f)
    BY <1>1, SourceAndPathDecide
  <2>3. QED
    BY <1>1, <1>2, <2>1, <2>2, BuildFieldWrites, SchemaFacts DEF BuiltSoFar
<1>6. table' \in [Field -> Entries] /\ member' \in [Unions -> Members]
  <2>1. /\ table' = [g \in Field |-> table'[g]]
        /\ member' = [u \in Unions |-> member'[u]]
    BY DEF BuildField, AddOneOffset, AddUnionVector, AddUnion, AddInline,
           SkipField
  <2>2. \A f \in Field : table'[f] \in Entries
    <3> TAKE f \in Field
    <3>1. CASE f \notin Discriminators
      BY <1>1, <3>1, BuildFieldWrites, FinalTypes
    <3>2. CASE \E u \in Unions \cup UnionVectors : TypeField[u] = f
      BY <1>1, <3>2, BuildFieldWrites, FinalTypes, SchemaFacts
    <3>3. CASE /\ f \in Discriminators
               /\ \A u \in Unions \cup UnionVectors : TypeField[u] # f
      BY <3>3, BuildFieldWrites
    <3>4. QED BY <3>1, <3>2, <3>3
  <2>3. \A u \in Unions : member'[u] \in Members
    BY <1>1, BuildFieldWrites, FinalTypes
  <2>4. QED BY <2>1, <2>2, <2>3
<1>7. QED
  BY <1>1, <1>3, <1>4, <1>5, <1>6 DEF Field

THEOREM InvariantHolds == Spec => []IInv
<1>1. Init => IInv
  BY InitEstablishes
<1>2. IInv /\ [Next]_vars => IInv'
  <2> SUFFICES ASSUME IInv, [Next]_vars PROVE IInv'
    OBVIOUS
  <2>1. CASE GenerateField
    <3>1. /\ offsets' \in Seq(Offsets)
          /\ Genuine' /\ Ordered' /\ Complete' /\ Split'
      BY <2>1, GenerateKeepsOffsets
    <3>2. TypeOK'
      BY <2>1, <3>1, SchemaAssumption DEF GenerateField, IInv, TypeOK, Field
    <3>3. BuiltSoFar'
      BY <2>1, SchemaFacts
         DEF GenerateField, IInv, TypeOK, BuiltSoFar, Built, Field
    <3>4. QED BY <2>1, <3>1, <3>2, <3>3 DEF IInv, GenerateField
  <2>2. CASE StartTable
    <3>1. /\ pass = "generate" /\ pass' = "build" /\ field = NumFields + 1
          /\ field' = 1 /\ source' = source /\ path' = path
          /\ offsets' = offsets /\ offsetIndex' = offsetIndex
          /\ table' = table /\ member' = member
      BY <2>2 DEF StartTable
    <3>2. /\ Generated' = Generated /\ Built' = Built /\ Built = 1
      BY <3>1 DEF Generated, Built
    <3>3. TypeOK'
      BY <3>1, SchemaAssumption DEF IInv, TypeOK
    <3>4. \A f \in Field, s \in {0, 1} :
            /\ HasSlot(f, s)' = HasSlot(f, s)
            /\ SlotContent(f, s)' = SlotContent(f, s)
      BY <3>1, SourceAndPathDecide
    <3>5. Genuine' /\ Ordered' /\ Complete' /\ Split'
      BY <3>1, <3>2, <3>4
         DEF IInv, Genuine, Ordered, Before, Complete, Split, Held
    <3>6. BuiltSoFar'
      BY <3>1, <3>2, SchemaFacts DEF IInv, BuiltSoFar, Field
    <3>7. QED BY <3>1, <3>3, <3>5, <3>6 DEF IInv
  <2>3. CASE BuildField
    BY <2>3, BuildKeepsInvariant
  <2>4. CASE EndTable \/ UNCHANGED vars
    <3>1. /\ field' = field /\ source' = source /\ path' = path
          /\ offsets' = offsets /\ offsetIndex' = offsetIndex
          /\ table' = table /\ member' = member
          /\ Generated' = Generated /\ Built' = Built
          /\ pass' \in {"generate", "build", "done"}
          /\ pass' = "done" => field = NumFields + 1
      BY <2>4 DEF EndTable, vars, Generated, Built, IInv, TypeOK
    <3>2. TypeOK'
      BY <3>1 DEF IInv, TypeOK
    <3>3. \A f \in Field, s \in {0, 1} :
            /\ HasSlot(f, s)' = HasSlot(f, s)
            /\ SlotContent(f, s)' = SlotContent(f, s)
      BY <3>1, SourceAndPathDecide
    <3>4. Genuine' /\ Ordered' /\ Complete' /\ Split'
      BY <3>1, <3>3
         DEF IInv, Genuine, Ordered, Before, Complete, Split, Held
    <3>5. \A f : /\ FinalValue(f)' = FinalValue(f)
                 /\ FinalType(f)' = FinalType(f)
                 /\ FinalMember(f)' = FinalMember(f)
      BY <3>1, SourceAndPathDecide
    <3>6. BuiltSoFar'
      BY <3>1, <3>5 DEF IInv, BuiltSoFar
    <3>7. QED BY <3>1, <3>2, <3>4, <3>6 DEF IInv
  <2>5. QED BY <2>1, <2>2, <2>3, <2>4 DEF Next
<1>3. QED BY <1>1, <1>2, PTL DEF Spec

\* Every variable keeps its type, for every schema, stored table and delete.
THEOREM TypeCorrect == Spec => []TypeOK
<1>1. IInv => TypeOK
  BY DEF IInv
<1>2. QED BY <1>1, InvariantHolds, PTL

-----------------------------------------------------------------------------
(* What the invariant implies.                                               *)

\* Whatever table a schema declares, whatever the buffer stores and whatever
\* the delete names, no field is built from a child generated for another, and
\* the build pass never reads past the last offset.
THEOREM EachFieldReadsItsOwn == Spec => []EachFieldHoldsItsOwn
<1>1. IInv => EachFieldHoldsItsOwn
  <2> SUFFICES ASSUME IInv, NEW f \in Field, table[f] # Absent
               PROVE  \/ table[f].slot = 1 /\ table[f].for = f
                      \/ /\ table[f].slot = 0
                         /\ table[f].for \in Unions \cup UnionVectors
                         /\ TypeField[table[f].for] = f
    BY DEF EachFieldHoldsItsOwn
  <2> USE DEF IInv, BuiltSoFar
  <2>1. CASE f \notin Discriminators
    <3>1. table[f] = FinalValue(f)
      BY <2>1
    <3>2. \E c \in Contents : FinalValue(f) = Held(f, 1, c)
      BY <3>1, ContentTypes DEF FinalValue, Contents
    <3>3. QED BY <3>1, <3>2 DEF Held
  <2>2. CASE f \in Discriminators
    <3>1. PICK u \in Unions \cup UnionVectors : TypeField[u] = f
      BY <2>2
    <3>2. table[f] = FinalType(u)
      BY <3>1
    <3>3. \E c \in Contents : FinalType(u) = Held(u, 0, c)
      BY <3>1, <3>2, ContentTypes, SchemaFacts
         DEF FinalType, Contents
    <3>4. QED BY <3>1, <3>2, <3>3 DEF Held
  <2>3. QED BY <2>1, <2>2
<1>2. QED BY <1>1, InvariantHolds, PTL

\* The assertion that ends applyRequestDelete cannot fail.
THEOREM AssertionHolds == Spec => []EveryOffsetIsRead
<1>1. IInv => EveryOffsetIsRead
  <2> SUFFICES ASSUME IInv, pass = "done" PROVE offsetIndex = Len(offsets)
    BY DEF EveryOffsetIsRead
  <2>1. /\ Built = Generated /\ Len(offsets) \in Nat /\ offsetIndex \in Nat
        /\ DOMAIN offsets = 1..Len(offsets)
    BY DEF Built, Generated, IInv, TypeOK
  <2>2. offsetIndex <= Len(offsets) /\ \A k \in DOMAIN offsets : k <= offsetIndex
    BY <2>1 DEF Split, IInv
  <2>3. Len(offsets) <= offsetIndex
    <3>1. CASE Len(offsets) = 0
      BY <2>1, <3>1
    <3>2. CASE Len(offsets) # 0
      <4>1. Len(offsets) \in DOMAIN offsets
        BY <2>1, <3>2
      <4>2. QED BY <2>2, <4>1
    <3>3. QED BY <3>1, <3>2
  <2>4. \A m, n \in Nat : m <= n /\ n <= m => m = n
    OBVIOUS
  <2>5. QED BY <2>1, <2>2, <2>3, <2>4, Zenon
<1>2. QED BY <1>1, InvariantHolds, PTL

-----------------------------------------------------------------------------
(* What a finished delete leaves at each field.                              *)

LEMMA WhenDone ==
  ASSUME IInv, pass = "done"
  PROVE  /\ \A f \in Field \ Discriminators : table[f] = FinalValue(f)
         /\ \A u \in Unions \cup UnionVectors : table[TypeField[u]] = FinalType(u)
         /\ \A f \in Discriminators :
              (\A u \in Unions \cup UnionVectors : TypeField[u] # f) =>
                table[f] = Absent
         /\ \A u \in Unions : member[u] = FinalMember(u)
<1>1. \A f \in Field : f < Built
  BY SchemaAssumption DEF IInv, Built, Field
<1>2. QED BY <1>1, SchemaFacts DEF IInv, BuiltSoFar

\* A field out of line that the delete does not name is copied where stored.
LEMMA UnnamedIsCopied ==
  ASSUME TypeOK, NEW f \in Field, ~InPath(f), Kind[f] \in OffsetKinds
  PROVE  /\ TakesOffset(f) <=> InSource(f)
         /\ InSource(f) => FieldOffset(f) = "copied"
<1>1. TakesOffset(f) <=> InSource(f)
  BY DEF TakesOffset, Present, DeletedWhole
<1>2. ASSUME InSource(f) PROVE FieldOffset(f) = "copied"
  <2>1. FieldOffset(f) # "null"
    BY <1>1, <1>2, PresentIsBuilt
  <2>2. f \notin Discriminators
    BY DEF OffsetKinds, Discriminators
  <2>3. FieldOffset(f) = CopyStored(f)
    BY <2>2 DEF FieldOffset
  <2> QED BY <2>1, <2>3 DEF CopyStored
<1> QED BY <1>1, <1>2

\* What is left of a field the delete names.
LEMMA HeadOutcome ==
  ASSUME TypeOK, NEW h, h = path.head
  PROVE  LET whole == path.size = 1 \/ (path.size = 2 /\ Kind[h] = "union")
         IN  /\ whole <=> ~Present(h)
             /\ ~whole => /\ TakesOffset(h)
                          /\ FieldOffset(h) \in {"shortened", "overlaid"}
<1>1. /\ h \in Field /\ InPath(h) /\ InSource(h) /\ PathFits(source, path)
      /\ path.size \in Nat /\ path.size >= 1
  BY DEF TypeOK, Paths, Classified, PathFits, InPath, InSource
<1>2. CASE Kind[h] \in {"scalar", "string", "struct", "wideVector", "vector64"}
  <2>1. path.size = 1
    BY <1>1, <1>2 DEF PathFits
  <2>2. DeletedWhole(h)
    BY <1>1, <1>2, <2>1 DEF DeletedWhole
  <2> QED BY <2>1, <2>2 DEF Present
<1>3. CASE Kind[h] \in {"table", "vector", "unionVector"}
  <2>1. DeletedWhole(h) <=> path.size = 1
    BY <1>1, <1>3 DEF DeletedWhole
  <2>2. Kind[h] \in OffsetKinds /\ h \notin Discriminators
    BY <1>3 DEF OffsetKinds, Discriminators
  <2>3. FieldOffset(h) = Rebuild(h)
    BY <1>1, <2>2 DEF FieldOffset
  <2>4. path.size # 1 => Rebuild(h) \in {"shortened", "overlaid"}
    BY <1>3 DEF Rebuild
  <2> QED BY <1>1, <1>3, <2>1, <2>2, <2>3, <2>4 DEF Present, TakesOffset
<1>4. CASE Kind[h] = "union"
  <2>1. path.size >= 2 => /\ path.member \in TableMembers
                          /\ source.member[h] = path.member
    BY <1>1, <1>4 DEF PathFits
  <2>2. DeletesWholeUnion(h) <=> path.size = 1 \/ path.size = 2
    BY <1>1, <2>1 DEF DeletesWholeUnion
  <2>3. DeletedWhole(h) <=> DeletesWholeUnion(h)
    BY <1>1, <1>4 DEF DeletedWhole
  <2>4. Kind[h] \in OffsetKinds /\ h \notin Discriminators
    BY <1>4 DEF OffsetKinds, Discriminators
  <2>5. FieldOffset(h) = Rebuild(h)
    BY <1>1, <2>4 DEF FieldOffset
  <2>6. ~DeletesWholeUnion(h) => Rebuild(h) = "overlaid"
    BY <1>1, <1>4, <2>1, <2>2 DEF Rebuild
  <2> QED BY <1>1, <1>4, <2>2, <2>3, <2>4, <2>5, <2>6 DEF Present, TakesOffset
<1>5. Kind[h] \in {"scalar", "string", "struct", "wideVector", "vector64", "table",
                   "vector", "unionVector", "union"}
  BY <1>1 DEF PathFits
<1> QED BY <1>2, <1>3, <1>4, <1>5

\* Whatever the schema and the table, a delete takes the field it names, or a part
\* of it where the path goes on, and never leaves the field as it was.
THEOREM HeadIsDeleted == Spec => []NamedIsDeleted
<1>1. IInv => NamedIsDeleted
  <2> DEFINE h == path.head
             whole == path.size = 1 \/ (path.size = 2 /\ Kind[h] = "union")
  <2> SUFFICES ASSUME IInv, pass = "done"
               PROVE  IF whole THEN table[h] = Absent
                               ELSE table[h].content \in {"shortened", "overlaid"}
    BY DEF NamedIsDeleted
  <2>1. TypeOK /\ h \in Field /\ PathFits(source, path)
    BY DEF IInv, TypeOK, Paths, Classified
  <2>2. h \notin Discriminators
    BY <2>1, SchemaFacts DEF PathFits, OffsetKinds
  <2>3. table[h] = FinalValue(h)
    BY <2>1, <2>2, WhenDone
  <2>4. /\ whole => ~Present(h)
        /\ ~whole => TakesOffset(h) /\ FieldOffset(h) \in {"shortened", "overlaid"}
    BY <2>1, HeadOutcome
  <2> HIDE DEF whole
  <2>5. whole => FinalValue(h) = Absent
    BY <2>4 DEF FinalValue, TakesOffset
  <2>6. ~whole => FinalValue(h) = Held(h, 1, FieldOffset(h))
    BY <2>4 DEF FinalValue
  <2> QED BY <2>3, <2>4, <2>5, <2>6 DEF Held
<1>2. QED BY <1>1, InvariantHolds, PTL

\* Whatever the delete, every field it does not name is in the new table exactly
\* where it was stored, and is a copy of what was stored.
THEOREM TheRestIsCopied == Spec => []RestIsCopied
<1>1. IInv => RestIsCopied
  <2> DEFINE Kept(f) == IF f \in Discriminators
                          THEN \E u \in Unions \cup UnionVectors :
                                 TypeField[u] = f /\ u \in source.stored
                          ELSE f \in source.stored
  <2> SUFFICES ASSUME IInv, pass = "done", NEW f \in Field, ~Named(f)
               PROVE  IF Kept(f) THEN table[f].content = "copied"
                                 ELSE table[f] = Absent
    BY DEF RestIsCopied
  <2>1. TypeOK /\ ~InPath(f)
    BY DEF IInv, Named
  <2>2. CASE f \notin Discriminators
    <3>1. Kept(f) <=> InSource(f)
      BY <2>2 DEF InSource
    <3>2. table[f] = FinalValue(f)
      BY <2>2, WhenDone
    <3>3. Present(f) <=> InSource(f)
      BY <2>1 DEF Present, DeletedWhole
    <3>4. Kind[f] \in OffsetKinds \/ Kind[f] \in {"scalar", "struct"}
      BY <2>2, SchemaAssumption DEF Kinds, OffsetKinds, Discriminators
    <3>5. InSource(f) => FinalValue(f) = Held(f, 1, "copied")
      BY <2>1, <3>3, <3>4, UnnamedIsCopied DEF FinalValue, TakesOffset
    <3>6. ~InSource(f) => FinalValue(f) = Absent
      BY <3>3 DEF FinalValue, TakesOffset
    <3> QED BY <3>1, <3>2, <3>5, <3>6 DEF Held
  <2>3. CASE f \in Discriminators
    <3>1. CASE \A u \in Unions \cup UnionVectors : TypeField[u] # f
      BY <2>3, <3>1, WhenDone
    <3>2. ASSUME NEW u \in Unions \cup UnionVectors, TypeField[u] = f
          PROVE  IF Kept(f) THEN table[f].content = "copied" ELSE table[f] = Absent
      <4>1. table[f] = FinalType(u) /\ u \in Field
        BY <3>2, WhenDone, SchemaFacts
      <4>2. Kept(f) <=> InSource(u)
        BY <2>3, <3>2, SchemaFacts DEF InSource
      <4>3. ~InPath(u)
        BY <3>2 DEF Named, InPath
      <4>4. Kind[u] \in {"union", "unionVector"}
        BY DEF Unions, UnionVectors
      <4>5. TakesOffset(u) <=> InSource(u)
        BY <2>1, <4>1, <4>3, <4>4, UnnamedIsCopied DEF OffsetKinds
      <4>6. CASE ~InSource(u)
        BY <4>1, <4>2, <4>5, <4>6 DEF FinalType
      <4>7. CASE InSource(u) /\ Kind[u] = "union"
        BY <4>1, <4>2, <4>5, <4>7 DEF FinalType, Held
      <4>8. CASE InSource(u) /\ Kind[u] = "unionVector"
        <5>1. TypesOffset(u) = CopyStored(TypeField[u])
          BY <4>3 DEF TypesOffset
        <5>2. TypesOffset(u) # "null"
          BY <2>1, <4>1, <4>5, <4>8, TypesAreBuilt DEF UnionVectors
        <5>3. TypesOffset(u) = "copied"
          BY <5>1, <5>2 DEF CopyStored
        <5> QED BY <4>1, <4>2, <4>5, <4>8, <5>3 DEF FinalType, Held
      <4> QED BY <4>4, <4>6, <4>7, <4>8
    <3> QED BY <3>1, <3>2
  <2> QED BY <2>2, <2>3
<1>2. QED BY <1>1, InvariantHolds, PTL

\* A vector of unions loses an element where its discriminants do.
LEMMA ElementsGoInPairs ==
  ASSUME TypeOK, NEW u \in UnionVectors, TakesOffset(u)
  PROVE  FieldOffset(u) = "shortened" <=> TypesOffset(u) = "shortened"
<1>1. Kind[u] = "unionVector" /\ u \in Field /\ u \notin Discriminators
  BY SchemaFacts DEF UnionVectors
<1>2. CopyStored(TypeField[u]) # "shortened" /\ CopyStored(u) # "shortened"
  BY DEF CopyStored
<1>3. CASE ~InPath(u)
  BY <1>1, <1>2, <1>3 DEF FieldOffset, TypesOffset
<1>4. CASE InPath(u)
  <2>1. InSource(u) /\ path.size # 1 /\ path.size \in Nat /\ path.size >= 1
    BY <1>1, <1>4 DEF TakesOffset, Present, DeletedWhole, TypeOK, Paths
  <2>2. FieldOffset(u) = IF DeletesWholeElement(u) THEN "shortened" ELSE "overlaid"
    BY <1>1, <1>4, <2>1 DEF FieldOffset, Rebuild
  <2>3. TypesOffset(u) = IF DeletesWholeElement(u) THEN "shortened"
                         ELSE CopyStored(TypeField[u])
    BY <1>4, <2>1 DEF TypesOffset
  <2> QED BY <1>2, <2>2, <2>3
<1> QED BY <1>3, <1>4

\* No delete parts a union from its discriminant or gives it another member's,
\* and none takes from one of the two vectors of a vector of unions alone.
THEOREM UnionAndDiscriminantAgree == Spec => []DiscriminantMatchesValue
<1>1. IInv => DiscriminantMatchesValue
  <2> SUFFICES ASSUME IInv, pass = "done"
               PROVE  /\ \A f \in Unions :
                           /\ (table[f] # Absent) <=> (table[TypeField[f]] # Absent)
                           /\ table[f] # Absent => member[f] = source.member[f]
                      /\ \A f \in UnionVectors :
                           /\ (table[f] # Absent) <=> (table[TypeField[f]] # Absent)
                           /\ table[f].content = "shortened" <=>
                                table[TypeField[f]].content = "shortened"
    BY DEF DiscriminantMatchesValue
  <2>1. TypeOK
    BY DEF IInv
  <2>2. \A f \in Field : \A s, c : Held(f, s, c) # Absent /\ Held(f, s, c).content = c
    BY SchemaAssumption DEF Held, Absent, Field
  <2>3. ASSUME NEW f \in Unions
        PROVE  /\ (table[f] # Absent) <=> (table[TypeField[f]] # Absent)
               /\ table[f] # Absent => member[f] = source.member[f]
    <3>1. /\ table[f] = FinalValue(f) /\ table[TypeField[f]] = FinalType(f)
          /\ member[f] = FinalMember(f) /\ f \in Field /\ Kind[f] = "union"
      BY WhenDone, SchemaFacts DEF Unions
    <3>2. CASE TakesOffset(f)
      BY <2>2, <3>1, <3>2 DEF FinalValue, FinalType, FinalMember
    <3>3. CASE ~TakesOffset(f)
      BY <3>1, <3>3 DEF FinalValue, FinalType
    <3> QED BY <3>2, <3>3
  <2>4. ASSUME NEW f \in UnionVectors
        PROVE  /\ (table[f] # Absent) <=> (table[TypeField[f]] # Absent)
               /\ table[f].content = "shortened" <=>
                    table[TypeField[f]].content = "shortened"
    <3>1. /\ table[f] = FinalValue(f) /\ table[TypeField[f]] = FinalType(f)
          /\ f \in Field /\ Kind[f] = "unionVector"
      BY WhenDone, SchemaFacts DEF UnionVectors
    <3>2. CASE TakesOffset(f)
      <4>1. /\ table[f] = Held(f, 1, FieldOffset(f))
            /\ table[TypeField[f]] = Held(f, 0, TypesOffset(f))
        BY <3>1, <3>2 DEF FinalValue, FinalType
      <4> QED BY <2>1, <2>2, <3>1, <3>2, <4>1, ElementsGoInPairs
    <3>3. CASE ~TakesOffset(f)
      BY <3>1, <3>3 DEF FinalValue, FinalType
    <3> QED BY <3>2, <3>3
  <2> QED BY <2>3, <2>4
<1>2. QED BY <1>1, InvariantHolds, PTL
=============================================================================
