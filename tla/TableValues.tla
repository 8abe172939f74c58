------------------------------ MODULE TableValues ------------------------------
(***************************************************************************)
(* What a buffer of a schema stores, and how the library reads it: the     *)
(* verifier, the test of what a copy keeps, and the deep copy.             *)
(*                                                                         *)
(* A stored table is a function from the vtable offsets of the fields it   *)
(* stores to their values: a number, a string as a sequence, a struct's    *)
(* image, a table, a union's bare value, a vector as a sequence.  The      *)
(* discriminants of a union, and of a vector of unions, are a field of     *)
(* their own beside it.  Bytes, bounds and alignment are left out: every   *)
(* offset is in bounds.                                                    *)
(***************************************************************************)
EXTENDS Schemas, FiniteSets

CONSTANT PayloadBytes(_)  \* The bytes of a string or of a table's flatbuffer.

Get(t, offset, default) == IF offset \in DOMAIN t THEN t[offset] ELSE default
Stores(t, f) == t # Null /\ f.offset \in DOMAIN t

\* The fields a function of them gives a value, and those values.
Present(F) == [o \in {o \in DOMAIN F : F[o] # Null} |-> F[o]]

EmptyTable == << >>

-----------------------------------------------------------------------------
(* The verifier.                                                             *)

RECURSIVE Verifies(_, _)
VerifiesUnionValue(enum, member, value) ==
  \/ member = 0
  \/ LET type == MemberType(enum, member)
     IN  type # Null /\ (type.base = "Table" => Verifies(type.of, value))

VerifiesVector(t, f) ==
  LET vector == t[f.offset]
  IN  \/ HasInlineElements(f)
      \/ ~IsWide(f) /\ f.element = "String"
      \/ /\ ~IsWide(f) /\ f.element = "Table"
         /\ \A i \in DOMAIN vector : Verifies(f.of, vector[i])
      \/ /\ ~IsWide(f) /\ f.element = "Union"
         /\ f.pair \in DOMAIN t /\ Len(t[f.pair]) = Len(vector)
         /\ \A i \in DOMAIN vector :
              VerifiesUnionValue(f.of, t[f.pair][i], vector[i])

VerifiesField(t, f) ==
  CASE f.base \in {"Scalar", "UType", "Struct", "String"} -> TRUE
    [] f.base = "Table" -> Verifies(f.of, t[f.offset])
    [] f.base = "Union" ->
         VerifiesUnionValue(f.of, Get(t, f.pair, 0), t[f.offset])
    [] IsVector(f) -> VerifiesVector(t, f)

Verifies(def, t) ==
  \A f \in Objects[def] : f.offset \in DOMAIN t => VerifiesField(t, f)

-----------------------------------------------------------------------------
(* What a copy keeps as it went in.                                          *)

RECURSIVE CopiesFaithfully(_, _, _)
UnionValueCopiesFaithfully(enum, member, value) ==
  LET type == MemberType(enum, member)
  IN  type # Null
        /\ (type.base = "Table" => CopiesFaithfully(type.of, value, Null))

\* A discriminant stored without its value is lost, unless it names nothing.
DiscriminantCopiesFaithfully(t, f) ==
  \/ f.pair \in DOMAIN t
  \/ t[f.offset] = (IF f.base = "UType" THEN 0 ELSE << >>)

VectorCopiesFaithfully(t, f) ==
  LET vector == t[f.offset]
      types == Get(t, f.pair, Null)
  IN  \/ HasInlineElements(f)
      \/ ~IsWide(f) /\ f.element = "String"
      \/ /\ ~IsWide(f) /\ f.element = "Table"
         /\ \A i \in DOMAIN vector : CopiesFaithfully(f.of, vector[i], Null)
      \/ /\ ~IsWide(f) /\ f.element = "Union"
         /\ types # Null /\ Len(types) = Len(vector)
         /\ \A i \in DOMAIN vector :
              UnionValueCopiesFaithfully(f.of, types[i], vector[i])

FieldCopiesFaithfully(t, f) ==
  IF IsDiscriminant(f) THEN DiscriminantCopiesFaithfully(t, f)
  ELSE CASE f.base = "Table" -> CopiesFaithfully(f.of, t[f.offset], Null)
         [] f.base = "Union" ->
              UnionValueCopiesFaithfully(f.of, Get(t, f.pair, 0), t[f.offset])
         [] IsVector(f) -> VectorCopiesFaithfully(t, f)
         [] f.base \in {"Scalar", "Struct", "String"} -> TRUE

\* The field `except` is written or removed, and its discriminant with it.
CopiesFaithfully(def, t, except) ==
  t # Null =>
    /\ DOMAIN t \subseteq Offsets(def)
    /\ \A f \in Objects[def] :
         \/ f.offset \notin DOMAIN t
         \/ except # Null
              /\ (f = except \/ (IsDiscriminant(f) /\ f.pair = except.offset))
         \/ FieldCopiesFaithfully(t, f)

-----------------------------------------------------------------------------
(* The deep copy.  Null where it builds nothing.                             *)

RECURSIVE CopyTable(_, _)
CopyUnionValue(enum, member, value) ==
  LET type == MemberType(enum, member)
  IN  IF type # Null /\ type.base = "Table" THEN CopyTable(type.of, value)
      ELSE IF type # Null THEN value ELSE Null

CopyVector(t, f) ==
  LET vector == t[f.offset]
      types == Get(t, f.pair, << >>)
      Element(i) == CopyUnionValue(f.of, types[i], vector[i])
  IN  CASE HasInlineElements(f) \/ f.element = "String" -> vector
        [] f.element = "Table" ->
             [i \in DOMAIN vector |-> CopyTable(f.of, vector[i])]
        [] f.element = "Union" ->
             [i \in 1..Shorter(Len(vector), Len(types)) |->
                IF Element(i) = Null THEN EmptyTable ELSE Element(i)]

\* copyFieldOffset
CopyField(t, f) ==
  IF ~Stores(t, f) THEN Null
  ELSE CASE f.base = "Table" -> CopyTable(f.of, t[f.offset])
         [] f.base = "Union" ->
              CopyUnionValue(f.of, Get(t, f.pair, 0), t[f.offset])
         [] IsVector(f) -> CopyVector(t, f)
         [] f.base \in {"Scalar", "UType", "Struct", "String"} -> t[f.offset]

\* copyTableDeep
CopyTable(def, t) ==
  Present([o \in Offsets(def) |-> CopyField(t, FieldAt(def, o))])
=============================================================================
