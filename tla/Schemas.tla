-------------------------------- MODULE Schemas --------------------------------
(***************************************************************************)
(* A reflection schema, as the library reads it: the objects and unions    *)
(* declared, and what a type says of the vectors a put may grow.           *)
(*                                                                         *)
(* A type is [base, element, of]: `element` is the kind of a vector's or   *)
(* array's elements, and `of` names the object or the union it, or they,   *)
(* refer to.  A field adds its `offset`, the offset `pair` of the field    *)
(* FlatBuffers pairs with a union or with a discriminant, whether it is    *)
(* `wide`, held through 64 bits, and an array's `length`.  A struct is an  *)
(* object whose fields are its members, each at its offset in the image.   *)
(***************************************************************************)
EXTENDS Integers, Sequences

CONSTANTS
  Objects,      \* The tables and structs declared: a set of fields of each name.
  Enums,        \* The unions declared: the type of each member of each name.
  Null,         \* What stands for a null pointer.
  ElementBytes  \* What an element of each kind takes in a grown vector.

IsVector(f) == f.base \in {"Vector", "Vector64"}
IsDiscriminant(f) == f.base = "UType" \/ (f.base = "Vector" /\ f.element = "UType")
HasInlineElements(f) == f.element \in {"Scalar", "UType", "Struct"}
\* Vectors of either width of length, and what else is held through 64 bits.
IsWide(f) == f.wide \/ f.base = "Vector64"

Offsets(def) == {f.offset : f \in Objects[def]}
FieldAt(def, offset) == CHOOSE f \in Objects[def] : f.offset = offset

Shorter(m, n) == IF m < n THEN m ELSE n
Longer(m, n) == IF m < n THEN n ELSE m

\* The type a union's member holds: Null for NONE and for one not declared.
MemberType(enum, member) ==
  IF member \in DOMAIN Enums[enum] THEN Enums[enum][member] ELSE Null

IsTableMember(enum, member) ==
  /\ MemberType(enum, member) # Null
  /\ MemberType(enum, member).base = "Table"
MemberDef(enum, member) == MemberType(enum, member).of

\* The most a vector takes once a put has grown it to hold an element at `index`.
GrownBytes(f, index) == (index + 1) * ElementBytes[f.element]
=============================================================================
