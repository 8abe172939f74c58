----------------------------- MODULE TableFields -----------------------------
(***************************************************************************)
(* What the put and the delete builder read of one table: the schema's     *)
(* fields and their kinds, which of them the buffer stores and under which *)
(* union members, and the offsets the two passes of a builder hand on      *)
(* (TwoPassPut, TwoPassDelete).                                            *)
(***************************************************************************)
EXTENDS Naturals, Sequences

CONSTANTS
  NumFields,     \* The fields the table declares, numbered in schema order.
  Kind,          \* What each field holds: a member of Kinds.
  TypeField,     \* The discriminant field beside a union, or union vector.
  TableMembers,  \* The discriminants of members that hold a table.
  OtherMembers,  \* The discriminants of members that hold a struct or string.
  MaxPathSize    \* The longest path considered.

Field == 1..NumFields

NONE == "NONE"
Members == {NONE} \cup TableMembers \cup OtherMembers

Kinds == {"scalar", "struct", "string", "table", "vector", "wideVector",
          "vector64", "union", "utype", "unionVector", "utypeVector"}

Unions == {f \in Field : Kind[f] = "union"}
UnionVectors == {f \in Field : Kind[f] = "unionVector"}
Discriminators == {f \in Field : Kind[f] \in {"utype", "utypeVector"}}

\* FlatBuffers declares one discriminant field for each union and for each
\* vector of unions, and none otherwise.
ASSUME SchemaAssumption ==
  /\ NumFields \in Nat
  /\ MaxPathSize \in Nat
  /\ Kind \in [Field -> Kinds]
  /\ TypeField \in [Field -> Field]
  /\ \A f \in Unions : Kind[TypeField[f]] = "utype"
  /\ \A f \in UnionVectors : Kind[TypeField[f]] = "utypeVector"
  /\ \A f, g \in Unions \cup UnionVectors :
       TypeField[f] = TypeField[g] => f = g
  /\ NONE \notin TableMembers \cup OtherMembers
  /\ TableMembers \cap OtherMembers = {}

\* isOffsetField, less a vector of discriminants: the kinds built out of line.
OffsetKinds == {"string", "table", "vector", "wideVector", "vector64",
                "union", "unionVector"}

\* A stored table: its fields, and the discriminant each union is stored under.
\* A buffer that verifies stores a vector of unions only beside its
\* discriminants, and a discriminant that is not stored reads as NONE.
Sources ==
  {s \in [stored : SUBSET Field, member : [Unions -> Members]] :
     /\ \A f \in Unions : s.member[f] # NONE => TypeField[f] \in s.stored
     /\ \A f \in UnionVectors : f \in s.stored => TypeField[f] \in s.stored}

\* copiesFaithfully at this table, with exceptField the path's first step: no
\* value stored under NONE, and no discriminant stored without its value.  A
\* vector of discriminants stored alone is then an empty one, which loses
\* nothing.
AnythingCopiesFaithfully(s, p) == TRUE                    \* mutant
OthersCopyFaithfully(s, p) ==
  \A f \in Unions \ {p.head} : f \in s.stored <=> s.member[f] # NONE

-----------------------------------------------------------------------------
(* Contents of an offset, or of a field of the new table.  "copied" is the   *)
(* stored value as it was; "overlaid" is built from it, with an edit inside; *)
(* "shortened" is a vector without one element; "fresh" is built from the    *)
(* payload alone; "null" is the offset 0; and "garbage" is what a read past  *)
(* the end of the offsets returns.                                           *)

Contents == {"null", "copied", "overlaid", "shortened", "fresh",
             "garbage"}

\* A pushed offset: the field it was pushed for, whether it is the child of
\* that field (1) or its vector of discriminants (0), and what it points at.
Offsets == [for : Field, slot : {0, 1}, content : Contents]
Garbage == [for |-> 0, slot |-> 1, content |-> "garbage"]
Absent  == [for |-> 0, slot |-> 1, content |-> "null"]
Held(f, slot, content) == [for |-> f, slot |-> slot, content |-> content]
Entries == Offsets \cup {Garbage, Absent}

\* AddOffset skips a null offset, which leaves the field absent.
Added(o) == IF o.content = "null" THEN Absent ELSE o
=============================================================================
