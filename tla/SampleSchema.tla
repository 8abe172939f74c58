------------------------------ MODULE SampleSchema ------------------------------
(* A schema with a field of every kind the library treats apart: a union and   *)
(* a vector of unions over a string, two tables and a struct, tables and       *)
(* structs alone and in vectors, a vector inside a vector's table, structs in  *)
(* structs, arrays of scalars and of structs, and vectors of either 64-bit     *)
(* form.  Numbers, strings and payloads are what the models' values are made   *)
(* of.                                                                         *)
EXTENDS Naturals, Sequences, TLC

Kind(offset, base, element, of, pair) ==
  [offset |-> offset, base |-> base, element |-> element, of |-> of,
   pair |-> pair, wide |-> FALSE, length |-> 0]
Number(offset) == Kind(offset, "Scalar", "", "", 0)
ArrayOf(offset, length, element, of) ==
  [Kind(offset, "Array", element, of, 0) EXCEPT !.length = length]

MCObjects == [
  Leaf |-> {Number(4), Kind(6, "Vector", "Scalar", "", 0)},
  Other |-> {Number(4)},
  Pair |-> {Number(0), Number(4)},
  Nest |-> {Number(0), Kind(4, "Struct", "", "Pair", 0),
            ArrayOf(12, 2, "Scalar", "")},
  Rig |-> {ArrayOf(0, 1, "Struct", "Pair"), Number(8)},
  Doc |-> {Kind(4, "UType", "", "Any", 6), Kind(6, "Union", "", "Any", 4),
           Kind(8, "Vector", "UType", "Any", 10),
           Kind(10, "Vector", "Union", "Any", 8),
           Kind(12, "Vector", "Table", "Leaf", 0),
           Kind(14, "Struct", "", "Nest", 0),
           Kind(16, "Vector", "Struct", "Nest", 0),
           Kind(18, "String", "", "", 0),
           [Kind(20, "Vector", "Scalar", "", 0) EXCEPT !.wide = TRUE],
           Kind(22, "Table", "", "Leaf", 0),
           Kind(24, "Struct", "", "Rig", 0),
           Kind(26, "Vector64", "Scalar", "", 0)}]

TypeOf(base, of) == [base |-> base, element |-> "", of |-> of]
MCEnums == [Any |-> 1 :> TypeOf("String", "") @@ 2 :> TypeOf("Table", "Leaf")
                    @@ 3 :> TypeOf("Table", "Other") @@ 4 :> TypeOf("Struct", "Pair")]
MCElementBytes == [Scalar |-> 1, Struct |-> 1, String |-> 1, Table |-> 1,
                   Union |-> 1]

-----------------------------------------------------------------------------
(* Payloads.                                                                 *)

TableOf(of, t) == [kind |-> "table", of |-> of, value |-> t]
Scalar(n) == [kind |-> "scalar", of |-> "", value |-> n]
String(s) == [kind |-> "string", of |-> "", value |-> s]
List(payloads) == [kind |-> "list", of |-> "", value |-> payloads]
Entry(m, payload) == [key |-> m, value |-> payload]
Map(entries) == [kind |-> "map", of |-> "", value |-> entries]

PairMap(n) == Map(<<Entry(0, Scalar(n)), Entry(4, Scalar(n))>>)
NestMap(n) == Map(<<Entry(0, Scalar(n)), Entry(4, PairMap(n)),
                    Entry(12, List(<<Scalar(n), Scalar(n)>>))>>)
\* Maps of a Nest: of every member, of some, of one twice, and of what it is not.
NestMaps == {
  NestMap(2), Map(<< >>), Map(<<Entry(0, Scalar(2))>>),
  Map(<<Entry(4, Map(<<Entry(4, Scalar(2))>>)), Entry(12, List(<<Scalar(2)>>))>>),
  Map(<<Entry(4, Map(<<Entry(0, Scalar(2))>>)),
        Entry(4, Map(<<Entry(4, Scalar(3)), Entry(4, Scalar(2))>>))>>),
  Map(<<Entry(0, Scalar(2)), Entry(4, Map(<< >>))>>),
  Map(<<Entry(12, List(<<Scalar(2), Scalar(2), Scalar(2)>>))>>),
  Map(<<Entry(0, Scalar(2)), Entry(8, Scalar(2))>>)}
NotWholeNestMap == Map(<<Entry(0, Scalar(2)), Entry(4, PairMap(2)),
                         Entry(12, List(<<Scalar(2)>>))>>)
TwiceNamedNestMap == Map(<<Entry(0, Scalar(2)), Entry(4, PairMap(2)),
                           Entry(4, PairMap(2))>>)
=============================================================================
