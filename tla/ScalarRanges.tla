------------------------------ MODULE ScalarRanges ------------------------------
(***************************************************************************)
(* The numbers of a payload: how takeNumber (PayloadValue.cpp) reads a     *)
(* numeral into a flexbuffer, which types' range the number is in, and     *)
(* what is stored of it.  The widths are constants: an integer is of so    *)
(* many values, a floating type of so many significands at so many scales. *)
(*                                                                         *)
(* What a numeral spells is counted in units, Unit of them to 1.           *)
(***************************************************************************)
EXTENDS Integers

CONSTANTS
  Word,            \* The values of a 64-bit integer.
  Unit,            \* The units of 1.
  IntegerTypes,    \* Each integer type: [signed, values].
  Single, Double,  \* float and double: [significands, spacings].
  Nothing          \* What stands for no value.

ASSUME WordAssumption == Word \in Nat /\ Word > 0 /\ Word % 2 = 0
ASSUME UnitAssumption == Unit \in Nat /\ Unit > 0
\* Every integer type's values are among those of a word.
ASSUME IntegerTypesAssumption ==
  \A t \in DOMAIN IntegerTypes :
    LET type == IntegerTypes[t]
    IN  /\ type.signed \in BOOLEAN
        /\ type.values \in Nat
        /\ type.values > 0 /\ type.values % 2 = 0 /\ type.values <= Word
ASSUME TypeNamesAssumption ==
  /\ "Float" \notin DOMAIN IntegerTypes /\ "Double" \notin DOMAIN IntegerTypes
  /\ "Bool" \in DOMAIN IntegerTypes =>
       IntegerTypes["Bool"] = [signed |-> FALSE, values |-> 2]
FloatType ==
  [class : {"finite", "infinite", "nan"}, negative : BOOLEAN, units : Nat]
ASSUME NothingAssumption ==
  /\ Nothing \notin [kind : {"int", "uint"}, value : Int]
  /\ Nothing \notin [kind : {"bool"}, value : BOOLEAN]
  /\ Nothing \notin [kind : {"double"}, value : FloatType]
  /\ Nothing \notin DOMAIN IntegerTypes

Signs == {"", "+", "-"}
Forms == {"whole", "fraction", "inf", "nan", "none"}  \* "none": without a digit.
NumeralType ==
  {n \in [form : Forms, sign : Signs, hex : BOOLEAN, units : Nat] :
     /\ n.form = "whole" => n.units % Unit = 0
     /\ n.hex => n.form \in {"whole", "none"}}
Numeral(form, sign, hex, units) ==
  [form |-> form, sign |-> sign, hex |-> hex, units |-> units]

-----------------------------------------------------------------------------
(* Floating types.  A magnitude is a multiple of its scale's spacing; one too  *)
(* large for the last scale rounds to infinity.                                *)

LastSpacing(format) ==
  CHOOSE last \in format.spacings : \A s \in format.spacings : s <= last
Limit(format) == format.significands * LastSpacing(format)
Held(format) == {s * c : s \in format.spacings, c \in 0..(format.significands - 1)}

Finite(negative, units) ==
  [class |-> "finite", negative |-> negative, units |-> units]
Infinite(negative) == [class |-> "infinite", negative |-> negative, units |-> 0]
NotANumber == [class |-> "nan", negative |-> FALSE, units |-> 0]

\* The neighbours of a magnitude, of which rounding takes the nearer, or the
\* even one of two as near.
SpacingAt(format, units) ==
  CHOOSE s \in format.spacings :
    /\ units < s * format.significands
    /\ \A finer \in format.spacings : finer < s => units >= finer * format.significands
RoundedUnits(format, units) ==
  LET s == SpacingAt(format, units)
      count == units \div s
      over == 2 * (units % s)
  IN  s * (IF over > s \/ (over = s /\ count % 2 = 1) THEN count + 1 ELSE count)
Round(format, negative, units) ==
  IF units >= Limit(format) \/ RoundedUnits(format, units) >= Limit(format)
    THEN Infinite(negative)
    ELSE Finite(negative, RoundedUnits(format, units))

-----------------------------------------------------------------------------
(* takeNumber.                                                               *)

Integer(n) == [kind |-> "int", value |-> n]
Unsigned(n) == [kind |-> "uint", value |-> n]
Float(f) == [kind |-> "double", value |-> f]
Bool(b) == [kind |-> "bool", value |-> b]

SignedMagnitude == Word \div 2 - 1

\* from_chars reads a whole magnitude into a word, or not at all.
ReadsAsInteger(n) ==
  /\ n.form = "whole"
  /\ n.units \div Unit < Word
  /\ n.sign # "-" \/ n.units \div Unit <= SignedMagnitude + 1
IntegerRead(n) ==
  LET magnitude == n.units \div Unit
  IN  IF n.sign = "-" THEN Integer(-magnitude)
      ELSE IF magnitude > SignedMagnitude THEN Unsigned(magnitude)
      ELSE Integer(magnitude)

\* readDouble: a finite numeral no double holds is not read.
ReadDouble(n) ==
  LET f == Round(Double, n.sign = "-", n.units)
  IN  IF f.class = "finite" THEN Float(f) ELSE Nothing

TakeNumber(n) ==
  CASE n.form = "inf" -> Float(Infinite(n.sign = "-"))
    [] n.form = "nan" -> Float(NotANumber)
    [] n.form = "none" -> Nothing
    [] ReadsAsInteger(n) -> IntegerRead(n)
    [] OTHER -> IF n.hex THEN Nothing ELSE ReadDouble(n)

-----------------------------------------------------------------------------
(* scalarFits and scalarBytes.                                               *)

Largest(type) == IF type.signed THEN type.values \div 2 - 1 ELSE type.values - 1
FitsEitherSide(type, flex) ==                                  \* mutant
  flex.kind \in {"int", "uint"} /\ flex.value <= Largest(type)
IntegerFits(type, flex) ==
  \/ flex.kind = "uint" /\ flex.value <= Largest(type)
  \/ /\ flex.kind = "int"
     /\ IF flex.value < 0 THEN type.signed /\ flex.value >= -(type.values \div 2)
        ELSE flex.value <= Largest(type)

IsInteger(flex) == flex.kind \in {"int", "uint"}

\* kFloatRoundsToInfinity: half way from the largest float to the limit, a tie
\* that rounds to the limit.
FloatRoundsToInfinity == Limit(Single) - LastSpacing(Single) \div 2

\* The significands and the spacings of a format are powers of two, each spacing
\* twice the one before it.
IsFormat(format) ==
  /\ format.significands \in Nat /\ format.significands > 0
  /\ format.significands % 2 = 0
  /\ format.spacings \subseteq Nat \ {0}
  /\ \E last \in format.spacings :
       last % 2 = 0 /\ \A s \in format.spacings : s <= last
  /\ \A finer, s \in format.spacings : finer < s =>
       /\ s % 2 = 0 /\ s \div 2 \in format.spacings
       /\ 2 * finer \in format.spacings /\ s % (2 * finer) = 0

\* A double holds what a float does, and the first number past a word's; and no
\* word's number is too large for a float.
ASSUME FormatAssumption ==
  /\ IsFormat(Single) /\ IsFormat(Double)
  /\ Held(Single) \subseteq Held(Double)
  /\ Word * Unit \in Held(Double) /\ Word * Unit < FloatRoundsToInfinity
FloatFitsAtTheTie(f) ==                                        \* mutant
  f.class = "finite" => f.units <= FloatRoundsToInfinity
FloatFits(f) ==
  f.class = "finite" => f.units < FloatRoundsToInfinity

ScalarFits(t, flex) ==
  CASE t = "Bool" -> flex.kind = "bool" \/ IntegerFits(IntegerTypes[t], flex)
    [] t \in DOMAIN IntegerTypes \ {"Bool"} -> IntegerFits(IntegerTypes[t], flex)
    [] t = "Float" -> IsInteger(flex) \/ (flex.kind = "double" /\ FloatFits(flex.value))
    [] t = "Double" -> IsInteger(flex) \/ flex.kind = "double"
    [] OTHER -> FALSE

\* AsInt8 and its like cut the word to the type's bits.
IntegerBits(type, flex) == flex.value % type.values

\* AsDouble, and AsFloat, which rounds what AsDouble answers.
Magnitude(n) == IF n < 0 THEN -n ELSE n
AsDouble(flex) ==
  IF flex.kind = "double" THEN flex.value
  ELSE Round(Double, flex.value < 0, Magnitude(flex.value) * Unit)
AsFloat(flex) ==
  LET f == AsDouble(flex)
  IN  IF f.class = "finite" THEN Round(Single, f.negative, f.units) ELSE f

ScalarBytes(t, flex) ==
  CASE t = "Float" -> AsFloat(flex)
    [] t = "Double" -> AsDouble(flex)
    [] flex.kind = "bool" -> IF flex.value THEN 1 ELSE 0
    [] OTHER -> IntegerBits(IntegerTypes[t], flex)

-----------------------------------------------------------------------------

\* What a reader of an integer field makes of its bits.
ReadBack(type, bits) ==
  IF type.signed /\ bits >= type.values \div 2 THEN bits - type.values ELSE bits
=============================================================================
