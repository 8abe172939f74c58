------------------------------ MODULE ScalarStores ------------------------------
(***************************************************************************)
(* What a scalar field should store of the number or the bool it is put.   *)
(***************************************************************************)
EXTENDS PayloadScan

\* The number or bool the text spells, if it is of one token.
OfOneToken == Len(given.text) = 1 /\ given.text[1].kind \in {"name", "number"}
Written ==
  LET token == given.text[1]
  IN  IF token.kind = "number" THEN token.value
      ELSE CASE token.value = "true" -> Numeral("bool", "", FALSE, Unit)
             [] token.value = "false" -> Numeral("bool", "", FALSE, 0)
             [] token.value \in {"inf", "infinity"} -> Numeral("inf", "", FALSE, 0)
             [] token.value = "nan" -> Numeral("nan", "", FALSE, 0)
             [] OTHER -> Numeral("none", "", FALSE, 0)
WrittenInteger ==
  IF Written.sign = "-" THEN -(Written.units \div Unit) ELSE Written.units \div Unit

IsStored == pc = "stored"
IsRefused == pc \in {"malformed", "misfit"}

-----------------------------------------------------------------------------
(* Integers.                                                                 *)

InRange(type, n) ==
  n <= Largest(type) /\ n >= IF type.signed THEN -(type.values \div 2) ELSE 0
Holds(t) ==
  \/ Written.form = "whole" /\ InRange(IntegerTypes[t], WrittenInteger)
  \/ Written.form = "bool" /\ t = "Bool"

\* An integer field holds the very number that was written, whatever the widths
\* it went through on its way, and each that its type holds is taken.
IntegersAreExact ==
  OfOneToken /\ given.type \in DOMAIN IntegerTypes =>
    /\ IsStored => ReadBack(IntegerTypes[given.type], stored) = WrittenInteger
    /\ IsRefused => ~Holds(given.type)

-----------------------------------------------------------------------------
(* Floats.                                                                   *)

Apart(a, b) == IF a > b THEN a - b ELSE b - a
Nearest(format, units) ==
  {h \in Held(format) : \A other \in Held(format) : Apart(h, units) <= Apart(other, units)}
Neighbours(format, units) ==
  {h \in Held(format) :
     ~\E other \in Held(format) : other \in units..(h - 1) \/ other \in (h + 1)..units}

\* Half way from the largest number held to the limit, and past it.
Overflows(format, units) == units >= Limit(format) - LastSpacing(format) \div 2
\* A float is refused where the double nearest what is written is too large.
TooLarge(t) ==
  \/ Overflows(Double, Written.units)
  \/ /\ t = "Float"
     /\ \E h \in Nearest(Double, Written.units) : Overflows(Single, h)

StoresFinite(t) ==
  /\ stored.class = "finite"
  /\ Written.units > 0 => stored.negative = (Written.sign = "-")
  /\ stored.units \in IF t = "Double" THEN Nearest(Double, Written.units)
                                      ELSE Neighbours(Single, Written.units)

\* A double holds the number nearest the one written, a float one of the two it
\* is between; a finite number is never stored as an infinity, and refused only
\* where it is too large or of a hex numeral that no word holds.
FloatsAreNearest ==
  OfOneToken /\ given.type \in {"Float", "Double"} =>
    /\ IsStored =>
         CASE Written.form \in {"whole", "fraction"} -> StoresFinite(given.type)
           [] Written.form = "inf" -> stored = Infinite(Written.sign = "-")
           [] Written.form = "nan" -> stored = NotANumber
           [] OTHER -> FALSE
    /\ IsRefused =>
         \/ Written.form \in {"none", "bool"}
         \/ /\ Written.form \in {"whole", "fraction"}
            /\ \/ TooLarge(given.type)
               \/ /\ Written.hex
                  /\ WrittenInteger > Word - 1 \/ WrittenInteger < -(Word \div 2)
=============================================================================
