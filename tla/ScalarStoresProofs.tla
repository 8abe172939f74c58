--------------------------- MODULE ScalarStoresProofs ---------------------------
(***************************************************************************)
(* An integer field stores the number it is put and a float field one next *)
(* to it, for words, types and formats of every width: what a text of one  *)
(* number or one bool comes to, and the arithmetic of it.                  *)
(***************************************************************************)
EXTENDS ScalarStores, SequenceTheorems, WellFoundedInduction, TLAPS

USE WordAssumption, UnitAssumption, DepthAssumption

IsIntegerType(type) ==
  /\ type.signed \in BOOLEAN
  /\ type.values \in Nat
  /\ type.values > 0 /\ type.values % 2 = 0 /\ type.values <= Word

LEMMA IntegerTypesAre ==
  ASSUME NEW t \in DOMAIN IntegerTypes
  PROVE  IsIntegerType(IntegerTypes[t])
BY IntegerTypesAssumption DEF IsIntegerType

-----------------------------------------------------------------------------
(* Arithmetic.                                                               *)

\* The bits of a number in its type's range read back as the number.
LEMMA BitsReadBack ==
  ASSUME NEW type, IsIntegerType(type), NEW n \in Int, InRange(type, n)
  PROVE  ReadBack(type, n % type.values) = n
<1> DEFINE m == type.values
<1>1. m \in Nat /\ m > 0 /\ m % 2 = 0 /\ type.signed \in BOOLEAN
  BY DEF IsIntegerType
<1>2. m \div 2 \in Nat /\ 2 * (m \div 2) = m
  BY <1>1
<1>3. CASE n >= 0
  <2>1. n < m /\ (type.signed => n < m \div 2)
    BY <1>1, <1>2 DEF InRange, Largest
  <2>2. n % m = n
    BY <1>1, <1>3, <2>1
  <2> QED BY <1>1, <2>1, <2>2, <1>2 DEF ReadBack
<1>4. CASE n < 0
  <2>1. type.signed /\ n >= -(m \div 2)
    BY <1>1, <1>2, <1>4 DEF InRange
  <2>2. n % m = n + m
    <3>1. n \in -m..-1
      BY <2>1, <1>1, <1>2, <1>4
    <3> HIDE DEF m
    <3> QED BY <3>1, <1>1
  <2> QED BY <1>1, <1>2, <1>4, <2>1, <2>2 DEF ReadBack
<1> QED BY <1>3, <1>4

\* What fits an integer type is a number in its range.
LEMMA WhatFitsIsInRange ==
  ASSUME NEW type, IsIntegerType(type), NEW n \in Int, NEW kind \in {"int", "uint"},
         kind = "uint" => n >= 0
  PROVE  IntegerFits(type, [kind |-> kind, value |-> n]) <=> InRange(type, n)
<1>1. type.values \in Nat /\ type.values > 0 /\ type.values % 2 = 0
  BY DEF IsIntegerType
<1>2. type.values \div 2 \in Nat /\ 2 * (type.values \div 2) = type.values
  BY <1>1
<1>3. type.signed \in BOOLEAN
  BY DEF IsIntegerType
<1>4. Largest(type) \in Nat
  BY <1>1, <1>2, <1>3 DEF Largest
<1> QED BY <1>1, <1>2, <1>3, <1>4 DEF IntegerFits, InRange

\* The number a whole numeral spells.
Spelled(n) == IF n.sign = "-" THEN -(n.units \div Unit) ELSE n.units \div Unit

LEMMA SpelledIsInteger ==
  ASSUME NEW n \in NumeralType
  PROVE  n.units \div Unit \in Nat /\ Spelled(n) \in Int
BY DEF NumeralType, Spelled

\* A numeral read as an integer is read as the one it spells.
LEMMA IntegerReadSpells ==
  ASSUME NEW n \in NumeralType, ReadsAsInteger(n)
  PROVE  \E kind \in {"int", "uint"} :
           /\ kind = "uint" => Spelled(n) >= 0
           /\ IntegerRead(n) = [kind |-> kind, value |-> Spelled(n)]
BY SpelledIsInteger DEF IntegerRead, Integer, Unsigned, Spelled

\* Only such a numeral is read as an integer.
LEMMA IntegersAreRead ==
  ASSUME NEW n \in NumeralType, TakeNumber(n) # Nothing,
         TakeNumber(n).kind \in {"int", "uint"}
  PROVE  ReadsAsInteger(n) /\ TakeNumber(n) = IntegerRead(n)
<1>1. n.form \in Forms
  BY DEF NumeralType
<1>2. CASE n.form \in {"inf", "nan"}
  BY <1>2 DEF TakeNumber, Float, ReadsAsInteger
<1>3. CASE n.form = "none"
  BY <1>3 DEF TakeNumber
<1>4. CASE n.form = "fraction"
  BY <1>4 DEF TakeNumber, ReadsAsInteger, ReadDouble, Float
<1>5. CASE n.form = "whole" /\ ~ReadsAsInteger(n)
  BY <1>5 DEF TakeNumber, ReadDouble, Float
<1>6. CASE n.form = "whole" /\ ReadsAsInteger(n)
  BY <1>6 DEF TakeNumber
<1> QED BY <1>1, <1>2, <1>3, <1>4, <1>5, <1>6 DEF Forms

\* A word holds what an integer type does.
LEMMA InRangeIsRead ==
  ASSUME NEW type, IsIntegerType(type), NEW n \in NumeralType, n.form = "whole",
         InRange(type, Spelled(n))
  PROVE  ReadsAsInteger(n) /\ TakeNumber(n) = IntegerRead(n)
<1>1. /\ type.values \in Nat /\ type.values > 0 /\ type.values % 2 = 0
      /\ type.values <= Word /\ type.signed \in BOOLEAN
  BY DEF IsIntegerType
<1>2. type.values \div 2 \in Nat /\ 2 * (type.values \div 2) = type.values
  BY <1>1
<1>3. Word \div 2 \in Nat /\ 2 * (Word \div 2) = Word
  OBVIOUS
<1>4. n.units \div Unit \in Nat
  BY SpelledIsInteger
<1>5. n.sign # "-" => n.units \div Unit < Word
  BY <1>1, <1>2, <1>4 DEF InRange, Largest, Spelled
<1>6. n.sign = "-" => n.units \div Unit <= Word \div 2
  BY <1>1, <1>2, <1>3, <1>4 DEF InRange, Spelled
<1>7. ReadsAsInteger(n)
  BY <1>3, <1>4, <1>5, <1>6 DEF ReadsAsInteger, SignedMagnitude
<1> QED BY <1>7 DEF TakeNumber

LEMMA IntegerReadIsAValue ==
  ASSUME NEW n \in NumeralType
  PROVE  IntegerRead(n) # Nothing
<1>1. IntegerRead(n) \in [kind : {"int", "uint"}, value : Int]
  BY SpelledIsInteger DEF IntegerRead, Integer, Unsigned
<1> QED BY <1>1, NothingAssumption

-----------------------------------------------------------------------------
(* The scan of a text of one name or number.                                 *)

\* The token, and what takeValue reads it as.
Token == given.text[1]
ReadAs ==
  CASE Token.kind = "number" -> TakeNumber(Token.value)
    [] Token.kind = "name" /\ Token.value \in {"true", "false"} ->
         Bool(Token.value = "true")
    [] Token.kind = "name" /\ Token.value \in {"inf", "infinity", "nan"} ->
         TakeNumber(SpelledNumber(Token.value))
    [] OTHER -> Nothing

IsRead == result = ReadAs /\ ReadAs # Nothing

\* One step reads the token, and another stores it.
IInv ==
  /\ given \in Inputs
  /\ OfOneToken =>
       \/ pc = "value" /\ text = given.text /\ open = << >>
       \/ pc = "malformed" /\ ReadAs = Nothing
       \/ pc = "read" /\ IsRead
       \/ pc = "misfit" /\ IsRead /\ ~ScalarFits(given.type, result)
       \/ /\ pc = "stored" /\ IsRead
          /\ ScalarFits(given.type, result)
          /\ stored = ScalarBytes(given.type, result)

LEMMA NothingToSkip ==
  ASSUME NEW S, NEW s \in Seq(S), Len(s) = 1, s[1].kind \in {"name", "number"}
  PROVE  SkipWhitespace(s) = s
<1> DEFINE blank == {n \in 0..Len(s) : \A i \in 1..n : s[i] \in Whitespace}
<1>1. s[1] \notin Whitespace
  BY DEF Whitespace, Byte, Space
<1>2. blank = {0}
  BY <1>1
<1> DEFINE longest == CHOOSE n \in blank : \A k \in blank : k <= n
<1>3. longest = 0
  BY <1>2
<1>4. SubSeq(s, 1, Len(s)) = s
  BY SubSeqFull
<1>5. SkipWhitespace(s) = SubSeq(s, longest + 1, Len(s))
  BY DEF SkipWhitespace
<1> HIDE DEF longest
<1> QED BY <1>3, <1>4, <1>5

LEMMA TextIsASequence ==
  ASSUME given \in Inputs, OfOneToken
  PROVE  /\ given.text \in Seq({given.text[i] : i \in DOMAIN given.text})
         /\ Token.kind \in {"name", "number"}
         /\ Token.kind = "number" => Token.value \in NumeralType
         /\ Tail(given.text) = << >>
<1>1. given.text \in Seq({given.text[i] : i \in DOMAIN given.text})
  BY InputsAssumption
<1>2. 1 \in DOMAIN given.text
  BY <1>1 DEF OfOneToken
<1>3. Tail(given.text) = << >>
  <2> DEFINE S == {given.text[i] : i \in DOMAIN given.text}
  <2>1. Tail(given.text) \in Seq(S) /\ Len(Tail(given.text)) = 0
    BY <1>1, <1>2, HeadTailProperties DEF OfOneToken
  <2> QED BY <2>1, EmptySeq
<1> QED BY <1>1, <1>2, <1>3, InputsAssumption DEF OfOneToken, Token

LEMMA Begins == Init => IInv
BY DEF Init, IInv

LEMMA TakesTheToken ==
  ASSUME IInv, TakeValue, OfOneToken
  PROVE  IInv'
<1>1. pc = "value" /\ text = given.text /\ open = << >> /\ given \in Inputs
  BY DEF IInv, TakeValue
<1>2. /\ Token.kind \in {"name", "number"}
      /\ Tail(text) = << >>
      /\ SkipWhitespace(text) = text /\ text # << >> /\ text[1] = Token
  BY <1>1, TextIsASequence, NothingToSkip DEF OfOneToken, Token
<1>3. ~TooDeep(Len(open))
  BY <1>1 DEF TooDeep
<1>4. text[1] # OpenBrace /\ text[1] # OpenBracket /\ text[1] \notin Quotes
  BY <1>2 DEF OpenBrace, OpenBracket, Quotes, Byte
<1>5. TakeScalar(text) /\ given' = given
  BY <1>2, <1>3, <1>4 DEF TakeValue
<1>6. \A n : ~RunsOn(n, Tail(text))
  BY <1>2 DEF RunsOn, KindAt, At
<1>7. \/ pc' = "malformed" /\ ReadAs = Nothing
      \/ pc' = "read" /\ result' = ReadAs /\ ReadAs # Nothing
  <2>1. CASE Token.kind = "number"
    BY <2>1, <1>1, <1>2, <1>5, <1>6 DEF TakeScalar, ReadAs, Deliver, Fail
  <2>2. CASE Token.kind = "name" /\ Token.value \in {"true", "false"}
    <3>1. ReadAs = Bool(Token.value = "true")
      BY <2>2 DEF ReadAs
    <3>2. ReadAs \in [kind : {"bool"}, value : BOOLEAN]
      BY <3>1 DEF Bool
    <3>3. ReadAs # Nothing
      BY <3>2, NothingAssumption
    <3> QED BY <3>1, <3>3, <2>2, <1>1, <1>2, <1>5 DEF TakeScalar, Deliver
  <2>3. CASE Token.kind = "name" /\ Token.value \notin {"true", "false"}
    BY <2>3, <1>1, <1>2, <1>5, <1>6 DEF TakeScalar, ReadAs, Deliver, Fail
  <2> QED BY <2>1, <2>2, <2>3, <1>2
<1> QED BY <1>1, <1>5, <1>7 DEF IInv, OfOneToken, IsRead, ReadAs, Token

LEMMA StoresWhatFits ==
  ASSUME IInv, StoreScalar, OfOneToken
  PROVE  IInv'
<1>1. pc = "read" /\ IsRead /\ given \in Inputs
  BY DEF IInv, StoreScalar
<1>2. given' = given /\ result' = result
  BY DEF StoreScalar
<1>3. \/ pc' = "misfit" /\ ~ScalarFits(given.type, result)
      \/ /\ pc' = "stored" /\ ScalarFits(given.type, result)
         /\ stored' = ScalarBytes(given.type, result)
  BY DEF StoreScalar
<1> QED BY <1>1, <1>2, <1>3 DEF IInv, OfOneToken, IsRead, ReadAs, Token

LEMMA Preserves == IInv /\ [Next]_vars => IInv'
<1> SUFFICES ASSUME IInv, [Next]_vars PROVE IInv'
  OBVIOUS
<1>1. CASE TakeValue
  <2>1. CASE OfOneToken
    BY <1>1, <2>1, TakesTheToken
  <2>2. CASE ~OfOneToken
    BY <1>1, <2>2 DEF IInv, TakeValue, OfOneToken
  <2> QED BY <2>1, <2>2
<1>2. CASE TakeItem
  BY <1>2 DEF IInv, TakeItem, OfOneToken
<1>3. CASE TakeSeparator
  BY <1>3 DEF IInv, TakeSeparator, OfOneToken
<1>4. CASE TakeCharacter
  BY <1>4 DEF IInv, TakeCharacter, OfOneToken
<1>5. CASE StoreScalar
  <2>1. CASE OfOneToken
    BY <1>5, <2>1, StoresWhatFits
  <2>2. CASE ~OfOneToken
    BY <1>5, <2>2 DEF IInv, StoreScalar, OfOneToken
  <2> QED BY <2>1, <2>2
<1>6. CASE UNCHANGED vars
  BY <1>6 DEF IInv, vars, OfOneToken, IsRead, ReadAs, Token
<1> QED BY <1>1, <1>2, <1>3, <1>4, <1>5, <1>6 DEF Next

-----------------------------------------------------------------------------
(* What an integer field stores.                                             *)

\* A number written whole, and what becomes of it.
LEMMA WholeNumbersAreStored ==
  ASSUME NEW t \in DOMAIN IntegerTypes, NEW n \in NumeralType,
         TakeNumber(n) # Nothing, TakeNumber(n).kind # "bool",
         ScalarFits(t, TakeNumber(n))
  PROVE  ReadBack(IntegerTypes[t], ScalarBytes(t, TakeNumber(n))) = Spelled(n)
<1> DEFINE flex == TakeNumber(n)
<1>1. IsIntegerType(IntegerTypes[t]) /\ t # "Float" /\ t # "Double"
  BY IntegerTypesAre, TypeNamesAssumption
<1>2. IntegerFits(IntegerTypes[t], flex)
  BY <1>1 DEF ScalarFits
<1>3. flex = IntegerRead(n) /\ ReadsAsInteger(n)
  BY <1>2, IntegersAreRead DEF IntegerFits
<1>4. PICK kind \in {"int", "uint"} :
        /\ kind = "uint" => Spelled(n) >= 0
        /\ flex = [kind |-> kind, value |-> Spelled(n)]
  BY <1>3, IntegerReadSpells
<1>5. Spelled(n) \in Int
  BY SpelledIsInteger
<1>6. InRange(IntegerTypes[t], Spelled(n))
  BY <1>1, <1>2, <1>4, <1>5, WhatFitsIsInRange
<1>7. ScalarBytes(t, flex) = Spelled(n) % IntegerTypes[t].values
  BY <1>1, <1>4 DEF ScalarBytes, IntegerBits
<1> QED BY <1>1, <1>5, <1>6, <1>7, BitsReadBack

LEMMA WholeNumbersFit ==
  ASSUME NEW t \in DOMAIN IntegerTypes, NEW n \in NumeralType, n.form = "whole",
         InRange(IntegerTypes[t], Spelled(n))
  PROVE  TakeNumber(n) # Nothing /\ ScalarFits(t, TakeNumber(n))
<1>1. IsIntegerType(IntegerTypes[t]) /\ t # "Float" /\ t # "Double"
  BY IntegerTypesAre, TypeNamesAssumption
<1>2. TakeNumber(n) = IntegerRead(n) /\ ReadsAsInteger(n)
  BY <1>1, InRangeIsRead
<1>3. PICK kind \in {"int", "uint"} :
        /\ kind = "uint" => Spelled(n) >= 0
        /\ IntegerRead(n) = [kind |-> kind, value |-> Spelled(n)]
  BY <1>2, IntegerReadSpells
<1>4. IntegerFits(IntegerTypes[t], IntegerRead(n))
  BY <1>1, <1>3, SpelledIsInteger, WhatFitsIsInRange
<1>5. ScalarFits(t, IntegerRead(n))
  BY <1>1, <1>4 DEF ScalarFits
<1> QED BY <1>2, <1>5, IntegerReadIsAValue

LEMMA NumbersAreNoBools ==
  ASSUME NEW n \in NumeralType, TakeNumber(n) # Nothing
  PROVE  TakeNumber(n).kind # "bool"
<1>1. n.form \in Forms
  BY DEF NumeralType
<1>2. CASE n.form \in {"inf", "nan", "none"}
  <2>1. CASE n.form = "inf"
    BY <2>1 DEF TakeNumber, Float, ReadsAsInteger
  <2>2. CASE n.form = "nan"
    BY <2>2 DEF TakeNumber, Float, ReadsAsInteger
  <2>3. CASE n.form = "none"
    BY <2>3 DEF TakeNumber, ReadsAsInteger
  <2> QED BY <1>2, <2>1, <2>2, <2>3
<1>3. CASE n.form \in {"whole", "fraction"} /\ ReadsAsInteger(n)
  BY <1>3 DEF TakeNumber, IntegerRead, Integer, Unsigned
<1>4. CASE n.form \in {"whole", "fraction"} /\ ~ReadsAsInteger(n)
  BY <1>4 DEF TakeNumber, ReadDouble, Float
<1> QED BY <1>1, <1>2, <1>3, <1>4 DEF Forms

LEMMA WrittenNumber ==
  ASSUME Token.kind = "number"
  PROVE  Written = Token.value /\ WrittenInteger = Spelled(Token.value)
BY DEF Written, WrittenInteger, Spelled, Token

\* What is stored reads back as it is written.
LEMMA StoredIsExact ==
  ASSUME IInv, OfOneToken, given.type \in DOMAIN IntegerTypes, IsStored
  PROVE  ReadBack(IntegerTypes[given.type], stored) = WrittenInteger
<1> DEFINE t == given.type
<1>1. /\ given \in Inputs
      /\ result = ReadAs /\ ReadAs # Nothing
      /\ ScalarFits(t, result) /\ stored = ScalarBytes(t, result)
  BY DEF IInv, IsStored, IsRead
<1>2. t # "Float" /\ t # "Double"
  BY TypeNamesAssumption
<1>3. /\ Token.kind \in {"name", "number"}
      /\ Token.kind = "number" => Token.value \in NumeralType
  BY <1>1, TextIsASequence
<1>4. CASE Token.kind = "number"
  <2>1. ReadAs = TakeNumber(Token.value)
    BY <1>4 DEF ReadAs
  <2> QED BY <1>1, <1>3, <1>4, <2>1, NumbersAreNoBools, WholeNumbersAreStored, WrittenNumber
<1>5. CASE Token.kind = "name" /\ Token.value \in {"true", "false"}
  <2>1. ReadAs = Bool(Token.value = "true")
    BY <1>5 DEF ReadAs
  <2>2. t = "Bool"
    BY <1>1, <1>2, <2>1 DEF ScalarFits, IntegerFits, Bool
  <2>3. stored = IF Token.value = "true" THEN 1 ELSE 0
    BY <1>1, <2>1, <2>2 DEF ScalarBytes, Bool
  <2>4. IntegerTypes[t] = [signed |-> FALSE, values |-> 2]
    BY <2>2, TypeNamesAssumption
  <2>5. ReadBack(IntegerTypes[t], stored) = stored
    BY <2>4 DEF ReadBack
  <2>6. Unit \div Unit = 1 /\ 0 \div Unit = 0
    OBVIOUS
  <2>7. Written = Numeral("bool", "", FALSE, IF Token.value = "true" THEN Unit ELSE 0)
    BY <1>5 DEF Written, Token
  <2>8. WrittenInteger = IF Token.value = "true" THEN 1 ELSE 0
    BY <2>6, <2>7 DEF WrittenInteger, Numeral
  <2> QED BY <2>3, <2>5, <2>8
<1>6. CASE Token.kind = "name" /\ Token.value \in {"inf", "infinity", "nan"}
  <2>1. ReadAs = TakeNumber(SpelledNumber(Token.value))
    BY <1>6 DEF ReadAs
  <2> DEFINE n == SpelledNumber(Token.value)
  <2>2. n.form \in {"inf", "nan"}
    BY <1>6 DEF SpelledNumber, Numeral
  <2>3. TakeNumber(n).kind = "double"
    <3>1. CASE n.form = "inf"
      BY <3>1 DEF TakeNumber, Float, ReadsAsInteger
    <3>2. CASE n.form = "nan"
      BY <3>2 DEF TakeNumber, Float, ReadsAsInteger
    <3> QED BY <2>2, <3>1, <3>2
  <2>4. ~ScalarFits(t, ReadAs)
    BY <1>2, <2>1, <2>3 DEF ScalarFits, IntegerFits
  <2> QED BY <1>1, <2>4
<1>7. CASE Token.kind = "name"
           /\ Token.value \notin {"true", "false", "inf", "infinity", "nan"}
  BY <1>1, <1>7 DEF ReadAs
<1> QED BY <1>3, <1>4, <1>5, <1>6, <1>7

\* What the type holds is not refused.
LEMMA HeldIsTaken ==
  ASSUME IInv, OfOneToken, given.type \in DOMAIN IntegerTypes, IsRefused
  PROVE  ~Holds(given.type)
<1> DEFINE t == given.type
<1>1. /\ given \in Inputs
      /\ ReadAs = Nothing \/ ~ScalarFits(t, ReadAs)
  BY DEF IInv, IsRefused, IsRead
<1>2. /\ Token.kind \in {"name", "number"}
      /\ Token.kind = "number" => Token.value \in NumeralType
  BY <1>1, TextIsASequence
<1>3. CASE Token.kind = "number"
  <2>1. ReadAs = TakeNumber(Token.value)
    BY <1>3 DEF ReadAs
  <2>2. Token.value.form # "bool"
    BY <1>2, <1>3 DEF NumeralType, Forms
  <2> QED BY <1>1, <1>2, <1>3, <2>1, <2>2, WholeNumbersFit, WrittenNumber DEF Holds
<1>4. CASE Token.kind = "name" /\ Token.value \in {"true", "false"}
  <2>1. ReadAs = Bool(Token.value = "true")
    BY <1>4 DEF ReadAs
  <2>2. ReadAs \in [kind : {"bool"}, value : BOOLEAN] /\ ReadAs.kind = "bool"
    BY <2>1 DEF Bool
  <2>3. ReadAs # Nothing
    BY <2>2, NothingAssumption
  <2>4. t # "Bool"
    BY <1>1, <2>2, <2>3 DEF ScalarFits
  <2>5. Written.form = "bool"
    BY <1>4 DEF Written, Numeral, Token
  <2> QED BY <2>4, <2>5 DEF Holds
<1>5. CASE Token.kind = "name" /\ Token.value \notin {"true", "false"}
  <2>1. Written.form \in {"inf", "nan", "none"}
    BY <1>5 DEF Written, Numeral, Token
  <2> QED BY <2>1 DEF Holds
<1> QED BY <1>2, <1>3, <1>4, <1>5

LEMMA StoresExactly == IInv => IntegersAreExact
BY StoredIsExact, HeldIsTaken DEF IntegersAreExact

-----------------------------------------------------------------------------
(* Rounding.                                                                  *)

\* A set of natural numbers that is not empty has a least element.
LEMMA LeastElement ==
  ASSUME NEW S, S \subseteq Nat, S # {}
  PROVE  \E least \in S : \A n \in S : least <= n
<1> DEFINE below == OpToRel(<, Nat)
<1>1. IsWellFoundedOn(below, Nat)
  BY NatLessThanWellFounded
<1>2. \A m, n \in Nat : m < n => <<m, n>> \in below
  BY DEF OpToRel
<1> HIDE DEF below
<1>3. PICK least \in S : \A n \in S : <<n, least>> \notin below
  BY <1>1, WFMin
<1>4. \A n \in S : ~(n < least)
  BY <1>2, <1>3
<1> QED BY <1>4

\* The last spacing of a format, and what is below it.
LEMMA LastSpacingIs ==
  ASSUME NEW format, IsFormat(format)
  PROVE  /\ LastSpacing(format) \in format.spacings
         /\ LastSpacing(format) \in Nat /\ LastSpacing(format) > 0
         /\ LastSpacing(format) % 2 = 0
         /\ \A s \in format.spacings : s <= LastSpacing(format)
<1>1. PICK last \in format.spacings :
        last % 2 = 0 /\ \A s \in format.spacings : s <= last
  BY DEF IsFormat
<1>2. format.spacings \subseteq Nat \ {0}
  BY DEF IsFormat
<1>3. \A other \in format.spacings :
        (\A s \in format.spacings : s <= other) => other = last
  BY <1>1, <1>2
<1>4. LastSpacing(format) = last
  BY <1>1, <1>3 DEF LastSpacing
<1> QED BY <1>1, <1>2, <1>4

\* The spacing of a magnitude below the limit is the finest that spans it.
LEMMA SpacingIsFinest ==
  ASSUME NEW format, IsFormat(format), NEW u \in Nat, u < Limit(format)
  PROVE  LET s == SpacingAt(format, u)
         IN  /\ s \in format.spacings
             /\ u < s * format.significands
             /\ \A finer \in format.spacings :
                  finer < s => u >= finer * format.significands
<1> DEFINE spans == {s \in format.spacings : u < s * format.significands}
<1>1. format.spacings \subseteq Nat \ {0} /\ format.significands \in Nat
  BY DEF IsFormat
<1>2. LastSpacing(format) \in spans
  BY <1>1, LastSpacingIs DEF Limit
<1>3. PICK s \in spans : \A other \in spans : s <= other
  BY <1>1, <1>2, LeastElement
<1>4. \A finer \in format.spacings : finer < s => u >= finer * format.significands
  BY <1>1, <1>3
<1> QED BY <1>3, <1>4 DEF SpacingAt

\* Multiples of a positive number are apart by it.
LEMMA Multiples ==
  ASSUME NEW s \in Nat, s > 0, NEW a \in Int, NEW b \in Int
  PROVE  /\ a <= b <=> s * a <= s * b
         /\ a < b <=> s * a + s <= s * b
         /\ s * (a + 1) = s * a + s
OBVIOUS

\* Between two multiples of a spacing that follow one another, from the one at
\* which it is the finest, there is nothing a format holds.
LEMMA NothingHeldBetween ==
  ASSUME NEW format, IsFormat(format), NEW s \in format.spacings,
         NEW count \in Nat,
         \A finer \in format.spacings :
           finer < s => s * count + s > finer * format.significands,
         NEW h \in Held(format)
  PROVE  h \in Nat /\ (h <= s * count \/ h >= s * count + s)
<1> DEFINE n == format.significands
<1>1. /\ n \in Nat /\ n > 0 /\ n % 2 = 0 /\ s \in Nat /\ s > 0
      /\ format.spacings \subseteq Nat \ {0}
  BY DEF IsFormat
<1>2. PICK t \in format.spacings, c \in 0..(n - 1) : h = t * c
  BY DEF Held
<1>3. t \in Nat /\ t > 0 /\ c \in Nat /\ c < n
  BY <1>1
<1>4. h \in Nat
  BY <1>2, <1>3
<1>5. CASE t >= s
  <2>1. \E k \in Int : t = s * k
    <3>1. CASE t = s
      <4>1. t = s * 1
        BY <3>1, <1>1
      <4> QED BY <4>1
    <3>2. CASE s < t
      <4>1. t % (2 * s) = 0
        BY <3>2 DEF IsFormat
      <4>2. t = (2 * s) * (t \div (2 * s)) /\ t \div (2 * s) \in Int
        BY <4>1, <1>1, <1>3
      <4> DEFINE k == t \div (2 * s)
      <4>3. t = s * (2 * k) /\ 2 * k \in Int
        BY <4>2, <1>1
      <4> HIDE DEF k
      <4> QED BY <4>3
    <3>3. t = s \/ s < t
      BY <1>5, <1>1, <1>3
    <3> QED BY <3>1, <3>2, <3>3
  <2>2. PICK k \in Int : t = s * k
    BY <2>1
  <2>3. h = s * (k * c) /\ k * c \in Int
    BY <2>2, <1>2, <1>3, <1>1
  <2> DEFINE m == k * c
  <2> HIDE DEF m
  <2>4. h = s * m /\ m \in Int
    BY <2>3 DEF m
  <2>5. m <= count \/ m >= count + 1
    BY <2>4
  <2> QED BY <1>1, <1>4, <2>4, <2>5, Multiples
<1>6. CASE t < s
  <2>1. /\ s % 2 = 0 /\ s \div 2 \in format.spacings
        /\ 2 * t \in format.spacings /\ s % (2 * t) = 0
    BY <1>6 DEF IsFormat
  <2> DEFINE half == s \div 2
  <2>2. half \in Nat /\ half > 0 /\ s = 2 * half /\ half < s
    BY <2>1, <1>1
  <2>3. t <= half
    <3>1. s = (2 * t) * (s \div (2 * t)) /\ s \div (2 * t) \in Int
      BY <2>1, <1>1, <1>3
    <3> DEFINE k == s \div (2 * t)
    <3> HIDE DEF k
    <3>2. s = 2 * (t * k) /\ k \in Int
      BY <3>1, <1>3 DEF k
    <3>3. k >= 1
      BY <3>2, <1>1, <1>3
    <3>4. t * 1 <= t * k
      BY <3>2, <3>3, <1>3, Multiples
    <3> QED BY <3>2, <3>4, <2>2, <1>3
  <2>4. s * count + s > half * n
    BY <2>1, <2>2
  <2> DEFINE m == n \div 2
  <2>5. m \in Nat /\ n = 2 * m
    BY <1>1
  <2>6. half * n = s * m
    BY <2>2, <2>5
  <2> HIDE DEF half, m
  <2>7. m <= count
    BY <2>4, <2>5, <2>6, <1>1, Multiples
  <2>8. s * m <= s * count
    BY <2>5, <2>7, <1>1, Multiples
  <2>9. h <= half * n
    <3>1. h <= half * c
      BY <1>2, <1>3, <2>2, <2>3
    <3>2. half * c <= half * n
      BY <1>1, <1>3, <2>2, Multiples
    <3> QED BY <3>1, <3>2, <1>3, <1>1, <2>2, <1>4
  <2> QED BY <1>4, <2>6, <2>8, <2>9, <1>1, <2>5
<1> QED BY <1>1, <1>3, <1>4, <1>5, <1>6

\* The two numbers that a magnitude below the limit is between: the one below it
\* is held, and the one above it is, or is the limit.
LEMMA Brackets ==
  ASSUME NEW format, IsFormat(format), NEW u \in Nat, u < Limit(format)
  PROVE  LET s == SpacingAt(format, u)
             count == u \div s
             lower == s * count
         IN  /\ s \in Nat /\ s > 0 /\ count \in Nat
             /\ u % s \in Nat /\ u = lower + (u % s) /\ u % s < s
             /\ lower \in Held(format)
             /\ \/ lower + s \in Held(format)
                \/ /\ lower + s = Limit(format)
                   /\ s = LastSpacing(format) /\ count % 2 = 1
             /\ \A h \in Held(format) : h <= lower \/ h >= lower + s
<1> DEFINE s == SpacingAt(format, u)
           count == u \div s
           n == format.significands
           last == LastSpacing(format)
<1>1. /\ s \in format.spacings /\ u < s * n
      /\ \A finer \in format.spacings : finer < s => u >= finer * n
  BY SpacingIsFinest
<1>2. /\ n \in Nat /\ n > 0 /\ n % 2 = 0 /\ s \in Nat /\ s > 0
      /\ format.spacings \subseteq Nat \ {0}
  BY <1>1 DEF IsFormat
<1>3. last \in format.spacings /\ s <= last /\ last \in Nat
  BY <1>1, LastSpacingIs
<1> HIDE DEF s, n, last
<1>4. /\ count \in Nat /\ u % s \in Nat
      /\ u = s * count + (u % s) /\ u % s < s
  BY <1>2
<1> HIDE DEF count
<1>5. s * count < s * n
  BY <1>1, <1>2, <1>4
<1>6. count < n
  BY <1>2, <1>4, <1>5, Multiples
<1>7. s * count \in Held(format)
  BY <1>1, <1>2, <1>4, <1>6 DEF Held, n
<1>8. s * (count + 1) = s * count + s
  BY <1>2, <1>4
<1>9. \/ s * count + s \in Held(format)
      \/ s * count + s = Limit(format) /\ s = last /\ count % 2 = 1
  <2>1. CASE count + 1 < n
    BY <2>1, <1>1, <1>2, <1>4, <1>8 DEF Held, n
  <2>2. CASE count + 1 = n /\ s = last
    <3>1. s * count + s = Limit(format)
      BY <2>2, <1>2, <1>3, <1>8 DEF Limit, n, last
    <3>2. count % 2 = 1
      <4>1. n \in Int /\ count = n - 1 /\ n % 2 = 0
        BY <2>2, <1>2, <1>4
      <4> QED BY <4>1
    <3> QED BY <2>2, <3>1, <3>2
  <2>3. CASE count + 1 = n /\ s < last
    <3>1. 2 * s \in format.spacings
      BY <2>3, <1>1, <1>3 DEF IsFormat
    <3> DEFINE half == n \div 2
    <3>2. half \in Nat /\ n = 2 * half /\ half < n
      BY <1>2
    <3> HIDE DEF half
    <3>3. s * count + s = (2 * s) * half
      BY <2>3, <3>2, <1>2, <1>8
    <3>4. half \in 0..(n - 1)
      BY <3>2, <1>2
    <3> QED BY <3>1, <3>3, <3>4 DEF Held, n
  <2> QED BY <2>1, <2>2, <2>3, <1>2, <1>3, <1>4, <1>6
<1>10. \A h \in Held(format) : h <= s * count \/ h >= s * count + s
  <2>1. \A finer \in format.spacings :
          finer < s => s * count + s > finer * n
    <3> SUFFICES ASSUME NEW finer \in format.spacings, finer < s
                 PROVE  s * count + s > finer * n
      OBVIOUS
    <3>1. finer \in Nat /\ finer * n \in Nat /\ s * count \in Nat
      BY <1>2, <1>4
    <3>2. u >= finer * n
      BY <1>1
    <3> QED BY <3>1, <3>2, <1>2, <1>4
  <2> QED BY <2>1, <1>1, <1>4, NothingHeldBetween DEF n
<1> QED BY <1>2, <1>4, <1>7, <1>9, <1>10 DEF s, count, last

\* No number held is past the one before the limit.
LEMMA HeldIsBelow ==
  ASSUME NEW format, IsFormat(format), NEW h \in Held(format)
  PROVE  h \in Nat /\ h <= Limit(format) - LastSpacing(format)
<1> DEFINE n == format.significands
           last == LastSpacing(format)
<1>1. n \in Nat /\ n > 0 /\ format.spacings \subseteq Nat \ {0}
  BY DEF IsFormat
<1>2. PICK s \in format.spacings, c \in 0..(n - 1) : h = s * c
  BY DEF Held
<1>3. s \in Nat /\ s > 0 /\ c \in Nat /\ s <= last /\ last \in Nat
  BY <1>1, LastSpacingIs
<1> HIDE DEF n, last
<1>4. s * c \in Nat /\ s * c <= last * c
  BY <1>3
<1>5. last * c <= last * (n - 1)
  BY <1>1, <1>2, <1>3, Multiples
<1>6. last * (n - 1) = n * last - last
  BY <1>1, <1>3
<1>7. last * c \in Nat /\ n * last \in Nat
  BY <1>1, <1>3
<1> QED BY <1>2, <1>3, <1>4, <1>5, <1>6, <1>7 DEF Limit, n, last

\* What is rounded to is the nearest number held, or the limit, to which just
\* what is half way there is rounded.
LEMMA RoundedIsNearest ==
  ASSUME NEW format, IsFormat(format), NEW u \in Nat, u < Limit(format)
  PROVE  /\ RoundedUnits(format, u) < Limit(format) =>
              RoundedUnits(format, u) \in Nearest(format, u)
         /\ RoundedUnits(format, u) >= Limit(format) <=> Overflows(format, u)
<1> DEFINE s == SpacingAt(format, u)
           count == u \div s
           part == u % s
           lower == s * count
           last == LastSpacing(format)
           limit == Limit(format)
           up == 2 * part > s \/ (2 * part = s /\ count % 2 = 1)
           r == RoundedUnits(format, u)
<1>1. /\ s \in Nat /\ s > 0 /\ count \in Nat /\ part \in Nat
      /\ u = lower + part /\ part < s
      /\ lower \in Held(format)
      /\ \/ lower + s \in Held(format)
         \/ lower + s = limit /\ s = last /\ count % 2 = 1
      /\ \A h \in Held(format) : h <= lower \/ h >= lower + s
  BY Brackets
<1>2. /\ last \in Nat /\ last > 0 /\ last % 2 = 0
      /\ last = 2 * (last \div 2) /\ last \div 2 \in Nat
  BY LastSpacingIs
<1>3. \A h \in Held(format) : h \in Nat /\ h <= limit - last
  BY HeldIsBelow
<1>4. limit \in Nat
  BY <1>2 DEF IsFormat, Limit
<1>5. r = IF up THEN lower + s ELSE lower
  <2>1. r = s * (IF up THEN count + 1 ELSE count)
    BY DEF RoundedUnits
  <2> HIDE DEF r, up, s, count, part
  <2>2. s * (count + 1) = s * count + s
    BY <1>1
  <2> QED BY <2>1, <2>2
<1> HIDE DEF r, part, last, limit, s, lower, count
<1>6. Overflows(format, u) <=> u >= limit - last \div 2
  BY DEF Overflows, limit, last
<1>7. r \in Nat /\ lower \in Nat
  BY <1>1, <1>3, <1>5
<1>8. ASSUME r < limit PROVE r \in Nearest(format, u)
  <2>1. r \in Held(format)
    BY <1>1, <1>4, <1>5, <1>8
  <2>2. ASSUME NEW other \in Held(format) PROVE Apart(r, u) <= Apart(other, u)
    <3>1. other \in Nat /\ (other <= lower \/ other >= lower + s)
      BY <1>1, <1>3
    <3> QED BY <3>1, <1>1, <1>5, <1>7 DEF Apart
  <2> QED BY <2>1, <2>2 DEF Nearest
<1>9. CASE lower + s \in Held(format)
  <2>1. lower + s <= limit - last
    BY <1>9, <1>3
  <2>2. r < limit
    BY <2>1, <1>1, <1>2, <1>4, <1>5, <1>7
  <2>3. u < limit - last \div 2
    BY <2>1, <1>1, <1>2, <1>4, <1>7
  <2> QED BY <2>2, <2>3, <1>2, <1>4, <1>6, <1>7, <1>8 DEF r, limit
<1>10. CASE lower + s = limit /\ s = last /\ count % 2 = 1
  <2>1. up <=> u >= limit - last \div 2
    BY <1>10, <1>1, <1>2, <1>4, <1>7
  <2>2. up <=> r >= limit
    BY <1>10, <1>1, <1>2, <1>4, <1>5, <1>7
  <2> QED BY <2>1, <2>2, <1>6, <1>8 DEF r, limit
<1> QED BY <1>1, <1>9, <1>10

\* A magnitude is rounded to the nearest number held, or to infinity where it is
\* half way from the largest to the limit, and past it.
LEMMA RoundIs ==
  ASSUME NEW format, IsFormat(format), NEW u \in Nat, NEW negative
  PROVE  /\ Overflows(format, u) => Round(format, negative, u) = Infinite(negative)
         /\ ~Overflows(format, u) =>
              \E h \in Nearest(format, u) :
                Round(format, negative, u) = Finite(negative, h)
<1>1. Limit(format) \in Nat /\ LastSpacing(format) \div 2 \in Nat
  BY LastSpacingIs DEF IsFormat, Limit
<1>2. CASE u >= Limit(format)
  BY <1>1, <1>2 DEF Overflows, Round
<1>3. CASE u < Limit(format)
  <2>1. CASE Overflows(format, u)
    BY <2>1, <1>3, RoundedIsNearest DEF Round
  <2>2. CASE ~Overflows(format, u)
    <3>1. ~(RoundedUnits(format, u) >= Limit(format))
      BY <2>2, <1>3, RoundedIsNearest
    <3>2. RoundedUnits(format, u) \in Int
      <4> DEFINE s == SpacingAt(format, u)
      <4>1. s \in Nat /\ s > 0 /\ u \div s \in Nat
        BY <1>3, Brackets
      <4> HIDE DEF s
      <4>2. s * (u \div s) \in Int /\ s * (u \div s + 1) \in Int
        BY <4>1
      <4> QED BY <4>2 DEF RoundedUnits, s
    <3>3. RoundedUnits(format, u) < Limit(format)
      BY <1>1, <3>1, <3>2
    <3>4. RoundedUnits(format, u) \in Nearest(format, u)
      BY <3>3, <1>3, RoundedIsNearest
    <3>5. Round(format, negative, u) = Finite(negative, RoundedUnits(format, u))
      BY <3>1, <1>1, <1>3 DEF Round
    <3> QED BY <2>2, <3>4, <3>5
  <2> QED BY <2>1, <2>2
<1> QED BY <1>1, <1>2, <1>3

LEMMA NearestIsHeld ==
  ASSUME NEW format, IsFormat(format), NEW u \in Nat, NEW h \in Nearest(format, u)
  PROVE  h \in Held(format) /\ h \in Nat
BY HeldIsBelow DEF Nearest

\* A number that is rounded to a double and then to a float comes to a float
\* there is no other between it and.
LEMMA RoundedTwice ==
  ASSUME NEW u \in Nat, NEW h \in Nearest(Double, u), NEW r \in Nearest(Single, h)
  PROVE  r \in Neighbours(Single, u)
<1>1. IsFormat(Single) /\ IsFormat(Double) /\ Held(Single) \subseteq Held(Double)
  BY FormatAssumption
<1>2. h \in Held(Double) /\ h \in Nat
  BY <1>1, NearestIsHeld
<1>3. r \in Held(Single) /\ r \in Nat
  BY <1>1, <1>2, NearestIsHeld
<1>4. SUFFICES ASSUME NEW other \in Held(Single),
                      other \in u..(r - 1) \/ other \in (r + 1)..u
               PROVE  FALSE
  BY <1>3 DEF Neighbours
<1>5. other \in Held(Double) /\ other \in Nat
  BY <1>1, HeldIsBelow
<1>6. Apart(h, u) <= Apart(other, u)
  BY <1>5 DEF Nearest
<1>7. Apart(r, h) <= Apart(other, h)
  BY <1>4 DEF Nearest
<1> QED BY <1>2, <1>3, <1>4, <1>5, <1>6, <1>7 DEF Apart

-----------------------------------------------------------------------------
(* What a float field stores.                                                *)

\* An infinity, a number's neighbour and what is not a number are values.
LEMMA FloatsAreValues ==
  ASSUME NEW negative \in BOOLEAN, NEW h \in Nat
  PROVE  /\ Float(Finite(negative, h)) # Nothing
         /\ Float(Infinite(negative)) # Nothing
         /\ Float(NotANumber) # Nothing
<1>1. \A f \in FloatType : Float(f) # Nothing
  BY NothingAssumption DEF Float
<1>2. /\ Finite(negative, h) \in FloatType /\ Infinite(negative) \in FloatType
      /\ NotANumber \in FloatType
  BY DEF FloatType, Finite, Infinite, NotANumber
<1> QED BY <1>1, <1>2

\* What a numeral of digits is read as, taken for a double, is the nearest one.
DoubleNearest(n, flex) ==
  \E h \in Nearest(Double, n.units), negative \in BOOLEAN :
    /\ AsDouble(flex) = Finite(negative, h)
    /\ n.units > 0 => negative = (n.sign = "-")
    /\ IsInteger(flex) => h < FloatRoundsToInfinity
    /\ ~IsInteger(flex) => flex.kind = "double" /\ flex.value = Finite(negative, h)

\* A word's number is read whole, and is too large for no format.
LEMMA IntegersAreRounded ==
  ASSUME NEW n \in NumeralType, ReadsAsInteger(n)
  PROVE  DoubleNearest(n, IntegerRead(n))
<1> DEFINE flex == IntegerRead(n)
           magnitude == n.units \div Unit
           past == Word * Unit
<1>1. magnitude \in Nat /\ n.units = magnitude * Unit /\ n.units \in Nat
  BY DEF NumeralType, ReadsAsInteger
<1>2. flex.kind \in {"int", "uint"} /\ flex.value = Spelled(n) /\ Spelled(n) \in Int
  BY IntegerReadSpells, SpelledIsInteger
<1>3. Magnitude(flex.value) = magnitude
  BY <1>1, <1>2 DEF Magnitude, Spelled
<1>4. n.units > 0 => (flex.value < 0) = (n.sign = "-")
  BY <1>1, <1>2 DEF Spelled
<1>5. magnitude < Word
  <2>1. Word \div 2 \in Nat /\ Word \div 2 < Word
    OBVIOUS
  <2> QED BY <2>1 DEF ReadsAsInteger
<1> HIDE DEF flex, magnitude, past
<1>6. /\ IsFormat(Double) /\ past \in Held(Double) /\ past < FloatRoundsToInfinity
  BY FormatAssumption DEF past
<1>7. n.units < past /\ past \in Nat
  <2>1. Unit * (magnitude + 1) <= Unit * Word
    BY <1>1, <1>5, Multiples
  <2>2. Unit * (magnitude + 1) = magnitude * Unit + Unit /\ Unit * Word = past
    BY <1>1 DEF past
  <2> QED BY <1>1, <2>1, <2>2, <1>6, HeldIsBelow
<1>8. ~Overflows(Double, n.units)
  <2>1. past <= Limit(Double) - LastSpacing(Double)
    BY <1>6, HeldIsBelow
  <2>2. LastSpacing(Double) \in Nat /\ LastSpacing(Double) \div 2 < LastSpacing(Double)
        /\ LastSpacing(Double) \div 2 \in Nat
    BY <1>6, LastSpacingIs
  <2>3. Limit(Double) \in Nat
    BY <1>6, <2>2 DEF IsFormat, Limit
  <2> QED BY <2>1, <2>2, <2>3, <1>1, <1>7 DEF Overflows
<1>9. PICK h \in Nearest(Double, n.units) :
        Round(Double, flex.value < 0, n.units) = Finite(flex.value < 0, h)
  BY <1>1, <1>6, <1>8, RoundIs
<1>10. AsDouble(flex) = Finite(flex.value < 0, h)
  BY <1>1, <1>2, <1>3, <1>9 DEF AsDouble
<1>11. h < FloatRoundsToInfinity
  <2>1. h \in Nat
    BY <1>1, <1>6, NearestIsHeld
  <2>2. Apart(h, n.units) <= Apart(past, n.units)
    BY <1>6 DEF Nearest
  <2>3. h <= past
    BY <2>1, <2>2, <1>1, <1>7 DEF Apart
  <2>4. FloatRoundsToInfinity \in Int
    <3>1. LastSpacing(Single) \in Nat /\ LastSpacing(Single) \div 2 \in Nat
      BY FormatAssumption, LastSpacingIs
    <3>2. Limit(Single) \in Nat
      BY <3>1, FormatAssumption DEF IsFormat, Limit
    <3> QED BY <3>1, <3>2 DEF FloatRoundsToInfinity
  <2> QED BY <2>1, <2>3, <2>4, <1>6, <1>7
<1>12. (flex.value < 0) \in BOOLEAN /\ IsInteger(flex)
  BY <1>2 DEF IsInteger
<1> QED BY <1>4, <1>10, <1>11, <1>12 DEF DoubleNearest, flex

LEMMA DigitsAreRounded ==
  ASSUME NEW n \in NumeralType, n.form \in {"whole", "fraction"},
         TakeNumber(n) # Nothing
  PROVE  DoubleNearest(n, TakeNumber(n))
<1>1. CASE ReadsAsInteger(n)
  BY <1>1, IntegersAreRounded DEF TakeNumber
<1>2. CASE ~ReadsAsInteger(n)
  <2> DEFINE f == Round(Double, n.sign = "-", n.units)
  <2>1. TakeNumber(n) = Float(f) /\ f.class = "finite"
    BY <1>2 DEF TakeNumber, ReadDouble
  <2>2. n.units \in Nat /\ (n.sign = "-") \in BOOLEAN /\ IsFormat(Double)
    BY FormatAssumption DEF NumeralType
  <2>3. ~Overflows(Double, n.units)
    BY <2>1, <2>2, RoundIs DEF Infinite
  <2>4. PICK h \in Nearest(Double, n.units) : f = Finite(n.sign = "-", h)
    BY <2>2, <2>3, RoundIs
  <2> HIDE DEF f
  <2>5. /\ AsDouble(TakeNumber(n)) = f /\ ~IsInteger(TakeNumber(n))
        /\ TakeNumber(n).kind = "double" /\ TakeNumber(n).value = f
    BY <2>1 DEF AsDouble, Float, IsInteger
  <2> QED BY <2>2, <2>4, <2>5 DEF DoubleNearest
<1> QED BY <1>1, <1>2

\* A numeral of digits is not read where it is too large, or of a hex numeral no
\* word holds.
LEMMA DigitsNotRead ==
  ASSUME NEW n \in NumeralType, n.form \in {"whole", "fraction"},
         TakeNumber(n) = Nothing
  PROVE  \/ Overflows(Double, n.units)
         \/ n.hex /\ (Spelled(n) > Word - 1 \/ Spelled(n) < -(Word \div 2))
<1>1. ~ReadsAsInteger(n)
  BY IntegerReadIsAValue DEF TakeNumber
<1>2. CASE n.hex
  <2>1. n.form = "whole"
    BY <1>2 DEF NumeralType
  <2>2. n.units \div Unit \in Nat /\ Word \div 2 \in Nat /\ Word \div 2 < Word
    BY SpelledIsInteger
  <2> QED BY <1>1, <1>2, <2>1, <2>2 DEF ReadsAsInteger, SignedMagnitude, Spelled
<1>3. CASE ~n.hex
  <2>1. ReadDouble(n) = Nothing
    BY <1>1, <1>3 DEF TakeNumber
  <2>2. n.units \in Nat /\ (n.sign = "-") \in BOOLEAN /\ IsFormat(Double)
    BY FormatAssumption DEF NumeralType
  <2> SUFFICES ASSUME ~Overflows(Double, n.units) PROVE FALSE
    OBVIOUS
  <2>3. PICK h \in Nearest(Double, n.units) :
          Round(Double, n.sign = "-", n.units) = Finite(n.sign = "-", h)
    BY <2>2, RoundIs
  <2>4. ReadDouble(n) = Float(Finite(n.sign = "-", h))
    BY <2>3 DEF ReadDouble, Finite
  <2> QED BY <2>1, <2>2, <2>4, NearestIsHeld, FloatsAreValues
<1> QED BY <1>2, <1>3

LEMMA FloatTypesAre ==
  "Float" \notin DOMAIN IntegerTypes /\ "Double" \notin DOMAIN IntegerTypes
BY TypeNamesAssumption

\* What is read of digits fits a float unless it is too large, and is stored as
\* the neighbour or the nearest.
StoredNearest(t, n, f) ==
  /\ f.class = "finite"
  /\ n.units > 0 => f.negative = (n.sign = "-")
  /\ f.units \in IF t = "Double" THEN Nearest(Double, n.units)
                                 ELSE Neighbours(Single, n.units)

LEMMA DigitsAreStored ==
  ASSUME NEW t \in {"Float", "Double"}, NEW n \in NumeralType, NEW flex,
         DoubleNearest(n, flex)
  PROVE  /\ ScalarFits(t, flex) => StoredNearest(t, n, ScalarBytes(t, flex))
         /\ ~ScalarFits(t, flex) =>
              /\ t = "Float"
              /\ \E h \in Nearest(Double, n.units) : Overflows(Single, h)
<1>1. PICK h \in Nearest(Double, n.units), negative \in BOOLEAN :
    /\ AsDouble(flex) = Finite(negative, h)
    /\ n.units > 0 => negative = (n.sign = "-")
    /\ IsInteger(flex) => h < FloatRoundsToInfinity
    /\ ~IsInteger(flex) => flex.kind = "double" /\ flex.value = Finite(negative, h)
  BY DEF DoubleNearest
<1>2. IsFormat(Single) /\ IsFormat(Double) /\ n.units \in Nat
  BY FormatAssumption DEF NumeralType
<1>3. h \in Nat
  BY <1>2, NearestIsHeld
<1>6. flex.kind # "bool"
  BY <1>1 DEF IsInteger
<1>4. CASE t = "Double"
  <2>1. ScalarFits(t, flex)
    BY <1>1, <1>4, FloatTypesAre DEF ScalarFits
  <2>2. ScalarBytes(t, flex) = Finite(negative, h)
    BY <1>1, <1>4, <1>6 DEF ScalarBytes
  <2> QED BY <1>1, <1>4, <2>1, <2>2 DEF StoredNearest, Finite
<1>5. CASE t = "Float"
  <2>1. Overflows(Single, h) <=> h >= FloatRoundsToInfinity
    BY DEF Overflows, FloatRoundsToInfinity
  <2>2. ScalarFits(t, flex) <=> IsInteger(flex) \/ (flex.kind = "double" /\ FloatFits(flex.value))
    BY <1>5, FloatTypesAre DEF ScalarFits
  <2>3. FloatRoundsToInfinity \in Int
    <3>1. LastSpacing(Single) \in Nat /\ LastSpacing(Single) \div 2 \in Nat
      BY FormatAssumption, LastSpacingIs
    <3>2. Limit(Single) \in Nat
      BY <3>1, FormatAssumption DEF IsFormat, Limit
    <3> QED BY <3>1, <3>2 DEF FloatRoundsToInfinity
  <2>4. ScalarFits(t, flex) <=> ~Overflows(Single, h)
    BY <1>1, <1>3, <2>1, <2>2, <2>3 DEF FloatFits, Finite
  <2>5. ASSUME ~Overflows(Single, h)
        PROVE  StoredNearest(t, n, ScalarBytes(t, flex))
    <3>1. PICK r \in Nearest(Single, h) :
            Round(Single, negative, h) = Finite(negative, r)
      BY <1>2, <1>3, <2>5, RoundIs
    <3>2. ScalarBytes(t, flex) = Finite(negative, r)
      BY <1>1, <1>5, <1>6, <3>1 DEF ScalarBytes, AsFloat, Finite
    <3>3. r \in Neighbours(Single, n.units)
      BY <1>2, RoundedTwice
    <3> QED BY <1>1, <1>5, <3>2, <3>3 DEF StoredNearest, Finite
  <2> QED BY <1>5, <2>4, <2>5
<1> QED BY <1>4, <1>5

\* The infinities and what is not a number are stored as they are.
LEMMA OthersAreStored ==
  ASSUME NEW t \in {"Float", "Double"}, NEW n, n.form \in {"inf", "nan"}
  PROVE  /\ TakeNumber(n) # Nothing /\ ScalarFits(t, TakeNumber(n))
         /\ ScalarBytes(t, TakeNumber(n)) =
              IF n.form = "inf" THEN Infinite(n.sign = "-") ELSE NotANumber
<1> DEFINE f == IF n.form = "inf" THEN Infinite(n.sign = "-") ELSE NotANumber
<1>1. TakeNumber(n) = Float(f)
  <2>1. CASE n.form = "inf"
    BY <2>1 DEF TakeNumber, ReadsAsInteger
  <2>2. CASE n.form = "nan"
    BY <2>2 DEF TakeNumber, ReadsAsInteger
  <2> QED BY <2>1, <2>2
<1>2. f.class # "finite" /\ Float(f) # Nothing
  <2>1. (n.sign = "-") \in BOOLEAN
    OBVIOUS
  <2> QED BY <2>1, FloatsAreValues DEF Infinite, NotANumber
<1> HIDE DEF f
<1>3. ScalarFits(t, Float(f))
  BY <1>2, FloatTypesAre DEF ScalarFits, Float, FloatFits
<1>4. ScalarBytes(t, Float(f)) = f
  BY <1>2 DEF ScalarBytes, AsFloat, AsDouble, Float
<1> QED BY <1>1, <1>2, <1>3, <1>4 DEF f

LEMMA WrittenName ==
  ASSUME Token.kind = "name"
  PROVE  /\ Token.value \in {"true", "false"} => Written.form = "bool"
         /\ Token.value \in {"inf", "infinity", "nan"} =>
              Written = SpelledNumber(Token.value) /\ Written.form \in {"inf", "nan"}
         /\ Token.value \notin {"true", "false", "inf", "infinity", "nan"} =>
              Written.form = "none"
BY DEF Written, SpelledNumber, Numeral, Token

LEMMA StoresNearest ==
  ASSUME IInv
  PROVE  FloatsAreNearest
<1> SUFFICES ASSUME OfOneToken, given.type \in {"Float", "Double"},
                    IsStored \/ IsRefused
             PROVE  /\ IsStored =>
                         CASE Written.form \in {"whole", "fraction"} -> StoresFinite(given.type)
                           [] Written.form = "inf" -> stored = Infinite(Written.sign = "-")
                           [] Written.form = "nan" -> stored = NotANumber
                           [] OTHER -> FALSE
                    /\ IsRefused =>
                         \/ Written.form \in {"none", "bool"}
                         \/ /\ Written.form \in {"whole", "fraction"}
                            /\ \/ TooLarge(given.type)
                               \/ /\ Written.hex
                                  /\ WrittenInteger > Word - 1 \/ WrittenInteger < -(Word \div 2)
  BY DEF FloatsAreNearest
<1> DEFINE t == given.type
<1>1. /\ given \in Inputs
      /\ IsStored => /\ ReadAs # Nothing /\ ScalarFits(t, ReadAs)
                     /\ stored = ScalarBytes(t, ReadAs)
      /\ IsRefused => ReadAs = Nothing \/ ~ScalarFits(t, ReadAs)
      /\ ~(IsStored /\ IsRefused)
  BY DEF IInv, IsStored, IsRefused, IsRead
<1>2. /\ Token.kind \in {"name", "number"}
      /\ Token.kind = "number" => Token.value \in NumeralType
  BY <1>1, TextIsASequence
<1>3. ASSUME Written.form \in {"inf", "nan"}, ReadAs = TakeNumber(Written)
      PROVE  /\ ~IsRefused
             /\ stored = IF Written.form = "inf" THEN Infinite(Written.sign = "-")
                                                 ELSE NotANumber
  BY <1>1, <1>3, OthersAreStored
<1>4. CASE Token.kind = "number"
  <2> DEFINE n == Token.value
  <2>1. Written = n /\ WrittenInteger = Spelled(n) /\ n \in NumeralType
    BY <1>2, <1>4, WrittenNumber
  <2>2. ReadAs = TakeNumber(n)
    BY <1>4 DEF ReadAs
  <2>3. CASE n.form \in {"inf", "nan"}
    BY <2>1, <2>2, <2>3, <1>3
  <2>4. CASE n.form \in {"whole", "fraction"} /\ ReadAs = Nothing
    BY <2>1, <2>2, <2>4, <1>1, DigitsNotRead DEF TooLarge
  <2>5. CASE n.form \in {"whole", "fraction"} /\ ReadAs # Nothing
    <3>1. DoubleNearest(n, ReadAs)
      BY <2>1, <2>2, <2>5, DigitsAreRounded
    <3>2. /\ ScalarFits(t, ReadAs) => StoredNearest(t, n, ScalarBytes(t, ReadAs))
          /\ ~ScalarFits(t, ReadAs) => TooLarge(t)
      BY <2>1, <3>1, DigitsAreStored DEF TooLarge
    <3>3. IsStored => StoresFinite(t)
      BY <1>1, <2>1, <3>2 DEF StoresFinite, StoredNearest
    <3> QED BY <1>1, <2>1, <2>5, <3>2, <3>3
  <2>6. CASE n.form = "none"
    <3>1. ReadAs = Nothing
      BY <2>2, <2>6 DEF TakeNumber, ReadsAsInteger
    <3> QED BY <1>1, <2>1, <2>6, <3>1
  <2>7. n.form \in Forms
    BY <2>1 DEF NumeralType
  <2> QED BY <2>3, <2>4, <2>5, <2>6, <2>7 DEF Forms
<1>5. CASE Token.kind = "name" /\ Token.value \in {"true", "false"}
  <2>1. ReadAs = Bool(Token.value = "true")
    BY <1>5 DEF ReadAs
  <2>2. ~ScalarFits(t, ReadAs)
    BY <2>1, FloatTypesAre DEF ScalarFits, Bool, IsInteger
  <2> QED BY <1>1, <1>5, <2>2, WrittenName
<1>6. CASE Token.kind = "name" /\ Token.value \in {"inf", "infinity", "nan"}
  <2>1. Written = SpelledNumber(Token.value) /\ Written.form \in {"inf", "nan"}
    BY <1>6, WrittenName
  <2>2. ReadAs = TakeNumber(SpelledNumber(Token.value))
    BY <1>6 DEF ReadAs
  <2> QED BY <2>1, <2>2, <1>3
<1>7. CASE Token.kind = "name"
           /\ Token.value \notin {"true", "false", "inf", "infinity", "nan"}
  <2>1. ReadAs = Nothing
    BY <1>7 DEF ReadAs
  <2> QED BY <1>1, <1>7, <2>1, WrittenName
<1> QED BY <1>2, <1>4, <1>5, <1>6, <1>7

-----------------------------------------------------------------------------
(* The theorems.                                                             *)

\* A text of one name or number is read in one step, as what takeNumber makes of
\* it, and is stored only where scalarFits has it fit.
THEOREM ReadsThenStores == Spec => []IInv
BY Begins, Preserves, PTL DEF Spec

\* putScalar stores in an integer field the very number the payload spells, and
\* refuses no number the field's type holds: in words and types of every width.
THEOREM IntegersExact == Spec => []IntegersAreExact
BY ReadsThenStores, StoresExactly, PTL

\* A double field stores the double nearest what the payload spells and a float
\* field one of the two floats it is between, an infinity only of an infinity;
\* and nothing a float or a double holds is refused: in formats of every
\* precision and range.
THEOREM FloatsNearest == Spec => []FloatsAreNearest
BY ReadsThenStores, StoresNearest, PTL
=============================================================================
