----------------------------- MODULE MCPayloadScan -----------------------------
(* Words of 5 bits, a float of 2 significant bits and a double of 3, to the    *)
(* eighth: as in the code, a double holds fewer integers than a word, a float  *)
(* fewer yet, and both go past the word.                                       *)
EXTENDS PayloadGrammar, TLC

CONSTANTS Deepest  \* The maps and lists within one another of the texts.

IntegerType(signed, values) == [signed |-> signed, values |-> values]
MCIntegerTypes == [
  Bool |-> IntegerType(FALSE, 2), Byte |-> IntegerType(TRUE, 4),
  UByte |-> IntegerType(FALSE, 4), Int |-> IntegerType(TRUE, 16),
  UInt |-> IntegerType(FALSE, 16), Long |-> IntegerType(TRUE, 32),
  ULong |-> IntegerType(FALSE, 32)]
MCSingle == [significands |-> 4, spacings |-> {4 * 2^k : k \in 0..5}]
MCDouble == [significands |-> 8, spacings |-> {2 * 2^k : k \in 0..6}]

MCSpelling(token) ==
  IF token.kind = "number" THEN <<49>>
  ELSE CASE token.value = "a" -> <<97>> [] token.value = "b" -> <<98>>
         [] OTHER -> <<97, 98>>

-----------------------------------------------------------------------------
(* A number in a scalar field.                                               *)

Numerals ==
  {Numeral("whole", sign, hex, Unit * n) :
     sign \in Signs, hex \in BOOLEAN, n \in 0..80 \cup 110..130}
  \cup {Numeral("fraction", sign, FALSE, units) :
          sign \in {"", "-"}, units \in 0..520 \cup 950..1030}
  \cup {Numeral(form, sign, FALSE, 0) : form \in {"inf", "nan"}, sign \in {"+", "-"}}
  \cup {Numeral("none", "", FALSE, 0)}
NumberTokens ==
  {Number(n) : n \in Numerals}
    \cup {Name(name) : name \in {"true", "false", "inf", "infinity", "nan", "a"}}
NumberInputs ==
  {[text |-> <<token>>, type |-> type] :
     token \in NumberTokens,
     type \in {"Bool", "Byte", "UByte", "Int", "Long", "ULong", "Float", "Double"}}

-----------------------------------------------------------------------------
(* A string.                                                                 *)

Bytes(s) == [i \in DOMAIN s |-> Byte(s[i])]
Characters ==
  {<<Byte(b)>> : b \in {31, 32, 34, 39, 127, 128, 10}}
  \cup {<<Escape(c)>> : c \in DOMAIN SimpleEscapes \cup {"bad"}}
  \cup {<<HexEscape(b)>> : b \in {0, 65, 255}}
  \cup {<<UnicodeEscape(u)>> :
          u \in {0, 127, 128, 2047, 2048, 55295, 55296, 56319, 56320, 57343, 57344, 65535}}
  \cup {<<UnicodeEscape(u), UnicodeEscape(v)>> :
          u \in {55296, 56319}, v \in {56319, 56320, 57343, 57344}}
  \cup {<<Name("a")>>, Bytes(<<195, 169>>)}
Edges == {127, 128, 143, 144, 159, 160, 191, 192}
Multibyte ==
  {Bytes(<<lead, second>>) :
     lead \in {191, 192, 193, 194, 223, 224, 225, 236, 237, 238, 239, 240, 241,
               243, 244, 245, 255}, second \in Edges}
Longer ==
  {s \o Bytes(<<third>>) : s \in Multibyte, third \in {127, 128, 191, 192}}
Longest ==
  {s \o Bytes(<<b>>) :
     s \in {s \in Longer : s[1].value >= 224}, b \in {127, 128, 191, 192}}
Within == Characters \cup {c \o d : c, d \in Characters} \cup Multibyte \cup Longer
            \cup Longest
DoubleQuote == Byte(34)
StringTexts ==
  {<<DoubleQuote>> \o s \o <<DoubleQuote>> : s \in Within}
    \cup {<<DoubleQuote>> \o s : s \in Characters \cup Multibyte}
    \cup {<<OpenBrace, DoubleQuote>> \o s \o <<DoubleQuote, Colon, Name("true"), CloseBrace>> :
            s \in Characters}

-----------------------------------------------------------------------------
(* Maps and lists, and the same with a token left out, repeated or put in.     *)

One == <<Number(Numeral("whole", "", FALSE, Unit))>>
Half == <<Number(Numeral("fraction", "", FALSE, 4))>>
QuotedName(name) == <<DoubleQuote, Name(name), DoubleQuote>>
ListOf(items) ==
  <<OpenBracket>> \o
    (CASE Len(items) = 0 -> << >> [] Len(items) = 1 -> items[1]
       [] Len(items) = 2 -> items[1] \o <<Comma, Space>> \o items[2]) \o <<CloseBracket>>
MapOf(entries) ==
  <<OpenBrace>> \o
    (CASE Len(entries) = 0 -> << >>
       [] Len(entries) = 1 -> entries[1][1] \o <<Colon>> \o entries[1][2]
       [] Len(entries) = 2 -> entries[1][1] \o <<Colon, Space>> \o entries[1][2]
                                \o <<Comma>> \o entries[2][1] \o <<Space, Colon>>
                                \o entries[2][2]) \o <<CloseBrace>>
A == <<Name("a")>>
B == <<Name("b")>>
EscapedA == <<DoubleQuote, UnicodeEscape(97), DoubleQuote>>
RECURSIVE Nested(_, _)
Nested(s, n) == IF n = 0 THEN s ELSE Nested(ListOf(<<s>>), n - 1)
NestedMaps(s) == MapOf(<<<<A, MapOf(<<<<A, s>>>>)>>>>)
Documents ==
  {Nested(s, n) : s \in {One, ListOf(<< >>)}, n \in 0..Deepest}
    \cup {ListOf(<<One, QuotedName("a")>>), ListOf(<<Half, ListOf(<<One>>)>>), MapOf(<< >>),
          MapOf(<<<<A, One>>>>), MapOf(<<<<A, One>>, <<QuotedName("a"), Half>>>>),
          MapOf(<<<<EscapedA, One>>, <<A, One>>>>), MapOf(<<<<A, One>>, <<B, Half>>>>),
          MapOf(<<<<<<DoubleQuote, DoubleQuote>>, One>>>>), NestedMaps(One),
          NestedMaps(MapOf(<< >>)), NestedMaps(ListOf(<<One>>)),
          ListOf(<<MapOf(<<<<A, One>>>>), MapOf(<<<<A, One>>>>)>>), Half, <<Name("inf")>>,
          <<Name("b")>>, <<Number(Numeral("none", "", FALSE, 0))>>, QuotedName("b")}

Dropped(s) == {SubSeq(s, 1, i - 1) \o SubSeq(s, i + 1, Len(s)) : i \in DOMAIN s}
Repeated(s) == {SubSeq(s, 1, i) \o SubSeq(s, i, Len(s)) : i \in DOMAIN s}
Inserted(s, token) ==
  {SubSeq(s, 1, i) \o <<token>> \o SubSeq(s, i + 1, Len(s)) : i \in 0..Len(s)}
DocumentTexts ==
  UNION {{s} \cup Dropped(s) \cup Repeated(s)
           \cup UNION {Inserted(s, token) :
                         token \in {Space, Byte(10), Comma, Colon, Point, CloseBracket,
                                    OpenBrace, CloseBrace, DoubleQuote, Byte(39),
                                    Name("a"), One[1]}} :
         s \in Documents}
Lexical(s) == \A i \in 1..(Len(s) - 1) : ~Joins(s[i], s[i + 1])

MCInputs ==
  {input \in
     NumberInputs \cup {[text |-> s, type |-> Nothing] :
                          s \in {s \in StringTexts \cup DocumentTexts : Lexical(s)}} :
   TRUE}
=============================================================================
