------------------------------ MODULE PayloadScan ------------------------------
(***************************************************************************)
(* parseFlexValue (PayloadValue.cpp): the value at the front of a text,    *)
(* read into a flexbuffer, and what a scalar field then stores of it.      *)
(*                                                                         *)
(* A text is a sequence of tokens: bytes, among them the marks and the     *)
(* whitespace; names and numerals, whole; and the escapes of strings.      *)
(* The calls of takeValue that are not done are a stack of what they fill. *)
(***************************************************************************)
EXTENDS ScalarRanges, Sequences

CONSTANTS
  Inputs,           \* The texts considered, and the type of each's field.
  Spelling(_),      \* The bytes a name or a numeral is spelled by.
  MaxPayloadDepth   \* kMaxPayloadDepth

Byte(b) == [kind |-> "byte", value |-> b]
Name(name) == [kind |-> "name", value |-> name]
Number(numeral) == [kind |-> "number", value |-> numeral]
Escape(char) == [kind |-> "escape", value |-> char]     \* "bad": any other.
HexEscape(b) == [kind |-> "hex", value |-> b]
UnicodeEscape(unit) == [kind |-> "unicode", value |-> unit]

OpenBrace == Byte(123)
CloseBrace == Byte(125)
OpenBracket == Byte(91)
CloseBracket == Byte(93)
Comma == Byte(44)
Colon == Byte(58)
Point == Byte(46)
Space == Byte(32)
Whitespace == {Byte(9), Byte(10), Byte(13), Space}
Quotes == {Byte(34), Byte(39)}

SimpleEscapes ==
  [quote |-> 34, apostrophe |-> 39, backslash |-> 92, slash |-> 47,
   b |-> 8, f |-> 12, n |-> 10, r |-> 13, t |-> 9]

\* Two tokens whose bytes would be one token, or another.
Joins(token, next) ==
  \/ /\ token.kind = "number" => token.value.hex
     /\ token.kind \in {"name", "number"}
     /\ next.kind = "name"
  \/ /\ token.kind \in {"name", "number"}
     /\ next.kind = "number" /\ next.value.sign = ""
  \/ token.kind = "number" /\ token.value.form # "fraction" /\ next = Point

ASSUME InputsAssumption ==
  \A input \in Inputs :
    /\ input.text \in Seq({input.text[i] : i \in DOMAIN input.text})
    /\ \A i \in DOMAIN input.text :
         input.text[i].kind = "number" => input.text[i].value \in NumeralType
    /\ \A i \in 1..(Len(input.text) - 1) : ~Joins(input.text[i], input.text[i + 1])
ASSUME DepthAssumption == MaxPayloadDepth \in Nat

VARIABLES
  given,    \* The input.
  text,     \* What is left of its text.
  pc,       \* What is read next.
  open,     \* The maps and lists begun: [kind, items, key], the last in front.
  string,   \* The bytes read of a string.
  quote,    \* What ends it.
  result,   \* The value read.
  stored    \* What the field stores of it.

vars == <<given, text, pc, open, string, quote, result, stored>>

Init ==
  /\ given \in Inputs
  /\ text = given.text
  /\ pc = "value"
  /\ open = << >>
  /\ string = << >>
  /\ quote = Nothing
  /\ result = Nothing
  /\ stored = Nothing

-----------------------------------------------------------------------------

SkipWhitespace(s) ==
  LET blank == {n \in 0..Len(s) : \A i \in 1..n : s[i] \in Whitespace}
      longest == CHOOSE n \in blank : \A k \in blank : k <= n
  IN  SubSeq(s, longest + 1, Len(s))
At(s, token) == s # << >> /\ s[1] = token
KindAt(s) == IF s = << >> THEN "end" ELSE s[1].kind

Fail ==
  /\ pc' = "malformed"
  /\ UNCHANGED <<text, open, string, quote, result>>

\* A value is read: into the last map or list of `stack`, or as the whole.
Deliver(stack, flex, rest) ==
  /\ text' = rest
  /\ IF stack = << >>
       THEN open' = stack /\ result' = flex /\ pc' = "read"
       ELSE /\ open' = <<[stack[1] EXCEPT !.items =
                            Append(@, [key |-> stack[1].key, value |-> flex])]>>
                         \o Tail(stack)
            /\ pc' = "separator"
            /\ UNCHANGED result
  /\ UNCHANGED <<string, quote>>

\* takeNumber: no name and no point may follow a numeral.
RunsOn(numeral, rest) ==
  numeral.form \in {"whole", "fraction"} /\ (KindAt(rest) = "name" \/ At(rest, Point))

SpelledNumber(name) ==
  Numeral(IF name \in {"inf", "infinity"} THEN "inf" ELSE name, "", FALSE, 0)
TakeScalar(s) ==
  LET token == s[1]
      isBool == token.kind = "name" /\ token.value \in {"true", "false"}
      isNumber == \/ token.kind = "number"
                  \/ /\ token.kind = "name"
                     /\ token.value \in {"inf", "infinity", "nan"}
      numeral == IF token.kind = "name" THEN SpelledNumber(token.value) ELSE token.value
  IN  IF isBool THEN Deliver(open, Bool(token.value = "true"), Tail(s))
      ELSE IF isNumber /\ ~RunsOn(numeral, Tail(s)) /\ TakeNumber(numeral) # Nothing
        THEN Deliver(open, TakeNumber(numeral), Tail(s))
      ELSE Fail

BeginString(purpose, s) ==
  /\ pc' = purpose
  /\ quote' = s[1]
  /\ string' = << >>
  /\ text' = Tail(s)
  /\ UNCHANGED <<open, result>>
Begin(kind, s) ==
  /\ open' = <<[kind |-> kind, items |-> << >>, key |-> << >>]>> \o open
  /\ pc' = "items"
  /\ text' = SkipWhitespace(Tail(s))
  /\ UNCHANGED <<string, quote, result>>

OneLevelLess(depth) == depth >= MaxPayloadDepth                \* mutant
TooDeep(depth) == depth > MaxPayloadDepth

TakeValue ==
  /\ pc = "value"
  /\ LET s == SkipWhitespace(text)
     IN  IF s = << >> \/ TooDeep(Len(open)) THEN Fail
         ELSE CASE s[1] = OpenBrace -> Begin("map", s)
                [] s[1] = OpenBracket -> Begin("list", s)
                [] s[1] \in Quotes -> BeginString("string", s)
                [] OTHER -> TakeScalar(s)
  /\ UNCHANGED <<given, stored>>

-----------------------------------------------------------------------------
(* takeItems, and the map and the list that call it.                         *)

Closing == IF open[1].kind = "map" THEN CloseBrace ELSE CloseBracket

\* HasDuplicateKeys
NamesOnce(items) ==
  \A i, j \in DOMAIN items : items[i].key = items[j].key => i = j

\* EndMap sorts its entries by key: a map is the set of them.
ValueOf(kind, items) ==
  [kind |-> kind,
   value |-> IF kind = "map" THEN {items[i] : i \in DOMAIN items}
             ELSE [i \in DOMAIN items |-> items[i].value]]

\* A map or a list ends, a value of the one it is in.
Close ==
  IF open[1].kind = "map" /\ ~NamesOnce(open[1].items) THEN Fail
  ELSE Deliver(Tail(open), ValueOf(open[1].kind, open[1].items), Tail(text))

\* A key, quoted or bare, is not empty and holds no 0.
EndKey(key, s) ==
  LET rest == SkipWhitespace(s)
  IN  IF key = << >> \/ (\E i \in DOMAIN key : key[i] = 0) \/ ~At(rest, Colon) THEN Fail
      ELSE /\ open' = <<[open[1] EXCEPT !.key = key]>> \o Tail(open)
           /\ pc' = "value"
           /\ text' = Tail(rest)
           /\ UNCHANGED <<string, quote, result>>

TakeItem ==
  /\ pc = "items"
  /\ IF At(text, Closing) THEN Close
     ELSE IF open[1].kind = "list"
       THEN pc' = "value" /\ UNCHANGED <<text, open, string, quote, result>>
     ELSE IF text # << >> /\ text[1] \in Quotes
       THEN BeginString("key", text)
     ELSE IF KindAt(text) = "name" THEN EndKey(Spelling(text[1]), Tail(text))
     ELSE Fail
  /\ UNCHANGED <<given, stored>>

TakeSeparator ==
  /\ pc = "separator"
  /\ LET s == SkipWhitespace(text)
     IN  CASE At(s, Comma) ->
                /\ text' = SkipWhitespace(Tail(s))
                /\ pc' = "items"
                /\ UNCHANGED <<open, string, quote, result>>
           [] At(s, Closing) ->
                /\ text' = s
                /\ pc' = "items"
                /\ UNCHANGED <<open, string, quote, result>>
           [] OTHER -> Fail
  /\ UNCHANGED <<given, stored>>

-----------------------------------------------------------------------------
(* takeString.                                                               *)

\* appendUtf8
Continuing(bits) == 128 + (bits % 64)
AppendUtf8(c) ==
  CASE c < 128 -> <<c>>
    [] c \in 128..2047 -> <<192 + c \div 64, Continuing(c)>>
    [] c \in 2048..65535 -> <<224 + c \div 4096, Continuing(c \div 64), Continuing(c)>>
    [] OTHER -> <<240 + c \div 262144, Continuing(c \div 4096), Continuing(c \div 64),
                  Continuing(c)>>

HighSurrogates == 55296..56319
LowSurrogates == 56320..57343
Paired(high, low) == 65536 + (high - 55296) * 1024 + (low - 56320)

IsByte(s, i) == i \in DOMAIN s /\ s[i].kind = "byte"
AnyContinues(s, i, low, high) ==                               \* mutant
  IsByte(s, i) /\ s[i].value \in 128..191
Continues(s, i, low, high) == IsByte(s, i) /\ s[i].value \in low..high

\* utf8SequenceLength: 0 where no sequence is.
Utf8SequenceLength(s) ==
  LET lead == s[1].value
      length == CASE lead \in 194..223 -> 2
                  [] lead \in 224..239 -> 3
                  [] lead \in 240..244 -> 4
                  [] OTHER -> 0
      low == CASE lead = 224 -> 160 [] lead = 240 -> 144 [] OTHER -> 128
      high == CASE lead = 237 -> 159 [] lead = 244 -> 143 [] OTHER -> 191
  IN  IF /\ length > 0
         /\ Continues(s, 2, low, high)
         /\ \A i \in 3..length : Continues(s, i, 128, 191)
        THEN length ELSE 0

Take(bytes, count) ==
  /\ string' = string \o bytes
  /\ text' = SubSeq(text, count + 1, Len(text))
  /\ UNCHANGED <<pc, open, quote, result>>

TakeMultibyte ==
  LET length == Utf8SequenceLength(text)
  IN  IF length = 0 THEN Fail
      ELSE Take([i \in 1..length |-> text[i].value], length)

TakeUnicodeEscape ==
  LET unit == text[1].value
      low == IF KindAt(Tail(text)) = "unicode" THEN text[2].value ELSE 0
  IN  CASE unit \in LowSurrogates -> Fail
        [] unit \notin HighSurrogates \cup LowSurrogates -> Take(AppendUtf8(unit), 1)
        [] unit \in HighSurrogates ->
             IF low \in LowSurrogates THEN Take(AppendUtf8(Paired(unit, low)), 2)
                                      ELSE Fail

EndString ==
  IF pc = "string" THEN Deliver(open, [kind |-> "string", value |-> string], Tail(text))
                   ELSE EndKey(string, Tail(text))

TakeCharacter ==
  /\ pc \in {"string", "key"}
  /\ CASE text = << >> -> Fail
       [] text # << >> /\ text[1] = quote -> EndString
       [] KindAt(text) = "byte" /\ text[1] # quote ->
            IF text[1].value >= 128 THEN TakeMultibyte
            ELSE IF text[1].value < 32 THEN Fail
            ELSE Take(<<text[1].value>>, 1)
       [] KindAt(text) \in {"name", "number"} -> Take(Spelling(text[1]), 1)
       [] KindAt(text) = "escape" ->
            IF text[1].value \in DOMAIN SimpleEscapes
              THEN Take(<<SimpleEscapes[text[1].value]>>, 1) ELSE Fail
       [] KindAt(text) = "hex" -> Take(<<text[1].value>>, 1)
       [] KindAt(text) = "unicode" -> TakeUnicodeEscape
  /\ UNCHANGED <<given, stored>>

-----------------------------------------------------------------------------

\* A scalar's payload fits its field, and is stored, or the request is refused.
StoreScalar ==
  /\ pc = "read"
  /\ given.type # Nothing
  /\ IF ScalarFits(given.type, result)
       THEN pc' = "stored" /\ stored' = ScalarBytes(given.type, result)
       ELSE pc' = "misfit" /\ UNCHANGED stored
  /\ UNCHANGED <<given, text, open, string, quote, result>>

Next == TakeValue \/ TakeItem \/ TakeSeparator \/ TakeCharacter \/ StoreScalar
Spec == Init /\ [][Next]_vars
=============================================================================
