----------------------------- MODULE PayloadGrammar -----------------------------
(***************************************************************************)
(* What a payload should be read as: the values a text denotes, told from  *)
(* the whole of it and from how it may be split (docs/grammar.md, and      *)
(* PayloadValue.hpp on parseFlexValue).                                    *)
(***************************************************************************)
EXTENDS ScalarStores, FiniteSets

LOCAL INSTANCE SequencesExt

-----------------------------------------------------------------------------
(* Unicode.                                                                  *)

ScalarValue(c) == c \in 0..1114111 /\ c \notin 55296..57343

\* The bytes of UTF-8, as many as a code point takes, six bits in each but the
\* first.
LengthOf(c) == CHOOSE n \in 1..4 :
  /\ c < <<128, 2048, 65536, 2097152>>[n]
  /\ n > 1 => c >= <<128, 2048, 65536>>[n - 1]
Lead == <<0, 192, 224, 240>>
Utf8(c) ==
  LET n == LengthOf(c)
  IN  [i \in 1..n |-> IF i = 1 THEN Lead[n] + c \div 64^(n - 1)
                      ELSE 128 + ((c \div 64^(n - i)) % 64)]

\* The code point some bytes spell, or -1.
CodePoint(bytes) ==
  LET n == Len(bytes)
      c == FoldLeft(LAMBDA sum, b : sum * 64 + (b % 64), bytes[1] - Lead[n], Tail(bytes))
  IN  IF ScalarValue(c) /\ Utf8(c) = bytes THEN c ELSE -1

\* What the pieces of a string between its quotes denote: none or one.
AllBytes(s) == \A i \in DOMAIN s : s[i].kind = "byte"
PieceBytes(s, ending) ==
  CASE AllBytes(s) ->
         LET bytes == [i \in DOMAIN s |-> s[i].value]
         IN  IF CodePoint(bytes) >= 32 /\ s[1] # ending THEN {bytes} ELSE {}
    [] Len(s) = 1 /\ s[1].kind \in {"name", "number"} -> {Spelling(s[1])}
    [] Len(s) = 1 /\ s[1].kind = "escape" ->
         IF s[1].value = "bad" THEN {} ELSE {<<SimpleEscapes[s[1].value]>>}
    [] Len(s) = 1 /\ s[1].kind = "hex" -> {<<s[1].value>>}
    [] Len(s) = 1 /\ s[1].kind = "unicode" ->
         IF ScalarValue(s[1].value) THEN {Utf8(s[1].value)} ELSE {}
    [] Len(s) = 2 /\ s[1].kind = "unicode" /\ s[2].kind = "unicode" ->
         IF s[1].value \in 55296..56319 /\ s[2].value \in 56320..57343
           THEN {Utf8(65536 + 1024 * (s[1].value % 1024) + (s[2].value % 1024))}
           ELSE {}
    [] OTHER -> {}

RECURSIVE StringBytes(_, _)
StringBytes(s, ending) ==
  IF s = << >> THEN {<< >>}
  ELSE UNION {{piece \o rest : piece \in PieceBytes(SubSeq(s, 1, n), ending),
                               rest \in StringBytes(SubSeq(s, n + 1, Len(s)), ending)} :
              n \in 1..(IF Len(s) < 4 THEN Len(s) ELSE 4)}

Quoted(s) ==
  IF Len(s) >= 2 /\ s[1] \in Quotes /\ s[Len(s)] = s[1]
    THEN StringBytes(SubSeq(s, 2, Len(s) - 1), s[1]) ELSE {}

-----------------------------------------------------------------------------
(* Values.                                                                   *)

Blank(s) == ToSet(s) \subseteq Whitespace
Trimmed(s) ==
  IF Blank(s) THEN << >>
  ELSE LET inked == {i \in DOMAIN s : s[i] \notin Whitespace}
           first == CHOOSE i \in inked : \A j \in inked : i <= j
           last == CHOOSE i \in inked : \A j \in inked : i >= j
       IN  SubSeq(s, first, last)

ScalarValues(token) ==
  LET read == TakeNumber(token.value)
  IN  CASE token.kind = "number" -> IF read = Nothing THEN {} ELSE {read}
        [] token.kind = "name" /\ token.value \in {"true", "false"} ->
             {Bool(token.value = "true")}
        [] token.kind = "name" /\ token.value \in {"inf", "infinity"} ->
             {Float(Infinite(FALSE))}
        [] token.kind = "name" /\ token.value = "nan" -> {Float(NotANumber)}
        [] OTHER -> {}

KeysOf(s) ==
  {key \in IF Len(s) = 1 /\ s[1].kind = "name" THEN {Spelling(s[1])} ELSE Quoted(s) :
     key # << >> /\ 0 \notin ToSet(key)}

\* Within so many maps and lists.
RECURSIVE Values(_, _), Items(_, _, _)
EntriesIn(s, depth) ==
  UNION {{[key |-> key, value |-> value] :
            key \in KeysOf(Trimmed(SubSeq(s, 1, n - 1))),
            value \in Values(SubSeq(s, n + 1, Len(s)), depth)} :
         n \in {n \in DOMAIN s : s[n] = Colon}}

\* Items with commas between them, and one after the last if there is any.
Items(kind, s, depth) ==
  IF Blank(s) THEN {<< >>}
  ELSE UNION {{<<item>> \o rest :
                 item \in IF kind = "map" THEN EntriesIn(SubSeq(s, 1, n), depth)
                                          ELSE Values(SubSeq(s, 1, n), depth),
                 rest \in IF n = Len(s) THEN {<< >>}
                          ELSE IF s[n + 1] = Comma
                            THEN Items(kind, SubSeq(s, n + 2, Len(s)), depth)
                          ELSE {}} :
              n \in DOMAIN s}

Enclosed(s, opening, closing) ==
  Len(s) >= 2 /\ s[1] = opening /\ s[Len(s)] = closing

Values(s, depth) ==
  LET t == Trimmed(s)
      within == SubSeq(t, 2, Len(t) - 1)
  IN  IF t = << >> \/ depth > MaxPayloadDepth THEN {}
      ELSE
      CASE Len(t) = 1 -> ScalarValues(t[1])
        [] Len(t) > 1 /\ t[1] \in Quotes -> {[kind |-> "string", value |-> bytes] : bytes \in Quoted(t)}
        [] Enclosed(t, OpenBracket, CloseBracket) ->
             {[kind |-> "list", value |-> items] :
                items \in Items("list", within, depth + 1)}
        [] Enclosed(t, OpenBrace, CloseBrace) ->
             {[kind |-> "map", value |-> ToSet(items)] :
                items \in {items \in Items("map", within, depth + 1) :
                             Cardinality({items[i].key : i \in DOMAIN items})
                               = Len(items)}}
        [] OTHER -> {}

\* A value ends where what follows it does not run on from it.
EndsAt(s, n) ==
  ~(/\ n < Len(s)
    /\ s[n].kind = "number" /\ s[n].value.form \in {"whole", "fraction"}
    /\ s[n + 1].kind = "name" \/ s[n + 1] = Point)

-----------------------------------------------------------------------------

\* What is read is the value the text up to there denotes, and all of it: each
\* string the UTF-8 of what it spells, however its characters are written, each
\* key of a map once, no more lists within lists than the bound.
ReadsWhatIsWritten ==
  pc = "read" =>
    result \in Values(SubSeq(given.text, 1, Len(given.text) - Len(text)), 0)

\* A text is malformed only where no beginning of it denotes a value.
RefusesNoValue ==
  pc = "malformed" =>
    ~\E n \in DOMAIN given.text :
       Values(SubSeq(given.text, 1, n), 0) # {} /\ EndsAt(given.text, n)
=============================================================================
