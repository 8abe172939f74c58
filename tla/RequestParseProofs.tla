--------------------------- MODULE RequestParseProofs ---------------------------
(***************************************************************************)
(* That the parser's state keeps its types, that it ends, and that what it *)
(* parses is all of its text: for every schema whose references resolve,   *)
(* and for every text.                                                     *)
(***************************************************************************)
EXTENDS RequestParse, SequenceTheorems, WellFoundedInduction, TLAPS

\* A put's payload is read at once, or table by table.
PutPayloads ==
  Payloads \cup [kind : {"list"}, of : DOMAIN Objects, value : Seq(Payloads)]

\* The operations whose updates are among some.
Operations(updates) ==
  [op : {"put"}, path : Seq(Nat), payload : PutPayloads]
    \cup [op : {"delete"}, path : Seq(Nat)]
    \cup [op : {"patch"}, path : Seq(Nat), updates : Seq(updates)]

\* A stack of patches, as far as the paths inside them go by it.
IsPatch(p) == p.target \in DOMAIN Objects /\ p.path \in Seq(Nat)
IsStack(ps) == \E S : ps \in Seq(S) /\ \A p \in S : IsPatch(p)

IInv == TypeOK /\ IsStack(patches)

-----------------------------------------------------------------------------
(* Reading.                                                                  *)

LEMMA TailReads ==
  ASSUME NEW s \in Seq(Token), s # << >>
  PROVE  /\ Tail(s) \in Seq(Token) /\ Len(Tail(s)) = Len(s) - 1
         /\ Len(s) \in Nat \ {0} /\ s[1] \in Token
<1>1. s[1] \in Token
  <2>1. Len(s) \in Nat \ {0} /\ s \in [1..Len(s) -> Token]
    BY EmptySeq, LenProperties
  <2> QED
    BY <2>1
<1> QED
  BY <1>1, HeadTailProperties, EmptySeq

LEMMA SkipReads ==
  ASSUME NEW s \in Seq(Token), NEW kind
  PROVE  /\ Skip(kind, s) \in Seq(Token) /\ Len(s) \in Nat
         /\ Len(Skip(kind, s)) \in Nat
         /\ Len(Skip(kind, s)) <= Len(s)
         /\ Skip(kind, s) = s \/ Len(Skip(kind, s)) < Len(s)
<1>1. CASE s # << >>
  BY <1>1, TailReads, LenProperties DEF Skip
<1>2. CASE s = << >>
  BY <1>2, LenProperties DEF Skip, Starts
<1> QED
  BY <1>1, <1>2

LEMMA NameReads ==
  ASSUME NEW s \in Seq(Token), NEW n \in NameAt(s)
  PROVE  /\ n.name \in Nat /\ n.rest \in Seq(Token)
         /\ Len(s) \in Nat /\ Len(n.rest) \in Nat /\ Len(n.rest) < Len(s)
<1>1. s # << >> /\ s[1].kind = "name" /\ n = [name |-> s[1].name, rest |-> Tail(s)]
  BY DEF NameAt, Starts
<1>2. s[1] \in Token
  BY <1>1, TailReads
<1>3. s[1].name \in Nat
  BY <1>1, <1>2 DEF Token, Verbs, Marks
<1> QED
  BY <1>1, <1>3, TailReads

LEMMA IndexReads ==
  ASSUME NEW s \in Seq(Token), NEW i \in IndexAt(s)
  PROVE  /\ i.index \in Nat /\ i.rest \in Seq(Token)
         /\ Len(s) \in Nat /\ Len(i.rest) \in Nat /\ Len(i.rest) < Len(s)
<1>1. /\ s # << >> /\ s[1].kind = "index" /\ Tail(s) # << >>
      /\ i = [index |-> s[1].index, rest |-> Tail(Tail(s))]
  BY DEF IndexAt, Starts
<1>2. s[1] \in Token
  BY <1>1, TailReads
<1>3. s[1].index \in Nat
  BY <1>1, <1>2 DEF Token, Verbs, Marks
<1>4. Tail(s) \in Seq(Token) /\ Len(Tail(s)) = Len(s) - 1 /\ Len(s) \in Nat
  BY <1>1, TailReads
<1>5. /\ Tail(Tail(s)) \in Seq(Token) /\ Len(Tail(Tail(s))) = Len(Tail(s)) - 1
      /\ Len(Tail(s)) \in Nat \ {0}
  BY <1>1, <1>4, TailReads
<1> QED
  BY <1>1, <1>3, <1>4, <1>5

LEMMA ValueReads ==
  ASSUME NEW s \in Seq(Token), NEW v \in ValuesAt(s)
  PROVE  /\ v.rest \in Seq(Token)
         /\ Len(s) \in Nat /\ Len(v.rest) \in Nat /\ Len(v.rest) < Len(s)
<1>1. PICK n \in DOMAIN s : v = [payload |-> s[n].payload, rest |-> SubSeq(s, n + 1, Len(s))]
  BY DEF ValuesAt
<1>2. /\ Len(s) \in Nat /\ n \in 1..Len(s)
      /\ \A i \in n+1..Len(s) : s[i] \in Token
  BY LenProperties, ElementOfSeq
<1>3. /\ SubSeq(s, n + 1, Len(s)) \in Seq(Token)
      /\ Len(SubSeq(s, n + 1, Len(s))) = Len(s) - n
  <2>1. /\ SubSeq(s, n + 1, Len(s)) \in Seq(Token)
        /\ Len(SubSeq(s, n + 1, Len(s))) = IF n + 1 <= Len(s) THEN Len(s) - (n + 1) + 1 ELSE 0
    BY <1>2, SubSeqProperties
  <2> QED
    BY <2>1, <1>2
<1> QED
  BY <1>1, <1>2, <1>3

-----------------------------------------------------------------------------
(* Paths: what a reading of a field comes to is an object the schema declares, *)
(* or none.                                                                  *)

IsReading(r, s) ==
  /\ r.steps \in Seq(Nat) /\ r.object \in DOMAIN Objects \cup {Null}
  /\ r.rest \in Seq(Token) /\ Len(r.rest) <= Len(s)

LEMMA OneStep ==
  ASSUME NEW n \in Nat
  PROVE  <<n>> \in Seq(Nat)
<1> QED
  OBVIOUS

LEMMA NoStep == << >> \in Seq(Nat)
<1> QED
  BY EmptySeq

LEMMA UnionNameReads ==
  ASSUME NEW s \in Seq(Token), NEW def \in DOMAIN Objects, NEW f \in Objects[def],
         f.base = "Union" \/ f.element = "Union",
         NEW writing \in BOOLEAN, NEW r \in UnionName(f, s, writing)
  PROVE  IsReading(r, s)
<1>1. CASE Starts(".", s)
  <2>1. PICK n \in NameAt(Tail(s)) :
          /\ IsTableMember(f.of, n.name)
          /\ r = [steps |-> <<n.name>>, object |-> MemberDef(f.of, n.name), rest |-> n.rest]
    BY <1>1 DEF UnionName
  <2>2. Tail(s) \in Seq(Token) /\ Len(Tail(s)) = Len(s) - 1 /\ Len(s) \in Nat
    BY <1>1, TailReads DEF Starts
  <2>3. /\ n.name \in Nat /\ n.rest \in Seq(Token)
        /\ Len(n.rest) \in Nat /\ Len(n.rest) < Len(Tail(s))
    BY <2>2, NameReads
  <2>4. n.name \in DOMAIN Enums[f.of]
    BY <2>1 DEF IsTableMember, MemberType
  <2>5. MemberDef(f.of, n.name) \in DOMAIN Objects
    BY <2>1, <2>4, ParseAssumption
  <2>6. <<n.name>> \in Seq(Nat)
    BY <2>3, OneStep
  <2> QED
    BY <2>1, <2>2, <2>3, <2>5, <2>6 DEF IsReading
<1>2. CASE ~Starts(".", s)
  <2>1. r = [steps |-> << >>, object |-> Null, rest |-> s]
    BY <1>2 DEF UnionName
  <2> QED
    BY <2>1, LenProperties, NoStep DEF IsReading
<1> QED
  BY <1>1, <1>2

LEMMA ElementReads ==
  ASSUME NEW s \in Seq(Token), NEW def \in DOMAIN Objects, NEW f \in Objects[def],
         f.base \in {"Vector", "Array"},
         NEW writing \in BOOLEAN, NEW r \in ElementReading(f, s, writing)
  PROVE  IsReading(r, s)
<1>1. PICK i \in IndexAt(s) : r \in ElementAfter(f, i, writing)
  BY DEF ElementReading
<1>2. /\ i.index \in Nat /\ i.rest \in Seq(Token)
      /\ Len(s) \in Nat /\ Len(i.rest) \in Nat /\ Len(i.rest) < Len(s)
  BY IndexReads
<1>3. <<i.index>> \in Seq(Nat)
  BY <1>2, OneStep
<1>4. CASE f.element \in {"Table", "Struct"}
  <2>1. f.of \in DOMAIN Objects
    BY <1>4, ParseAssumption
  <2>2. r = [steps |-> <<i.index>>, object |-> f.of, rest |-> i.rest]
    BY <1>1, <1>4 DEF ElementAfter
  <2> QED
    BY <2>1, <2>2, <1>2, <1>3 DEF IsReading
<1>5. CASE f.element = "Union"
  <2>1. PICK u \in UnionName(f, i.rest, writing) :
          r = [u EXCEPT !.steps = <<i.index>> \o @]
    BY <1>1, <1>5 DEF ElementAfter
  <2>2. IsReading(u, i.rest)
    BY <1>2, <1>5, UnionNameReads
  <2>3. <<i.index>> \o u.steps \in Seq(Nat)
    BY <2>2, <1>3, ConcatProperties DEF IsReading
  <2>4. /\ r.steps = <<i.index>> \o u.steps
        /\ r.object = u.object /\ r.rest = u.rest
    <3>1. \E steps, object_, rest : u = [steps |-> steps, object |-> object_, rest |-> rest]
      BY DEF UnionName
    <3> QED
      BY <2>1, <3>1
  <2>5. Len(u.rest) \in Nat
    BY <2>2, LenProperties DEF IsReading
  <2> QED
    BY <2>2, <2>3, <2>4, <2>5, <1>2 DEF IsReading
<1>6. CASE f.element \notin {"Table", "Struct", "Union"}
  <2>1. r = [steps |-> <<i.index>>, object |-> Null, rest |-> i.rest]
    BY <1>1, <1>6 DEF ElementAfter
  <2> QED
    BY <2>1, <1>2, <1>3 DEF IsReading
<1> QED
  BY <1>4, <1>5, <1>6

LEMMA FieldReads ==
  ASSUME NEW s \in Seq(Token), NEW def \in DOMAIN Objects, NEW f \in Objects[def],
         NEW writing \in BOOLEAN, NEW r \in FieldReading(f, s, writing)
  PROVE  IsReading(r, s)
<1>0. Len(s) \in Nat
  BY LenProperties
<1>1. CASE f.base \in {"Vector", "Array"} /\ Starts("[", s)
  <2>1. Tail(s) \in Seq(Token) /\ Len(Tail(s)) = Len(s) - 1
    BY <1>1, TailReads DEF Starts
  <2>2. r \in ElementReading(f, Tail(s), writing)
    BY <1>1 DEF FieldReading
  <2>3. IsReading(r, Tail(s))
    BY <1>1, <2>1, <2>2, ElementReads
  <2>4. Len(r.rest) \in Nat
    BY <2>3, LenProperties DEF IsReading
  <2> QED
    BY <2>1, <2>3, <2>4, <1>0 DEF IsReading
<1>2. CASE f.base \in {"Vector", "Array"} /\ ~Starts("[", s)
  <2>1. r \in WholeVectorReading(f, s, writing)
    BY <1>2 DEF FieldReading
  <2>2. r = [steps |-> << >>, rest |-> s,
             object |-> IF f.element \in {"Table", "Struct"} THEN f.of ELSE Null]
    BY <2>1 DEF WholeVectorReading
  <2>3. r.object \in DOMAIN Objects \cup {Null}
    BY <2>2, <1>2, ParseAssumption
  <2> QED
    BY <2>2, <2>3, <1>0, NoStep DEF IsReading
<1>3. CASE f.base \in {"Table", "Struct"}
  <2>1. r = [steps |-> << >>, object |-> f.of, rest |-> s]
    BY <1>3 DEF FieldReading
  <2>2. f.of \in DOMAIN Objects
    BY <1>3, ParseAssumption
  <2> QED
    BY <2>1, <2>2, <1>0, NoStep DEF IsReading
<1>4. CASE f.base = "Union"
  <2>1. r \in UnionName(f, s, writing)
    BY <1>4 DEF FieldReading
  <2> QED
    BY <2>1, <1>4, UnionNameReads
<1>5. CASE f.base \notin {"Vector", "Array", "Table", "Struct", "Union"}
  <2>1. r = [steps |-> << >>, object |-> Null, rest |-> s]
    BY <1>5 DEF FieldReading
  <2> QED
    BY <2>1, <1>0, NoStep DEF IsReading
<1> QED
  BY <1>1, <1>2, <1>3, <1>4, <1>5

-----------------------------------------------------------------------------
(* The stack of patches.                                                     *)

LEMMA StackTypes ==
  ASSUME NEW ps, IsStack(ps)
  PROVE  \A i \in DOMAIN ps : IsPatch(ps[i])
<1>1. PICK S : ps \in Seq(S) /\ \A p \in S : IsPatch(p)
  BY DEF IsStack
<1>2. \A i \in DOMAIN ps : ps[i] \in S
  BY <1>1, LenProperties, ElementOfSeq
<1> QED
  BY <1>1, <1>2

LEMMA StackPush ==
  ASSUME NEW ps, IsStack(ps), NEW p, IsPatch(p)
  PROVE  IsStack(Append(ps, p))
<1>1. PICK S : ps \in Seq(S) /\ \A q \in S : IsPatch(q)
  BY DEF IsStack
<1>2. ps \in Seq(S \cup {p})
  BY <1>1, SeqMonotonic
<1>3. Append(ps, p) \in Seq(S \cup {p})
  BY <1>2, AppendProperties
<1>4. \A q \in S \cup {p} : IsPatch(q)
  BY <1>1
<1> QED
  BY <1>3, <1>4 DEF IsStack

LEMMA StackPop ==
  ASSUME IsStack(patches), patches # << >>
  PROVE  IsStack(Outer) /\ IsPatch(Innermost)
<1>1. PICK S : patches \in Seq(S) /\ \A p \in S : IsPatch(p)
  BY DEF IsStack
<1>2. Len(patches) \in Nat \ {0}
  BY <1>1, EmptySeq
<1>3. \A i \in 1..Len(patches) : patches[i] \in S
  BY <1>1, ElementOfSeq
<1>4. SubSeq(patches, 1, Len(patches) - 1) \in Seq(S)
  BY <1>2, <1>3, SubSeqProperties
<1> QED
  BY <1>1, <1>2, <1>3, <1>4 DEF IsStack, Outer, Innermost

LEMMA StackOf ==
  ASSUME NEW S, NEW s \in Seq(S), \A p \in S : IsPatch(p)
  PROVE  IsStack(s)
<1> QED
  BY DEF IsStack

LEMMA EmptyStack == IsStack(<< >>)
<1> DEFINE none == {}
<1>1. << >> \in Seq(none) /\ \A p \in none : IsPatch(p)
  BY EmptySeq
<1> HIDE DEF none
<1> QED
  BY <1>1, StackOf

LEMMA BaseIsObject ==
  ASSUME IInv
  PROVE  Base \in DOMAIN Objects
<1>1. CASE patches = << >>
  BY <1>1, ParseAssumption DEF Base
<1>2. CASE patches # << >>
  BY <1>2, StackPop DEF IInv, Base, IsPatch
<1> QED
  BY <1>1, <1>2

-----------------------------------------------------------------------------
(* The steps.                                                                *)

\* What a step reads: a token, or nothing, and no more steps can read nothing.
Reads ==
  \/ Len(text') < Len(text)
  \/ text' = text /\ Unread(pc') < Unread(pc)

LEMMA FailReads ==
  ASSUME pc \in {"verb", "update", "segment", "payload", "element", "delete",
                 "patch", "path", "target", "return"},
         Fail, UNCHANGED text
  PROVE  Reads
<1> QED
  BY DEF Fail, Reads, Unread

LEMMA InitInv == Init => IInv
<1> SUFFICES ASSUME Init PROVE IInv
  OBVIOUS
<1>1. given \in Seq(Token)
  BY ParseAssumption DEF Init
<1>2. IsStack(patches)
  BY EmptyStack DEF Init
<1>3. \A i \in DOMAIN patches : IsPatch(patches[i])
  BY <1>2, StackTypes
<1>4. Root \in DOMAIN Objects
  BY ParseAssumption
<1>5. TypeOK
  BY <1>1, <1>3, <1>4, NoStep DEF Init, TypeOK, Verbs, IsPatch
<1> QED
  BY <1>2, <1>5 DEF IInv

LEMMA ReadVerbInv ==
  ASSUME IInv, ReadVerb
  PROVE  IInv' /\ Reads
<1> DEFINE s == IF pc = "update" THEN Skip("sp", text) ELSE text
<1>1. text \in Seq(Token)
  BY DEF IInv, TypeOK
<1>2. s \in Seq(Token) /\ Len(text) \in Nat /\ Len(s) \in Nat /\ Len(s) <= Len(text)
  BY <1>1, SkipReads, LenProperties
<1>3. CASE s # << >> /\ s[1].kind \in Verbs
  <2>1. verb' = s[1].kind /\ text' = Tail(s) /\ pc' \in {"patch", "path"}
        /\ UNCHANGED <<outcome, given, patches, target, elements, operation>>
    BY <1>3 DEF ReadVerb, PastVerb
  <2>2. Tail(s) \in Seq(Token) /\ Len(Tail(s)) = Len(s) - 1
    BY <1>2, <1>3, TailReads
  <2>3. outcome = "reading" /\ pc # "ended"
    BY DEF ReadVerb, IInv, TypeOK
  <2>4. TypeOK'
    BY <2>1, <2>2, <2>3, <1>3 DEF IInv, TypeOK, target
  <2>5. Reads
    BY <2>1, <2>2, <1>2 DEF Reads
  <2> QED
    BY <2>1, <2>4, <2>5 DEF IInv
<1>4. CASE ~(s # << >> /\ s[1].kind \in Verbs)
  <2>1. Fail /\ UNCHANGED <<text, verb, given, patches, target, elements, operation>>
    BY <1>4 DEF ReadVerb
  <2>2. TypeOK'
    BY <2>1 DEF IInv, TypeOK, target, Fail
  <2>3. Reads
    BY <2>1, FailReads DEF ReadVerb
  <2> QED
    BY <2>1, <2>2, <2>3 DEF IInv
<1> QED
  BY <1>3, <1>4

LEMMA BeginPathInv ==
  ASSUME IInv, BeginPath
  PROVE  IInv' /\ Reads
<1>1. text \in Seq(Token) /\ text' = Skip("sp", text) /\ pc = "path"
      /\ UNCHANGED <<given, verb, patches, elements, operation>>
  BY DEF IInv, TypeOK, BeginPath
<1>2. /\ text' \in Seq(Token)
      /\ text' = text \/ Len(text') < Len(text)
  BY <1>1, SkipReads
<1>3. (pc' = "ended" /\ outcome' = "malformed") \/ (pc' = "segment" /\ UNCHANGED outcome)
  BY DEF BeginPath, Fail
<1>4. /\ path' = << >> /\ object' \in DOMAIN Objects
      /\ inVector' = FALSE /\ inStruct' = FALSE
  BY BaseIsObject DEF BeginPath
<1>5. TypeOK'
  <2>1. outcome = "reading"
    BY <1>1 DEF IInv, TypeOK
  <2> QED
    BY <1>1, <1>2, <1>3, <1>4, <2>1, NoStep DEF IInv, TypeOK
<1>6. Reads
  BY <1>1, <1>2, <1>3 DEF Reads, Unread
<1> QED
  BY <1>1, <1>5, <1>6 DEF IInv

LEMMA SegmentReads ==
  ASSUME IInv, NEW r \in SegmentReadings
  PROVE  /\ r.steps \in Seq(Nat) /\ r.object \in DOMAIN Objects \cup {Null}
         /\ r.rest \in Seq(Token) /\ r.inVector \in BOOLEAN
         /\ Len(r.rest) \in Nat /\ Len(text) \in Nat /\ Len(r.rest) < Len(text)
<1>1. text \in Seq(Token) /\ object \in DOMAIN Objects \cup {Null}
  BY DEF IInv, TypeOK
<1>a. PICK n \in FieldsNamed :
        \E q \in FieldReading(FieldAt(object, n.name), n.rest, Writing) :
          r = [steps |-> <<n.name>> \o q.steps, object |-> q.object,
               rest |-> q.rest, field |-> FieldAt(object, n.name),
               inVector |-> NamesElement(FieldAt(object, n.name), n.rest)]
  BY DEF SegmentReadings
<1>2. PICK q \in FieldReading(FieldAt(object, n.name), n.rest, Writing) :
        r = [steps |-> <<n.name>> \o q.steps, object |-> q.object,
             rest |-> q.rest, field |-> FieldAt(object, n.name),
             inVector |-> NamesElement(FieldAt(object, n.name), n.rest)]
  BY <1>a
<1>3. n \in NameAt(text) /\ object # Null /\ n.name \in Offsets(object)
  BY <1>a DEF FieldsNamed
<1>4. /\ n.name \in Nat /\ n.rest \in Seq(Token)
      /\ Len(text) \in Nat /\ Len(n.rest) \in Nat /\ Len(n.rest) < Len(text)
  BY <1>1, <1>3, NameReads
<1>5. object \in DOMAIN Objects /\ FieldAt(object, n.name) \in Objects[object]
  BY <1>1, <1>3 DEF Offsets, FieldAt
<1>6. Writing \in BOOLEAN
  BY DEF Writing
<1>7. IsReading(q, n.rest)
  BY <1>2, <1>4, <1>5, <1>6, FieldReads
<1>8. <<n.name>> \o q.steps \in Seq(Nat)
  BY <1>4, <1>7, OneStep, ConcatProperties DEF IsReading
<1>9. Len(q.rest) \in Nat
  BY <1>7, LenProperties DEF IsReading
<1> QED
  BY <1>2, <1>4, <1>7, <1>8, <1>9 DEF IsReading, NamesElement

LEMMA ReadSegmentInv ==
  ASSUME IInv, ReadSegment
  PROVE  IInv' /\ Reads
<1>0. outcome = "reading" /\ pc = "segment"
      /\ UNCHANGED <<given, verb, patches, elements, operation>>
  BY DEF IInv, TypeOK, ReadSegment
<1>1. CASE Fail /\ UNCHANGED <<text, target>>
  <2>1. TypeOK'
    BY <1>0, <1>1 DEF IInv, TypeOK, target, Fail
  <2>2. Reads
    BY <1>0, <1>1, FailReads
  <2> QED
    BY <2>1, <2>2, <1>0 DEF IInv
<1>2. ASSUME NEW r \in SegmentReadings,
             /\ path' = path \o r.steps
             /\ object' = r.object
             /\ inVector' = r.inVector
             /\ inStruct' = (inStruct \/ object \in Structs)
             /\ text' = Skip(".", r.rest)
             /\ IF Starts(".", r.rest) THEN pc' = "segment" /\ UNCHANGED outcome
                ELSE IF Starts("[", r.rest) THEN Fail
                ELSE pc' = AfterPath /\ UNCHANGED outcome
      PROVE  IInv' /\ Reads
  <2>1. /\ r.steps \in Seq(Nat) /\ r.object \in DOMAIN Objects \cup {Null}
        /\ r.rest \in Seq(Token) /\ r.inVector \in BOOLEAN
        /\ Len(r.rest) \in Nat /\ Len(text) \in Nat /\ Len(r.rest) < Len(text)
    BY SegmentReads
  <2>2. text' \in Seq(Token) /\ Len(text') \in Nat /\ Len(text') <= Len(r.rest)
    BY <1>2, <2>1, SkipReads
  <2>3. path' \in Seq(Nat)
    BY <1>2, <2>1, ConcatProperties DEF IInv, TypeOK
  <2>4. \/ pc' \in {"segment", "payload", "target", "delete"} /\ outcome' = outcome
        \/ pc' = "ended" /\ outcome' = "malformed"
    <3>1. AfterPath \in {"payload", "target", "delete"}
      BY DEF IInv, TypeOK, Verbs, AfterPath
    <3> QED
      BY <1>2, <3>1 DEF Fail
  <2>5. inStruct' \in BOOLEAN
    BY <1>2
  <2>6. TypeOK'
    BY <1>0, <1>2, <2>1, <2>2, <2>3, <2>4, <2>5 DEF IInv, TypeOK
  <2>7. Reads
    BY <2>1, <2>2 DEF Reads
  <2> QED
    BY <2>6, <2>7, <1>0 DEF IInv
<1> QED
  BY <1>1, <1>2 DEF ReadSegment

LEMMA BeginVectorInv ==
  ASSUME IInv, BeginVector
  PROVE  IInv' /\ Reads
<1> DEFINE s == Skip("sp", text)
<1>0. outcome = "reading" /\ pc = "payload" /\ text \in Seq(Token)
      /\ UNCHANGED <<given, verb, patches, target, operation>>
  BY DEF IInv, TypeOK, BeginVector
<1>1. /\ s \in Seq(Token) /\ Len(text) \in Nat /\ Len(s) \in Nat
      /\ Len(s) <= Len(text)
  BY <1>0, SkipReads
<1>2. CASE Starts("sp", text) /\ Starts("[", s)
  <2>1. Tail(s) \in Seq(Token) /\ Len(Tail(s)) = Len(s) - 1
    BY <1>1, <1>2, TailReads DEF Starts
  <2>2. CASE Starts("]", Tail(s))
    <3>1. /\ text' = Tail(Tail(s)) /\ pc' = "vector" /\ UNCHANGED outcome
      BY <1>2, <2>2 DEF BeginVector
    <3>2. /\ Tail(Tail(s)) \in Seq(Token) /\ Len(Tail(Tail(s))) = Len(Tail(s)) - 1
      BY <2>1, <2>2, TailReads DEF Starts
    <3> QED
      BY <3>1, <3>2, <2>1, <1>0, <1>1 DEF IInv, TypeOK, target, Reads
  <2>3. CASE ~Starts("]", Tail(s))
    <3>1. /\ text' = Tail(s) /\ pc' = "element" /\ UNCHANGED outcome
      BY <1>2, <2>3 DEF BeginVector
    <3> QED
      BY <3>1, <2>1, <1>0, <1>1 DEF IInv, TypeOK, target, Reads
  <2> QED
    BY <2>2, <2>3
<1>3. CASE ~(Starts("sp", text) /\ Starts("[", s))
  <2>1. Fail /\ UNCHANGED text
    BY <1>3 DEF BeginVector
  <2>2. Reads
    BY <1>0, <2>1, FailReads
  <2> QED
    BY <2>1, <2>2, <1>0 DEF IInv, TypeOK, target, Fail
<1> QED
  BY <1>2, <1>3

LEMMA ReadElementInv ==
  ASSUME IInv, ReadElement
  PROVE  IInv' /\ Reads
<1>0. outcome = "reading" /\ pc = "element" /\ text \in Seq(Token)
      /\ UNCHANGED <<given, verb, patches, target, operation>>
  BY DEF IInv, TypeOK, ReadElement
<1>1. CASE Fail /\ UNCHANGED text
  <2>1. Reads
    BY <1>0, <1>1, FailReads
  <2> QED
    BY <2>1, <1>0, <1>1 DEF IInv, TypeOK, target, Fail
<1>2. ASSUME NEW v \in ValuesAt(text), text' = Tail(v.rest),
             Starts(",", v.rest) \/ Starts("]", v.rest),
             pc' \in {"element", "vector"}, UNCHANGED outcome
      PROVE  IInv' /\ Reads
  <2>1. /\ v.rest \in Seq(Token)
        /\ Len(text) \in Nat /\ Len(v.rest) \in Nat /\ Len(v.rest) < Len(text)
    BY <1>0, ValueReads
  <2>2. Tail(v.rest) \in Seq(Token) /\ Len(Tail(v.rest)) = Len(v.rest) - 1
    BY <1>2, <2>1, TailReads DEF Starts
  <2>3. TypeOK'
    BY <1>0, <1>2, <2>2 DEF IInv, TypeOK, target
  <2>4. Reads
    <3>1. Len(text') = Len(v.rest) - 1
      BY <1>2, <2>2
    <3> QED
      BY <2>1, <3>1 DEF Reads
  <2>5. UNCHANGED patches
    BY <1>0
  <2> QED
    BY <2>3, <2>4, <2>5 DEF IInv
<1>3. ASSUME NEW v \in ReadTables,
             IF Starts(",", v.rest)
               THEN text' = Tail(v.rest) /\ UNCHANGED <<pc, outcome>>
             ELSE IF Starts("]", v.rest)
               THEN text' = Tail(v.rest) /\ pc' = "vector" /\ UNCHANGED outcome
             ELSE Fail /\ UNCHANGED text
      PROVE  IInv' /\ Reads
  <2>1. v \in ValuesAt(text)
    BY DEF ReadTables
  <2> QED
    BY <1>0, <1>1, <1>2, <1>3, <2>1
<1> QED
  BY <1>1, <1>3 DEF ReadElement

LEMMA EndVectorInv ==
  ASSUME IInv, EndVector
  PROVE  IInv' /\ Reads
<1>1. /\ pc = "vector" /\ pc' = "return"
      /\ UNCHANGED <<given, text, verb, patches, target, elements, outcome>>
  BY DEF EndVector, Complete
<1> QED
  BY <1>1 DEF IInv, TypeOK, target, Reads, Unread

LEMMA ReadPayloadInv ==
  ASSUME IInv, ReadPayload
  PROVE  IInv' /\ Reads
<1>0. outcome = "reading" /\ pc = "payload" /\ text \in Seq(Token)
      /\ UNCHANGED <<given, verb, patches, target, elements>>
  BY DEF IInv, TypeOK, ReadPayload
<1>1. CASE Fail /\ UNCHANGED text
  <2>1. Reads
    BY <1>0, <1>1, FailReads
  <2> QED
    BY <2>1, <1>0, <1>1 DEF IInv, TypeOK, target, Fail
<1>2. ASSUME NEW v \in ValuesAt(text), text' = v.rest, pc' = "return",
             UNCHANGED outcome
      PROVE  IInv' /\ Reads
  <2>1. /\ v.rest \in Seq(Token)
        /\ Len(text) \in Nat /\ Len(v.rest) \in Nat /\ Len(v.rest) < Len(text)
    BY <1>0, ValueReads
  <2> QED
    BY <1>0, <1>2, <2>1 DEF IInv, TypeOK, target, Reads
<1> QED
  BY <1>1, <1>2 DEF ReadPayload, ReadTables, ReadFlexes, Complete

LEMMA EndDeleteInv ==
  ASSUME IInv, EndDelete
  PROVE  IInv' /\ Reads
<1>0. /\ outcome = "reading" /\ pc = "delete"
      /\ UNCHANGED <<given, text, verb, patches, target, elements>>
  BY DEF IInv, TypeOK, EndDelete
<1>1. CASE Deletable
  <2>1. pc' = "return" /\ UNCHANGED outcome
    BY <1>1 DEF EndDelete, Complete
  <2> QED
    BY <1>0, <2>1 DEF IInv, TypeOK, target, Reads, Unread
<1>2. CASE ~Deletable
  <2>1. Fail
    BY <1>2 DEF EndDelete
  <2>2. Reads
    BY <1>0, <2>1, FailReads
  <2> QED
    BY <1>0, <2>1, <2>2 DEF IInv, TypeOK, target, Fail
<1> QED
  BY <1>1, <1>2

\* A list is opened of a table or struct, from a text no longer than what is left.
LEMMA OpenListReads ==
  ASSUME IInv, pc \in {"patch", "target"}, NEW patch, IsPatch(patch),
         NEW s \in Seq(Token), Len(s) <= Len(text), OpenList(patch, s),
         UNCHANGED <<given, verb, target, elements>>
  PROVE  IInv' /\ Reads
<1> DEFINE body == Skip("sp", Tail(s))
<1>0. /\ outcome = "reading" /\ text \in Seq(Token) /\ Len(text) \in Nat
      /\ Len(s) \in Nat /\ IsStack(patches)
  BY LenProperties DEF IInv, TypeOK
<1>1. CASE ~Starts("{", s)
  <2>1. Fail /\ UNCHANGED <<text, patches, operation>>
    BY <1>1 DEF OpenList
  <2>2. Reads
    BY <2>1, FailReads
  <2> QED
    BY <2>1, <2>2 DEF IInv, TypeOK, target, Fail
<1>2. CASE Starts("{", s)
  <2>1. Tail(s) \in Seq(Token) /\ Len(Tail(s)) = Len(s) - 1
    BY <1>2, TailReads DEF Starts
  <2>2. /\ body \in Seq(Token) /\ Len(body) \in Nat
        /\ Len(body) <= Len(Tail(s))
    BY <2>1, SkipReads
  <2>3. CASE Starts("}", body)
    <3>1. /\ text' = Tail(body) /\ pc' = "return"
          /\ UNCHANGED <<patches, outcome>>
      BY <1>2, <2>3 DEF OpenList, Complete
    <3>2. Tail(body) \in Seq(Token) /\ Len(Tail(body)) = Len(body) - 1
      BY <2>2, <2>3, TailReads DEF Starts
    <3>3. TypeOK'
      BY <3>1, <3>2, <1>0 DEF IInv, TypeOK, target
    <3>4. Reads
      BY <3>1, <3>2, <2>1, <2>2, <1>0 DEF Reads
    <3> QED
      BY <3>1, <3>3, <3>4 DEF IInv
  <2>4. CASE ~Starts("}", body)
    <3>1. /\ text' = body /\ pc' = "update" /\ patches' = Append(patches, patch)
          /\ UNCHANGED outcome
      BY <1>2, <2>4 DEF OpenList
    <3>2. IsStack(patches')
      BY <3>1, <1>0, StackPush
    <3>3. \A i \in DOMAIN patches' : IsPatch(patches'[i])
      BY <3>2, StackTypes
    <3>4. TypeOK'
      BY <3>1, <3>3, <2>2, <1>0 DEF IInv, TypeOK, target, IsPatch
    <3>5. Reads
      BY <3>1, <2>1, <2>2, <1>0 DEF Reads
    <3> QED
      BY <3>2, <3>4, <3>5 DEF IInv
  <2> QED
    BY <2>3, <2>4
<1> QED
  BY <1>1, <1>2

LEMMA BeginPatchInv ==
  ASSUME IInv, BeginPatch
  PROVE  IInv' /\ Reads
<1> DEFINE s == Skip("sp", text)
<1>0. /\ outcome = "reading" /\ pc = "patch" /\ text \in Seq(Token)
      /\ UNCHANGED <<given, verb, target, elements>>
  BY DEF IInv, TypeOK, BeginPatch
<1>1. /\ s \in Seq(Token) /\ Len(s) <= Len(text)
      /\ s = text \/ Len(s) < Len(text)
  BY <1>0, SkipReads
<1>2. CASE Starts("{", s)
  <2> DEFINE patch == [target |-> Base, path |-> << >>, updates |-> << >>]
  <2>1. OpenList(patch, s)
    BY <1>2 DEF BeginPatch
  <2>2. IsPatch(patch)
    BY BaseIsObject, NoStep DEF IsPatch
  <2> HIDE DEF patch, s
  <2> QED
    BY <1>0, <1>1, <2>1, <2>2, OpenListReads
<1>3. CASE ~Starts("{", s)
  <2>1. /\ text' = s /\ pc' = "path" /\ UNCHANGED <<patches, operation, outcome>>
    BY <1>3 DEF BeginPatch
  <2>2. TypeOK'
    BY <1>0, <1>1, <2>1 DEF IInv, TypeOK, target
  <2>3. Reads
    BY <1>0, <1>1, <2>1 DEF Reads, Unread
  <2> QED
    BY <2>1, <2>2, <2>3 DEF IInv
<1> QED
  BY <1>2, <1>3

LEMMA EndTargetInv ==
  ASSUME IInv, EndTarget
  PROVE  IInv' /\ Reads
<1> DEFINE s == Skip("sp", text)
<1>0. /\ outcome = "reading" /\ pc = "target" /\ text \in Seq(Token)
      /\ UNCHANGED <<given, verb, target, elements>>
  BY DEF IInv, TypeOK, EndTarget
<1>1. s \in Seq(Token) /\ Len(s) <= Len(text)
  BY <1>0, SkipReads
<1>2. CASE Patchable
  <2> DEFINE patch == [target |-> object, path |-> path, updates |-> << >>]
  <2>1. OpenList(patch, s)
    BY <1>2 DEF EndTarget
  <2>2. IsPatch(patch)
    BY <1>2 DEF IsPatch, Patchable, IInv, TypeOK
  <2> HIDE DEF patch, s
  <2> QED
    BY <1>0, <1>1, <2>1, <2>2, OpenListReads
<1>3. CASE ~Patchable
  <2>1. Fail /\ UNCHANGED <<text, patches, operation>>
    BY <1>3 DEF EndTarget
  <2>2. Reads
    BY <1>0, <2>1, FailReads
  <2> QED
    BY <1>0, <2>1, <2>2 DEF IInv, TypeOK, target, Fail
<1> QED
  BY <1>2, <1>3

LEMMA EndUpdateInv ==
  ASSUME IInv, EndUpdate
  PROVE  IInv' /\ Reads
<1> DEFINE patch == [target |-> Innermost.target, path |-> Innermost.path,
                     updates |-> Append(Innermost.updates, operation)]
           s == Skip("sp", text)
           closing == Skip("sp", s)
<1>0. /\ outcome = "reading" /\ pc = "return" /\ text \in Seq(Token)
      /\ patches # << >> /\ IsStack(patches)
      /\ UNCHANGED <<given, verb, target, elements>>
  BY DEF IInv, TypeOK, EndUpdate
<1>1. /\ s \in Seq(Token) /\ Len(s) <= Len(text)
      /\ Len(s) \in Nat /\ Len(text) \in Nat
  BY <1>0, SkipReads
<1>2. closing \in Seq(Token) /\ Len(closing) <= Len(s) /\ Len(closing) \in Nat
  BY <1>1, SkipReads
<1>3. IsStack(Outer) /\ IsPatch(Innermost)
  BY <1>0, StackPop
<1>4. IsPatch(patch)
  BY <1>3 DEF IsPatch
<1>5. CASE Starts(";", s)
  <2>1. /\ text' = Tail(s) /\ patches' = Append(Outer, patch)
        /\ pc' = "update" /\ UNCHANGED outcome
    BY <1>5 DEF EndUpdate
  <2>2. Tail(s) \in Seq(Token) /\ Len(Tail(s)) = Len(s) - 1
    BY <1>1, <1>5, TailReads DEF Starts
  <2>3. IsStack(patches')
    BY <2>1, <1>3, <1>4, StackPush
  <2>4. \A i \in DOMAIN patches' : IsPatch(patches'[i])
    BY <2>3, StackTypes
  <2>5. TypeOK'
    BY <1>0, <2>1, <2>2, <2>4 DEF IInv, TypeOK, target, IsPatch
  <2>6. Reads
    BY <1>1, <2>1, <2>2 DEF Reads
  <2> QED
    BY <2>3, <2>5, <2>6 DEF IInv
<1>6. CASE ~Starts(";", s) /\ Starts("}", closing)
  <2>1. /\ text' = Tail(closing) /\ patches' = Outer
        /\ pc' = "return" /\ UNCHANGED outcome
    BY <1>6 DEF EndUpdate, Complete
  <2>2. Tail(closing) \in Seq(Token) /\ Len(Tail(closing)) = Len(closing) - 1
    BY <1>2, <1>6, TailReads DEF Starts
  <2>3. IsStack(patches')
    BY <2>1, <1>3
  <2>4. \A i \in DOMAIN patches' : IsPatch(patches'[i])
    BY <2>3, StackTypes
  <2>5. TypeOK'
    BY <1>0, <2>1, <2>2, <2>4 DEF IInv, TypeOK, target, IsPatch
  <2>6. Reads
    BY <1>1, <1>2, <2>1, <2>2 DEF Reads
  <2> QED
    BY <2>3, <2>5, <2>6 DEF IInv
<1>7. CASE ~Starts(";", s) /\ ~Starts("}", closing)
  <2>1. Fail /\ UNCHANGED <<text, patches, operation>>
    BY <1>7 DEF EndUpdate
  <2>2. Reads
    BY <1>0, <2>1, FailReads
  <2> QED
    BY <1>0, <2>1, <2>2 DEF IInv, TypeOK, target, Fail
<1> QED
  BY <1>5, <1>6, <1>7

LEMMA EndRequestInv ==
  ASSUME IInv, EndRequest
  PROVE  IInv' /\ Reads
<1>1. /\ pc = "return" /\ pc' = "ended" /\ outcome' \in {"parsed", "malformed"}
      /\ UNCHANGED <<given, text, verb, patches, target, elements, operation>>
  BY DEF EndRequest
<1> QED
  BY <1>1 DEF IInv, TypeOK, target, Reads, Unread

LEMMA NextReads == IInv /\ Next => IInv' /\ Reads
<1> QED
  BY ReadVerbInv, BeginPathInv, ReadSegmentInv, BeginVectorInv, ReadElementInv,
     EndVectorInv, ReadPayloadInv, EndDeleteInv, BeginPatchInv, EndTargetInv,
     EndUpdateInv, EndRequestInv DEF Next

LEMMA NextInv == IInv /\ [Next]_vars => IInv'
<1>1. IInv /\ UNCHANGED vars => IInv'
  BY DEF vars, target, IInv, TypeOK
<1> QED
  BY <1>1, NextReads

THEOREM Invariance == Spec => []IInv
<1> QED
  BY InitInv, NextInv, PTL DEF Spec

-----------------------------------------------------------------------------

\* Whatever the text, what the parser goes by is of the schema: every path is
\* read in an object it declares, every patch open is of one.
THEOREM TypeCorrect == Spec => []TypeOK
<1>1. IInv => TypeOK
  BY DEF IInv
<1> QED
  BY <1>1, Invariance, PTL

\* No loop of the parser turns without reading, however operations nest: the
\* safety half of its answering every text (parseFlatbufferRequest).
THEOREM NoTurnReadsNothing == Spec => EveryTurnReads
<1>1. IInv /\ [Next]_vars =>
        [\/ Len(text') < Len(text)
         \/ text' = text /\ Unread(pc') < Unread(pc)]_vars
  BY NextReads DEF Reads
<1> QED
  BY <1>1, Invariance, PTL DEF Spec, EveryTurnReads
-----------------------------------------------------------------------------
(* The recursions of a request's shape: along a path, and down its patches.  *)

\* A set of natural numbers that is not empty has a least element.
LEMMA LeastElement ==
  ASSUME NEW S, S \subseteq Nat, S # {}
  PROVE  \E least \in S : \A n \in S : least <= n
<1> DEFINE below == OpToRel(<, Nat)
<1>1. IsWellFoundedOn(below, Nat)
  BY NatLessThanWellFounded
<1>2. \A m, n \in Nat : m < n => <<m, n>> \in below
  BY DEF OpToRel
<1> HIDE DEF below
<1>3. PICK least \in S : \A n \in S : <<n, least>> \notin below
  BY <1>1, WFMin
<1>4. \A n \in S : ~(n < least)
  BY <1>2, <1>3
<1> QED
  BY <1>4

\* A set that holds zero, and with each number up to `hi` the next, holds them all.
LEMMA UpTo ==
  ASSUME NEW S, NEW hi \in Nat, 0 \in S,
         \A n \in 1..hi : n - 1 \in S => n \in S
  PROVE  \A n \in 0..hi : n \in S
<1> DEFINE missing == {n \in 0..hi : n \notin S}
<1> SUFFICES ASSUME missing # {} PROVE FALSE
  OBVIOUS
<1>1. missing \subseteq Nat
  OBVIOUS
<1>2. PICK least \in missing : \A n \in missing : least <= n
  BY <1>1, LeastElement
<1>3. least \in 1..hi /\ least - 1 \in 0..hi /\ ~(least <= least - 1)
  <2>1. least \in 0..hi /\ least # 0
    BY <1>2
  <2> QED
    BY <2>1
<1>4. least - 1 \in S
  BY <1>2, <1>3
<1> QED
  BY <1>2, <1>3, <1>4

\* One step of a recursion.
Turn(rec, n, v) ==
  CASE rec.along = "path" -> PatchStep(v, rec.path[n])
    [] rec.along = "patches" -> OneDeeper(v)
    [] rec.along = "parts" -> v \o rec.parts[n]
    [] rec.along = "places" -> PathStep(v, rec.path[n])
    [] rec.along = "writing" -> WrittenOnce(v, << >>)
    [] rec.along = "nesting" -> Operations(v)

Goes(g, rec, first, hi) ==
  g = [n \in 0..hi |-> IF n = 0 THEN first ELSE Turn(rec, n, g[n - 1])]

\* A function that goes turn by turn is there.
LEMMA TurnByTurn ==
  ASSUME NEW rec, NEW first, NEW hi \in Nat
  PROVE  \E g : Goes(g, rec, first, hi)
<1> DEFINE reached == {n \in 0..hi : \E g : Goes(g, rec, first, n)}
<1>1. 0 \in reached
  <2> DEFINE g == [n \in 0..0 |-> first]
  <2>1. \A n \in 0..0 : n = 0
    OBVIOUS
  <2>2. g = [n \in 0..0 |-> IF n = 0 THEN first ELSE Turn(rec, n, g[n - 1])]
    BY <2>1
  <2>3. 0 \in 0..hi /\ Goes(g, rec, first, 0)
    BY <2>2 DEF Goes
  <2> QED
    BY <2>3
<1>2. ASSUME NEW n \in 1..hi, n - 1 \in reached
      PROVE  n \in reached
  <2>1. PICK g : Goes(g, rec, first, n - 1)
    BY <1>2
  <2> DEFINE h == [i \in 0..n |-> IF i = n THEN Turn(rec, n, g[n - 1]) ELSE g[i]]
  <2>2. /\ n # 0 /\ n \in 0..hi
        /\ \A i \in 0..n : i # n => i \in 0..(n - 1)
        /\ \A i \in 0..n : i # 0 => i - 1 \in 0..n /\ i - 1 # n
    BY <1>2
  <2>3. \A i \in 0..(n - 1) : g[i] = IF i = 0 THEN first ELSE Turn(rec, i, g[i - 1])
    BY <2>1 DEF Goes
  <2>4. ASSUME NEW i \in 0..n
        PROVE  h[i] = IF i = 0 THEN first ELSE Turn(rec, i, h[i - 1])
    <3>1. i # 0 => h[i - 1] = g[i - 1]
      BY <2>2
    <3>2. CASE i = n
      BY <2>2, <3>1, <3>2
    <3>3. CASE i # n
      BY <2>2, <2>3, <3>1, <3>3
    <3> QED
      BY <3>2, <3>3
  <2>5. h = [i \in 0..n |-> IF i = 0 THEN first ELSE Turn(rec, i, h[i - 1])]
    <3>1. h = [i \in 0..n |-> h[i]]
      OBVIOUS
    <3> HIDE DEF h
    <3> QED
      BY <2>4, <3>1
  <2> QED
    BY <2>2, <2>5 DEF Goes
<1>3. hi \in 0..hi
  OBVIOUS
<1> HIDE DEF reached
<1>4. hi \in reached
  BY <1>1, <1>2, <1>3, UpTo
<1> QED
  BY <1>4 DEF reached

SameTurns(rec, more, hi) ==
  \A n \in 1..hi : \A v : Turn(rec, n, v) = Turn(more, n, v)

\* Two that go the same way are the same as far as both go.
LEMMA OneWay ==
  ASSUME NEW g, NEW h, NEW rec, NEW more, NEW first, NEW hi \in Nat, NEW lo \in 0..hi,
         Goes(g, rec, first, lo), Goes(h, more, first, hi),
         SameTurns(rec, more, lo)
  PROVE  \A n \in 0..lo : g[n] = h[n]
<1> DEFINE same == {n \in 0..lo : g[n] = h[n]}
<1>1. /\ \A n \in 0..lo : g[n] = IF n = 0 THEN first ELSE Turn(rec, n, g[n - 1])
      /\ \A n \in 0..hi : h[n] = IF n = 0 THEN first ELSE Turn(more, n, h[n - 1])
  BY DEF Goes
<1>2. /\ 0 \in 0..lo /\ 0 \in 0..hi /\ lo \in Nat
      /\ \A n \in 1..lo : n \in 0..lo /\ n \in 0..hi /\ n # 0
  OBVIOUS
<1>3. 0 \in same
  BY <1>1, <1>2
<1>4. \A n \in 1..lo : n - 1 \in same => n \in same
  BY <1>1, <1>2 DEF SameTurns
<1> HIDE DEF same
<1>5. \A n \in 0..lo : n \in same
  BY <1>2, <1>3, <1>4, UpTo
<1> QED
  BY <1>5 DEF same

AlongPath(path_) == [along |-> "path", path |-> path_]

LEMMA ReachedGoes ==
  ASSUME NEW def, NEW p \in Seq(Nat)
  PROVE  \E g : Goes(g, AlongPath(p), AtObject(def), Len(p)) /\ Reached(def, p) = g[Len(p)]
<1> DEFINE rec == AlongPath(p)
           Laid(g) == g = [n \in 0..Len(p) |->
                             IF n = 0 THEN AtObject(def) ELSE PatchStep(g[n - 1], p[n])]
           g == CHOOSE g : Laid(g)
<1>1. Len(p) \in Nat
  OBVIOUS
<1>2. \A n, v : Turn(rec, n, v) = PatchStep(v, p[n])
  BY DEF Turn, AlongPath
<1>3. \A h : Goes(h, rec, AtObject(def), Len(p)) <=> Laid(h)
  <2> HIDE DEF rec
  <2> QED
    BY <1>2 DEF Goes
<1>4. \E h : Laid(h)
  BY <1>1, <1>3, TurnByTurn
<1>5. Laid(g)
  BY <1>4
<1>6. Reached(def, p) = g[Len(p)]
  BY DEF Reached
<1> HIDE DEF rec, Laid, g
<1> QED
  BY <1>3, <1>5, <1>6 DEF rec

\* A path that goes on by a step has come one turn further.
LEMMA ReachedOn ==
  ASSUME NEW def, NEW p \in Seq(Nat), NEW step \in Nat
  PROVE  Reached(def, p \o <<step>>) = PatchStep(Reached(def, p), step)
<1> DEFINE q == p \o <<step>>
           n == Len(p)
<1>1. /\ q \in Seq(Nat) /\ Len(q) = n + 1 /\ n \in Nat /\ q[n + 1] = step
      /\ \A i \in 1..n : q[i] = p[i]
  OBVIOUS
<1> HIDE DEF q, n
<1>2. PICK g : Goes(g, AlongPath(p), AtObject(def), n) /\ Reached(def, p) = g[n]
  BY ReachedGoes DEF n
<1>3. PICK h : Goes(h, AlongPath(q), AtObject(def), n + 1) /\ Reached(def, q) = h[n + 1]
  BY <1>1, ReachedGoes
<1>4. SameTurns(AlongPath(p), AlongPath(q), n)
  BY <1>1 DEF SameTurns, Turn, AlongPath
<1>5. n + 1 \in Nat /\ n \in 0..(n + 1) /\ n \in 0..n
  BY <1>1
<1>6. \A i \in 0..n : g[i] = h[i]
  BY <1>2, <1>3, <1>4, <1>5, OneWay
<1>7. n + 1 \in 0..(n + 1) /\ n + 1 # 0 /\ (n + 1) - 1 = n
  BY <1>1
<1>8. h[n + 1] = Turn(AlongPath(q), n + 1, h[n])
  BY <1>3, <1>7 DEF Goes
<1>9. Turn(AlongPath(q), n + 1, h[n]) = PatchStep(h[n], step)
  BY <1>1 DEF Turn, AlongPath
<1> QED
  BY <1>2, <1>3, <1>5, <1>6, <1>8, <1>9 DEF q

LEMMA ReachedNone ==
  ASSUME NEW def
  PROVE  Reached(def, << >>) = AtObject(def)
<1>1. << >> \in Seq(Nat) /\ Len(<< >>) = 0 /\ 0 \in 0..0
  BY EmptySeq
<1>2. PICK g : Goes(g, AlongPath(<< >>), AtObject(def), 0) /\ Reached(def, << >>) = g[0]
  BY <1>1, ReachedGoes
<1> QED
  BY <1>1, <1>2 DEF Goes

DownPatches == [along |-> "patches"]

LEMMA InsideGoes ==
  ASSUME NEW def, NEW op, NEW depth \in Nat
  PROVE  Goes(Inside(def, op, depth), DownPatches, {[def |-> def, operation |-> op]}, depth)
<1> DEFINE first == {[def |-> def, operation |-> op]}
           Laid(g) == g = [n \in 0..depth |->
                             IF n = 0 THEN {[def |-> def, operation |-> op]}
                             ELSE OneDeeper(g[n - 1])]
           g == CHOOSE g : Laid(g)
<1>1. \A n, v : Turn(DownPatches, n, v) = OneDeeper(v)
  BY DEF Turn, DownPatches
<1>2. \A h : Goes(h, DownPatches, first, depth) <=> Laid(h)
  BY <1>1 DEF Goes
<1>3. \E h : Laid(h)
  BY <1>2, TurnByTurn
<1>4. Laid(g)
  BY <1>3
<1>5. Inside(def, op, depth) = g
  BY DEF Inside
<1> HIDE DEF Laid, g
<1> QED
  BY <1>2, <1>4, <1>5 DEF first

\* What is inside an operation is it and what is inside its updates.
LEMMA InsideUpdates ==
  ASSUME NEW def, NEW op, NEW depth \in Nat
  PROVE  /\ \A x \in Inside(def, op, depth + 1)[0] : x = [def |-> def, operation |-> op]
         /\ \A n \in 1..(depth + 1) : \A x \in Inside(def, op, depth + 1)[n] :
              \E y \in Updates(def, op) : x \in Inside(y.def, y.operation, depth)[n - 1]
<1> DEFINE self == [def |-> def, operation |-> op]
           all == Inside(def, op, depth + 1)
           in(y) == Inside(y.def, y.operation, depth)
<1>1. depth + 1 \in Nat /\ 0 \in 0..(depth + 1) /\ 0 \in 0..depth
  OBVIOUS
<1>2. /\ all[0] = {self}
      /\ \A n \in 1..(depth + 1) :
           all[n] = OneDeeper(all[n - 1])
  <2>1. Goes(all, DownPatches, {self}, depth + 1)
    BY <1>1, InsideGoes
  <2>2. \A n \in 1..(depth + 1) : n \in 0..(depth + 1) /\ n # 0
    OBVIOUS
  <2> HIDE DEF all, self
  <2> QED
    BY <1>1, <2>1, <2>2 DEF Goes, Turn, DownPatches
<1>3. \A y : /\ in(y)[0] = {[def |-> y.def, operation |-> y.operation]}
             /\ \A n \in 1..depth :
                  in(y)[n] = OneDeeper(in(y)[n - 1])
  <2> SUFFICES ASSUME NEW y
               PROVE  /\ in(y)[0] = {[def |-> y.def, operation |-> y.operation]}
                      /\ \A n \in 1..depth :
                           in(y)[n] = OneDeeper(in(y)[n - 1])
    OBVIOUS
  <2> DEFINE h == in(y)
  <2>1. Goes(h, DownPatches, {[def |-> y.def, operation |-> y.operation]}, depth)
    BY InsideGoes
  <2>2. \A n \in 1..depth : n \in 0..depth /\ n # 0
    OBVIOUS
  <2> HIDE DEF h
  <2>3. /\ h[0] = {[def |-> y.def, operation |-> y.operation]}
        /\ \A n \in 1..depth : h[n] = OneDeeper(h[n - 1])
    BY <1>1, <2>1, <2>2 DEF Goes, Turn, DownPatches
  <2> QED
    BY <2>3 DEF h
<1> DEFINE Held(n, x) == \E y \in Updates(def, op) : x \in in(y)[n]
           held == {n \in 0..depth : \A x \in all[n + 1] : Held(n, x)}
<1> HIDE DEF all, in
<1>4. 0 \in held
  <2>1. all[1] = Updates(def, op)
    <3>1. 1 \in 1..(depth + 1) /\ 1 - 1 = 0
      OBVIOUS
    <3>2. all[1] = OneDeeper(all[0])
      BY <1>2, <3>1
    <3> QED
      BY <1>2, <3>2 DEF OneDeeper
  <2>2. \A y \in Updates(def, op) : y = [def |-> y.def, operation |-> y.operation]
    BY DEF Updates
  <2> QED
    BY <1>1, <1>3, <2>1, <2>2
<1>5. ASSUME NEW n \in 1..depth, n - 1 \in held
      PROVE  n \in held
  <2>1. n \in 0..depth /\ n + 1 \in 1..(depth + 1) /\ (n + 1) - 1 = n /\ (n - 1) + 1 = n
    OBVIOUS
  <2>2. ASSUME NEW x \in all[n + 1]
        PROVE  Held(n, x)
    <3>1. PICK z \in all[n] : x \in Updates(z.def, z.operation)
      BY <1>2, <2>1 DEF OneDeeper
    <3>2. PICK y \in Updates(def, op) : z \in in(y)[n - 1]
      BY <1>5, <2>1
    <3>3. x \in in(y)[n]
      BY <1>3, <3>1, <3>2 DEF OneDeeper
    <3> QED
      BY <3>3
  <2> QED
    BY <2>1, <2>2
<1>6. \A n \in 0..depth : n \in held
  <2> HIDE DEF held
  <2> QED
    BY <1>4, <1>5, UpTo
<1>7. ASSUME NEW n \in 1..(depth + 1), NEW x \in all[n]
      PROVE  Held(n - 1, x)
  <2>1. n - 1 \in 0..depth /\ (n - 1) + 1 = n
    OBVIOUS
  <2> QED
    BY <1>6, <1>7, <2>1
<1> QED
  BY <1>2, <1>7 DEF all, in

\* An operation is of the shape if it and its updates are.
LEMMA ShapeAround ==
  ASSUME NEW def, NEW op, NEW depth \in Nat, HasShape(def, op),
         \A y \in Updates(def, op) : WellFormed(y.def, y.operation, depth)
  PROVE  WellFormed(def, op, depth + 1)
<1> SUFFICES ASSUME NEW n \in 0..(depth + 1), NEW x \in Inside(def, op, depth + 1)[n]
             PROVE  /\ HasShape(x.def, x.operation)
                    /\ n = depth + 1 => Updates(x.def, x.operation) = {}
  BY DEF WellFormed
<1>1. CASE n = 0
  <2>1. x = [def |-> def, operation |-> op]
    BY <1>1, InsideUpdates
  <2>2. n # depth + 1
    BY <1>1
  <2> QED
    BY <2>1, <2>2
<1>2. CASE n # 0
  <2>1. n \in 1..(depth + 1) /\ n - 1 \in 0..depth /\ (n = depth + 1 => n - 1 = depth)
    BY <1>2
  <2>2. PICK y \in Updates(def, op) : x \in Inside(y.def, y.operation, depth)[n - 1]
    BY <2>1, InsideUpdates
  <2>3. WellFormed(y.def, y.operation, depth)
    OBVIOUS
  <2> QED
    BY <2>1, <2>2, <2>3 DEF WellFormed
<1> QED
  BY <1>1, <1>2

LEMMA LeafShape ==
  ASSUME NEW def, NEW op, HasShape(def, op), op.op # "patch", NEW depth \in Nat, depth > 0
  PROVE  WellFormed(def, op, depth)
<1>1. depth - 1 \in Nat /\ (depth - 1) + 1 = depth
  OBVIOUS
<1>2. Updates(def, op) = {}
  BY DEF Updates
<1> QED
  BY <1>1, <1>2, ShapeAround

LEMMA LeavesHaveShape ==
  ASSUME NEW def
  PROVE  /\ \A payload : HasShape(def, PutOperation(payload)) /\ PutOperation(payload).op = "put"
         /\ LET op == [op |-> "delete", path |-> path]
            IN  HasShape(def, op) /\ op.op = "delete"
<1> QED
  BY DEF HasShape, PutOperation, Members

-----------------------------------------------------------------------------
(* What the parser reads along a path of a patch is what patchTarget comes to. *)

\* A path that ends at a whole vector names its elements' type, no object.
IsWhole(f, named) == f.base = "Vector" /\ ~named

\* Where the steps of a field's reading take a path that is at an object.
GoesOn(d, p, def, n) ==
  /\ Reached(d, p \o <<n>>) = IntoField(def, n)
  /\ \A k \in Nat : Reached(d, p \o (<<n>> \o <<k>>)) = PatchStep(IntoField(def, n), k)
  /\ \A k, m \in Nat : Reached(d, p \o (<<n>> \o (<<k>> \o <<m>>))) =
                           PatchStep(PatchStep(IntoField(def, n), k), m)

LEMMA PathGoesOn ==
  ASSUME NEW d, NEW p \in Seq(Nat), NEW def, NEW n \in Nat,
         Reached(d, p).awaits = "field", Reached(d, p).of = def
  PROVE  GoesOn(d, p, def, n)
<1>1. \A k \in Nat : <<k>> \in Seq(Nat)
  BY OneStep
<1>2. p \o <<n>> \in Seq(Nat)
  BY <1>1, ConcatProperties
<1>3. Reached(d, p \o <<n>>) = IntoField(def, n)
  BY ReachedOn DEF PatchStep
<1>4. ASSUME NEW k \in Nat
      PROVE  /\ p \o (<<n>> \o <<k>>) = (p \o <<n>>) \o <<k>>
             /\ Reached(d, (p \o <<n>>) \o <<k>>) = PatchStep(IntoField(def, n), k)
             /\ (p \o <<n>>) \o <<k>> \in Seq(Nat)
  <2>1. p \o (<<n>> \o <<k>>) = (p \o <<n>>) \o <<k>>
    BY <1>1, ConcatAssociative
  <2>2. Reached(d, (p \o <<n>>) \o <<k>>) = PatchStep(Reached(d, p \o <<n>>), k)
    BY <1>2, ReachedOn
  <2>3. (p \o <<n>>) \o <<k>> \in Seq(Nat)
    BY <1>1, <1>2, ConcatProperties
  <2> QED
    BY <1>3, <2>1, <2>2, <2>3
<1>5. ASSUME NEW k \in Nat, NEW m \in Nat
      PROVE  Reached(d, p \o (<<n>> \o (<<k>> \o <<m>>))) =
               PatchStep(PatchStep(IntoField(def, n), k), m)
  <2>1. <<n>> \o (<<k>> \o <<m>>) = (<<n>> \o <<k>>) \o <<m>>
    BY <1>1, ConcatAssociative
  <2>2. <<n>> \o <<k>> \in Seq(Nat)
    BY <1>1, ConcatProperties
  <2>3. p \o ((<<n>> \o <<k>>) \o <<m>>) = (p \o (<<n>> \o <<k>>)) \o <<m>>
    BY <1>1, <2>2, ConcatAssociative
  <2>4. Reached(d, ((p \o <<n>>) \o <<k>>) \o <<m>>) =
          PatchStep(Reached(d, (p \o <<n>>) \o <<k>>), m)
    BY <1>4, ReachedOn
  <2> QED
    BY <1>4, <2>1, <2>3, <2>4
<1> QED
  BY <1>3, <1>4, <1>5 DEF GoesOn

LEMMA UnionNamesMember ==
  ASSUME NEW f, NEW s \in Seq(Token), NEW r \in UnionName(f, s, TRUE)
  PROVE  \E m \in Nat :
           /\ IsTableMember(f.of, m)
           /\ r.steps = <<m>> /\ r.object = MemberDef(f.of, m)
           /\ r = [steps |-> <<m>>, object |-> r.object, rest |-> r.rest]
<1>1. Starts(".", s)
  BY DEF UnionName
<1>2. PICK n \in NameAt(Tail(s)) :
        /\ IsTableMember(f.of, n.name)
        /\ r = [steps |-> <<n.name>>, object |-> MemberDef(f.of, n.name), rest |-> n.rest]
  BY <1>1 DEF UnionName
<1>3. n.name \in Nat
  BY <1>1, TailReads, NameReads DEF Starts
<1> QED
  BY <1>2, <1>3

LEMMA FieldLeads ==
  ASSUME NEW d, NEW p \in Seq(Nat), NEW def \in DOMAIN Objects, NEW n \in Offsets(def),
         Reached(d, p).awaits = "field", Reached(d, p).of = def,
         ~IsDiscriminant(FieldAt(def, n)),
         NEW s \in Seq(Token), NEW q \in FieldReading(FieldAt(def, n), s, TRUE),
         q.object # Null, ~IsWhole(FieldAt(def, n), NamesElement(FieldAt(def, n), s))
  PROVE  PatchTarget(d, p \o (<<n>> \o q.steps)) = q.object
<1> DEFINE f == FieldAt(def, n)
<1>1. n \in Nat /\ f \in Objects[def]
  BY ParseAssumption DEF Offsets, FieldAt
<1>2. /\ Reached(d, p \o <<n>>) = IntoField(def, n)
      /\ \A k \in Nat :
           Reached(d, p \o (<<n>> \o <<k>>)) = PatchStep(IntoField(def, n), k)
      /\ \A k, m \in Nat :
           Reached(d, p \o (<<n>> \o (<<k>> \o <<m>>))) =
             PatchStep(PatchStep(IntoField(def, n), k), m)
  <2>1. GoesOn(d, p, def, n)
    BY <1>1, PathGoesOn, Zenon
  <2> QED
    BY <2>1 DEF GoesOn
<1>3. IntoField(def, n) =
        CASE f.base \in {"Table", "Struct"} -> AtObject(f.of)
          [] f.base = "Union" -> AtUnion(f.of)
          [] f.base = "Vector" -> AtVector(f)
          [] OTHER -> Nowhere
  BY DEF IntoField
<1>4. /\ f.base = "Array" => f.element \notin {"Table", "Union"}
      /\ q \in FieldReading(f, s, TRUE)
      /\ ~IsWhole(f, NamesElement(f, s))
  BY <1>1, ParseAssumption
<1> HIDE DEF f
<1>5. CASE f.base \in {"Table", "Struct"}
  <2>1. q = [steps |-> << >>, object |-> f.of, rest |-> s]
    BY <1>4, <1>5 DEF FieldReading
  <2>2. <<n>> \o << >> = <<n>>
    BY <1>1, OneStep, ConcatEmptySeq
  <2>3. Reached(d, p \o <<n>>) = AtObject(f.of)
    BY <1>2, <1>3, <1>5
  <2> QED
    BY <2>1, <2>2, <2>3 DEF PatchTarget, AtObject
<1>6. CASE f.base = "Union"
  <2>1. q \in UnionName(f, s, TRUE)
    BY <1>4, <1>6 DEF FieldReading
  <2>2. PICK m \in Nat : /\ IsTableMember(f.of, m)
                         /\ q.steps = <<m>> /\ q.object = MemberDef(f.of, m)
    BY <2>1, UnionNamesMember
  <2>3. IntoField(def, n) = AtUnion(f.of)
    BY <1>3, <1>6
  <2>4. PatchStep(AtUnion(f.of), m) = AtObject(q.object)
    BY <2>2 DEF PatchStep, AtUnion, IntoMember
  <2>5. Reached(d, p \o (<<n>> \o q.steps)) = AtObject(q.object)
    BY <1>2, <2>2, <2>3, <2>4
  <2> QED
    BY <2>5 DEF PatchTarget, AtObject
<1>7. CASE f.base = "Vector"
  <2>1. NamesElement(f, s) /\ Starts("[", s) /\ Tail(s) \in Seq(Token)
    BY <1>4, <1>7, TailReads DEF IsWhole, NamesElement, Starts
  <2>2. q \in ElementReading(f, Tail(s), TRUE)
    BY <1>4, <1>7, <2>1 DEF FieldReading
  <2>3. PICK i \in IndexAt(Tail(s)) : q \in ElementAfter(f, i, TRUE)
    BY <2>2 DEF ElementReading
  <2>4. i.index \in Nat /\ i.rest \in Seq(Token)
    BY <2>1, IndexReads
  <2>5. IntoField(def, n) = AtVector(f)
    BY <1>3, <1>7
  <2>6. PatchStep(AtVector(f), i.index) = IntoElement(f)
    BY DEF PatchStep, AtVector
  <2>7. CASE f.element \in {"Table", "Struct"}
    <3>1. q = [steps |-> <<i.index>>, object |-> f.of, rest |-> i.rest]
      BY <1>7, <2>3, <2>7 DEF ElementAfter
    <3>2. IntoElement(f) = AtObject(f.of)
      BY <2>7 DEF IntoElement
    <3>3. Reached(d, p \o (<<n>> \o q.steps)) = AtObject(q.object)
      BY <1>2, <2>4, <2>5, <2>6, <3>1, <3>2
    <3> QED
      BY <3>3 DEF PatchTarget, AtObject
  <2>8. CASE f.element = "Union"
    <3>1. PICK u \in UnionName(f, i.rest, TRUE) : q = [u EXCEPT !.steps = <<i.index>> \o @]
      BY <2>3, <2>8 DEF ElementAfter
    <3>2. PICK m \in Nat :
            /\ IsTableMember(f.of, m)
            /\ u.steps = <<m>> /\ u.object = MemberDef(f.of, m)
            /\ u = [steps |-> <<m>>, object |-> u.object, rest |-> u.rest]
      BY <2>4, UnionNamesMember
    <3>3. q.steps = <<i.index>> \o <<m>> /\ q.object = MemberDef(f.of, m)
      BY <3>1, <3>2
    <3>4. IntoElement(f) = AtUnion(f.of)
      BY <2>8 DEF IntoElement
    <3>5. PatchStep(AtUnion(f.of), m) = AtObject(q.object)
      BY <3>2, <3>3 DEF PatchStep, AtUnion, IntoMember
    <3>6. Reached(d, p \o (<<n>> \o q.steps)) = AtObject(q.object)
      BY <1>2, <2>4, <2>5, <2>6, <3>3, <3>4, <3>5, SMTT(30)
    <3> QED
      BY <3>6 DEF PatchTarget, AtObject
  <2>9. CASE f.element \notin {"Table", "Struct", "Union"}
    <3>1. q = [steps |-> <<i.index>>, object |-> Null, rest |-> i.rest]
      BY <2>3, <2>9 DEF ElementAfter
    <3> QED
      BY <3>1
  <2> QED
    BY <2>7, <2>8, <2>9
<1>8. CASE f.base = "Array"
  <2>1. CASE Starts("[", s)
    <3>1. q \in ElementReading(f, Tail(s), TRUE)
      BY <1>4, <1>8, <2>1 DEF FieldReading
    <3>2. PICK i \in IndexAt(Tail(s)) : q \in ElementAfter(f, i, TRUE)
      BY <3>1 DEF ElementReading
    <3>3. CASE f.element = "Struct"
      BY <1>8, <3>2, <3>3 DEF ElementAfter
    <3>4. CASE f.element # "Struct"
      <4>1. f.element \notin {"Table", "Struct", "Union"}
        BY <1>4, <1>8, <3>4
      <4>2. q = [steps |-> <<i.index>>, object |-> Null, rest |-> i.rest]
        BY <3>2, <4>1 DEF ElementAfter
      <4> QED
        BY <4>2
    <3> QED
      BY <3>3, <3>4
  <2>2. CASE ~Starts("[", s)
    <3>1. q \in WholeVectorReading(f, s, TRUE)
      BY <1>4, <1>8, <2>2 DEF FieldReading
    <3>2. CASE f.element = "Struct"
      BY <1>8, <3>1, <3>2 DEF WholeVectorReading
    <3>3. CASE f.element # "Struct"
      <4>1. f.element \notin {"Table", "Struct"}
        BY <1>4, <1>8, <3>3
      <4>2. q = [steps |-> << >>, rest |-> s, object |-> Null]
        BY <3>1, <4>1 DEF WholeVectorReading
      <4> QED
        BY <4>2
    <3> QED
      BY <3>2, <3>3
  <2> QED
    BY <2>1, <2>2
<1>9. CASE f.base \notin {"Table", "Struct", "Union", "Vector", "Array"}
  <2>1. q = [steps |-> << >>, object |-> Null, rest |-> s]
    BY <1>4, <1>9 DEF FieldReading
  <2> QED
    BY <2>1
<1> QED
  BY <1>5, <1>6, <1>7, <1>8, <1>9

\* A reading of a patch's path leads where patchTarget comes to, unless it ends
\* at a whole vector; and no path goes on from one.
LEMMA SegmentLeads ==
  ASSUME IInv, verb = "patch", PatchTarget(Base, path) = object, NEW r \in SegmentReadings
  PROVE  /\ r.object # Null /\ ~IsWhole(r.field, r.inVector) =>
              PatchTarget(Base, path \o r.steps) = r.object
         /\ Starts(".", r.rest) => ~IsWhole(r.field, r.inVector)
<1>1. PICK n \in FieldsNamed :
        \E q \in FieldReading(FieldAt(object, n.name), n.rest, Writing) :
          r = [steps |-> <<n.name>> \o q.steps, object |-> q.object,
               rest |-> q.rest, field |-> FieldAt(object, n.name),
               inVector |-> NamesElement(FieldAt(object, n.name), n.rest)]
  BY ZenonT(60) DEF SegmentReadings
<1> DEFINE f == FieldAt(object, n.name)
<1>2. PICK q \in FieldReading(f, n.rest, Writing) :
        r = [steps |-> <<n.name>> \o q.steps, object |-> q.object, rest |-> q.rest,
             field |-> f, inVector |-> NamesElement(f, n.rest)]
  BY <1>1
<1>3. /\ n \in NameAt(text) /\ object # Null /\ n.name \in Offsets(object)
      /\ ~IsDiscriminant(f)
  BY <1>1 DEF FieldsNamed
<1>4. /\ text \in Seq(Token) /\ object \in DOMAIN Objects /\ path \in Seq(Nat)
      /\ Writing = TRUE
  BY <1>3 DEF IInv, TypeOK, Writing
<1>5. n.rest \in Seq(Token)
  BY <1>3, <1>4, NameReads
<1>6. Reached(Base, path).awaits = "field" /\ Reached(Base, path).of = object
  BY <1>3 DEF PatchTarget
<1>7. q \in FieldReading(f, n.rest, TRUE)
  BY <1>2, <1>4
<1>8. ASSUME q.object # Null, ~IsWhole(f, NamesElement(f, n.rest))
      PROVE  PatchTarget(Base, path \o (<<n.name>> \o q.steps)) = q.object
  BY <1>3, <1>4, <1>5, <1>6, <1>7, <1>8, FieldLeads, ZenonT(60)
<1>9. ASSUME Starts(".", q.rest)
      PROVE  ~IsWhole(f, NamesElement(f, n.rest))
  <2> HIDE DEF f
  <2> SUFFICES ASSUME f.base = "Vector", ~Starts("[", n.rest)
               PROVE  FALSE
    BY DEF IsWhole, NamesElement
  <2>1. q \in WholeVectorReading(f, n.rest, TRUE)
    BY <1>7 DEF FieldReading
  <2> QED
    BY <1>9, <2>1 DEF WholeVectorReading
<1> HIDE DEF f
<1> QED
  BY <1>2, <1>8, <1>9

-----------------------------------------------------------------------------
(* That every request parsed is of the shape the apply asks for.             *)

Around(ps, i) == IF i = 1 THEN Root ELSE ps[i - 1].target
HasList(p) == \E S : p.updates \in Seq(S)

\* Each patch open leads to its target, and what was read of it has the shape.
PatchesShaped(ps, whole) ==
  \A i \in DOMAIN ps :
    /\ PatchTarget(Around(ps, i), ps[i].path) = ps[i].target
    /\ HasList(ps[i])
    /\ \A u \in DOMAIN ps[i].updates :
         WellFormed(ps[i].target, ps[i].updates[u], Len(whole) - i)

\* Nothing is read before the first verb, and each patch open has taken a verb
\* and more.
PatchesAreRead ==
  /\ pc = "verb" => text = given /\ patches = << >>
  /\ pc \notin {"verb", "ended"} => Len(patches) < Len(given) - Len(text)

PathLeads ==
  /\ pc = "segment" /\ verb = "patch" /\ object # Null => PatchTarget(Base, path) = object
  /\ pc = "target" => verb = "patch" /\ (Patchable => PatchTarget(Base, path) = object)

OperationShaped ==
  pc = "return" => WellFormed(Base, operation, Len(given) - Len(patches))

ShapeInv ==
  /\ PatchesAreRead
  /\ PatchesShaped(patches, given)
  /\ PathLeads
  /\ OperationShaped
  /\ ParsedIsWellFormed

\* What an operation complete needs, to be of the shape where it was read.
LEMMA Depth ==
  ASSUME IInv, ShapeInv, pc \notin {"verb", "ended"}
  PROVE  /\ Len(given) - Len(patches) \in Nat /\ Len(given) - Len(patches) > 0
         /\ Len(given) \in Nat /\ Len(text) \in Nat /\ Len(patches) \in Nat
         /\ Len(given) - (Len(patches) + 1) \in Nat
<1>1. Len(given) \in Nat /\ Len(text) \in Nat
  BY LenProperties DEF IInv, TypeOK
<1>2. Len(patches) \in Nat
  BY LenProperties DEF IInv, IsStack
<1>3. Len(patches) < Len(given) - Len(text)
  BY DEF ShapeInv, PatchesAreRead
<1> QED
  BY <1>1, <1>2, <1>3

\* A step that leaves the patches open as they are.
LEMMA ShapeKept ==
  ASSUME IInv, ShapeInv, IInv', Reads, UNCHANGED <<given, patches>>,
         pc # "ended", pc' # "verb", outcome' # "parsed",
         pc = "verb" /\ pc' # "ended" => Len(text') < Len(text),
         PathLeads',
         pc' = "return" => WellFormed(Base, operation', Len(given) - Len(patches))
  PROVE  ShapeInv'
<1>1. /\ Len(given) \in Nat /\ Len(text) \in Nat /\ Len(text') \in Nat
      /\ Len(patches) \in Nat
  BY LenProperties DEF IInv, TypeOK, IsStack
<1>2. Len(text') <= Len(text)
  BY <1>1 DEF Reads
<1>3. PatchesAreRead'
  <2>1. CASE pc = "verb"
    <3>1. Len(given) = Len(text) /\ Len(patches) = 0
      BY <2>1, EmptySeq DEF ShapeInv, PatchesAreRead
    <3> QED
      BY <1>1, <2>1, <3>1 DEF PatchesAreRead
  <2>2. CASE pc # "verb"
    <3>1. Len(patches) < Len(given) - Len(text)
      BY <2>2 DEF ShapeInv, PatchesAreRead
    <3> QED
      BY <1>1, <1>2, <3>1 DEF PatchesAreRead
  <2> QED
    BY <2>1, <2>2
<1>4. PatchesShaped(patches, given)'
  BY DEF ShapeInv, PatchesShaped, Around
<1>5. OperationShaped'
  BY DEF OperationShaped, Base, Innermost
<1> QED
  BY <1>3, <1>4, <1>5 DEF ShapeInv, ParsedIsWellFormed

LEMMA ReadVerbShape ==
  ASSUME IInv, ShapeInv, IInv', Reads, ReadVerb
  PROVE  ShapeInv'
<1>1. /\ UNCHANGED <<given, patches>> /\ pc \in {"verb", "update"}
      /\ pc' \in {"patch", "path", "ended"} /\ outcome' # "parsed"
  BY DEF ReadVerb, Fail, IInv, TypeOK
<1>2. pc = "verb" /\ pc' # "ended" => Len(text') < Len(text)
  BY <1>1 DEF Reads, Unread
<1>3. PathLeads'
  BY <1>1 DEF PathLeads
<1> QED
  BY <1>1, <1>2, <1>3, ShapeKept

LEMMA BeginPathShape ==
  ASSUME IInv, ShapeInv, IInv', Reads, BeginPath
  PROVE  ShapeInv'
<1>1. /\ UNCHANGED <<given, patches>> /\ pc = "path"
      /\ pc' \in {"segment", "ended"} /\ outcome' # "parsed"
      /\ path' = << >> /\ object' = Base
  BY DEF BeginPath, Fail, IInv, TypeOK
<1>2. PatchTarget(Base, << >>) = Base
  BY ReachedNone DEF PatchTarget, AtObject
<1>3. Base' = Base
  BY <1>1 DEF Base, Innermost
<1>4. PathLeads'
  BY <1>1, <1>2, <1>3 DEF PathLeads
<1> QED
  BY <1>1, <1>4, ShapeKept

LEMMA ReadSegmentShape ==
  ASSUME IInv, ShapeInv, IInv', Reads, ReadSegment
  PROVE  ShapeInv'
<1>1. /\ UNCHANGED <<given, patches, verb>> /\ pc = "segment"
      /\ pc' \in {"segment", "payload", "target", "delete", "ended"}
      /\ outcome' # "parsed"
  BY DEF ReadSegment, Fail, IInv, TypeOK, AfterPath, Verbs
<1>2. Base' = Base
  BY <1>1 DEF Base, Innermost
<1>3. ASSUME Fail
      PROVE  PathLeads'
  BY <1>3 DEF PathLeads, Fail
<1>4. ASSUME NEW r \in SegmentReadings,
             /\ path' = path \o r.steps
             /\ field' = r.field
             /\ object' = r.object
             /\ inVector' = r.inVector,
             IF Starts(".", r.rest) THEN pc' = "segment" /\ UNCHANGED outcome
             ELSE IF Starts("[", r.rest) THEN Fail
             ELSE pc' = AfterPath /\ UNCHANGED outcome
      PROVE  PathLeads'
  <2>1. object # Null
    BY DEF SegmentReadings, FieldsNamed
  <2>2. pc' = "target" => verb = "patch"
    BY <1>4 DEF Fail, AfterPath, IInv, TypeOK, Verbs
  <2>3. ASSUME verb = "patch"
        PROVE  /\ r.object # Null /\ ~IsWhole(r.field, r.inVector) =>
                    PatchTarget(Base, path \o r.steps) = r.object
               /\ Starts(".", r.rest) => ~IsWhole(r.field, r.inVector)
    <3>1. PatchTarget(Base, path) = object
      BY <1>1, <2>1, <2>3 DEF ShapeInv, PathLeads
    <3> QED
      BY <2>3, <3>1, SegmentLeads
  <2>4. pc' = "segment" => Starts(".", r.rest)
    BY <1>4 DEF Fail, AfterPath, IInv, TypeOK, Verbs
  <2> QED
    BY <1>1, <1>2, <1>4, <2>2, <2>3, <2>4 DEF PathLeads, Patchable, IsWhole
<1>5. PathLeads'
  BY <1>3, <1>4 DEF ReadSegment
<1> QED
  BY <1>1, <1>5, ShapeKept

\* The steps that read a put or a delete once its path has been read.
LEMMA LeafStepShape ==
  ASSUME IInv, ShapeInv, IInv', Reads,
         BeginVector \/ ReadElement \/ EndVector \/ ReadPayload \/ EndDelete
  PROVE  ShapeInv'
<1>1. /\ UNCHANGED <<given, patches>>
      /\ pc \in {"payload", "element", "vector", "delete"}
      /\ pc' \in {"vector", "element", "return", "ended"} /\ outcome' # "parsed"
  BY DEF BeginVector, ReadElement, EndVector, ReadPayload, EndDelete, Complete, Fail,
         IInv, TypeOK
<1>2. PathLeads'
  BY <1>1 DEF PathLeads
<1>3. ASSUME pc' = "return"
      PROVE  WellFormed(Base, operation', Len(given) - Len(patches))
  <2>1. \/ \E payload : operation' = PutOperation(payload)
        \/ operation' = [op |-> "delete", path |-> path]
    BY <1>3 DEF BeginVector, ReadElement, EndVector, ReadPayload, EndDelete, Complete, Fail
  <2>2. HasShape(Base, operation') /\ operation'.op # "patch"
    BY <2>1, LeavesHaveShape
  <2>3. Len(given) - Len(patches) \in Nat /\ Len(given) - Len(patches) > 0
    BY <1>1, Depth
  <2> QED
    BY <2>2, <2>3, LeafShape
<1> QED
  BY <1>1, <1>2, <1>3, ShapeKept

\* A patch that leads to its target, with a list of operations of the shape, is
\* of the shape where its path starts.
LEMMA PatchShape ==
  ASSUME NEW def, NEW patch, NEW depth \in Nat, HasList(patch),
         PatchTarget(def, patch.path) = patch.target, patch.target # Null,
         \A u \in DOMAIN patch.updates :
           WellFormed(patch.target, patch.updates[u], depth)
  PROVE  WellFormed(def, PatchOperation(patch), depth + 1)
<1> DEFINE op == PatchOperation(patch)
<1>1. op.op = "patch" /\ op.path = patch.path /\ op.updates = patch.updates
  BY DEF PatchOperation
<1>2. HasShape(def, op)
  <2>1. DOMAIN op = {"op", "path", "updates"}
    BY DEF PatchOperation
  <2>2. "patch" \in DOMAIN Members /\ Members["patch"] = {"path", "updates"}
    BY DEF Members
  <2> HIDE DEF op
  <2> QED
    BY <1>1, <2>1, <2>2 DEF HasShape
<1> HIDE DEF op
<1>3. ASSUME NEW y \in Updates(def, op)
      PROVE  WellFormed(y.def, y.operation, depth)
  <2>1. PICK i \in DOMAIN op.updates :
          y = [def |-> PatchTarget(def, op.path), operation |-> op.updates[i]]
    BY <1>1, <1>2 DEF Updates
  <2> QED
    BY <1>1, <2>1
<1>4. WellFormed(def, op, depth + 1)
  BY <1>2, <1>3, ShapeAround
<1> QED
  BY <1>4 DEF op

\* One more patch is open, which leads from what the one around it patches.
LEMMA ShapePush ==
  ASSUME NEW ps, NEW S, ps \in Seq(S), NEW patch, NEW whole, PatchesShaped(ps, whole),
         PatchTarget(IF ps = << >> THEN Root ELSE ps[Len(ps)].target, patch.path)
           = patch.target,
         HasList(patch),
         \A u \in DOMAIN patch.updates :
           WellFormed(patch.target, patch.updates[u], Len(whole) - (Len(ps) + 1))
  PROVE  PatchesShaped(Append(ps, patch), whole)
<1> DEFINE more == Append(ps, patch)
           n == Len(ps)
<1>1. /\ n \in Nat /\ DOMAIN more = 1..(n + 1) /\ more[n + 1] = patch
      /\ \A i \in 1..n : more[i] = ps[i]
      /\ DOMAIN ps = 1..n /\ (ps = << >> <=> n = 0)
  <2>1. Len(more) = n + 1 /\ more \in Seq(S \cup {patch})
    <3>1. ps \in Seq(S \cup {patch})
      BY SeqMonotonic
    <3> QED
      BY <3>1, AppendProperties
  <2>2. /\ n \in Nat /\ DOMAIN ps = 1..n /\ (ps = << >> <=> n = 0)
        /\ DOMAIN more = 1..Len(more)
    BY <2>1, LenProperties, EmptySeq
  <2>3. more[n + 1] = patch /\ \A i \in 1..n : more[i] = ps[i]
    BY <2>1, <2>2
  <2> QED
    BY <2>1, <2>2, <2>3
<1> HIDE DEF more
<1>2. ASSUME NEW i \in 1..n
      PROVE  more[i] = ps[i] /\ Around(more, i) = Around(ps, i)
  <2>1. i # 1 => i - 1 \in 1..n
    BY <1>1
  <2> QED
    BY <1>1, <2>1 DEF Around
<1>3. Around(more, n + 1) = IF ps = << >> THEN Root ELSE ps[n].target
  <2>1. n # 0 => n \in 1..n /\ n + 1 # 1 /\ (n + 1) - 1 = n
    BY <1>1
  <2>2. n = 0 => n + 1 = 1
    BY <1>1
  <2> HIDE DEF n
  <2> QED
    BY <1>1, <2>1, <2>2 DEF Around
<1>4. \A i \in 1..(n + 1) : i = n + 1 \/ i \in 1..n
  BY <1>1
<1>5. PatchesShaped(more, whole)
  <2> SUFFICES ASSUME NEW i \in 1..(n + 1)
               PROVE  /\ PatchTarget(Around(more, i), more[i].path) = more[i].target
                      /\ HasList(more[i])
                      /\ \A u \in DOMAIN more[i].updates :
                           WellFormed(more[i].target, more[i].updates[u], Len(whole) - i)
    BY <1>1 DEF PatchesShaped
  <2>1. CASE i = n + 1
    BY <1>1, <1>3, <2>1
  <2>2. CASE i \in 1..n
    BY <1>1, <1>2, <2>2 DEF PatchesShaped
  <2> QED
    BY <1>4, <2>1, <2>2
<1> QED
  BY <1>5 DEF more

LEMMA OpenListShape ==
  ASSUME IInv, ShapeInv, IInv', Reads, pc \in {"patch", "target"}, UNCHANGED given,
         NEW patch, NEW s \in Seq(Token), Len(s) <= Len(text), OpenList(patch, s), patch.updates = << >>,
         PatchTarget(Base, patch.path) = patch.target, patch.target # Null
  PROVE  ShapeInv'
<1>1. /\ outcome' # "parsed" /\ pc' \in {"return", "update", "ended"}
  BY DEF OpenList, Complete, Fail, IInv, TypeOK
<1>2. PathLeads'
  BY <1>1 DEF PathLeads
<1>3. /\ Len(given) - Len(patches) \in Nat /\ Len(given) - Len(patches) > 0
      /\ Len(given) \in Nat /\ Len(text) \in Nat /\ Len(patches) \in Nat
      /\ Len(given) - (Len(patches) + 1) \in Nat
  BY Depth
<1>4. HasList(patch) /\ DOMAIN patch.updates = {}
  <2>1. << >> \in Seq({}) /\ DOMAIN << >> = {}
    BY EmptySeq
  <2> QED
    BY <2>1 DEF HasList
<1>5. CASE pc' # "update"
  <2>1. UNCHANGED patches
    BY <1>5 DEF OpenList
  <2>2. ASSUME pc' = "return"
        PROVE  WellFormed(Base, operation', Len(given) - Len(patches))
    <3>1. operation' = PatchOperation(patch)
      BY <2>2 DEF OpenList, Complete, Fail
    <3>2. WellFormed(Base, PatchOperation(patch), (Len(given) - (Len(patches) + 1)) + 1)
      BY <1>3, <1>4, PatchShape
    <3>3. (Len(given) - (Len(patches) + 1)) + 1 = Len(given) - Len(patches)
      BY <1>3
    <3> QED
      BY <3>1, <3>2, <3>3
  <2> QED
    BY <1>1, <1>2, <2>1, <2>2, ShapeKept
<1>6. CASE pc' = "update"
  <2>1. patches' = Append(patches, patch)
    BY <1>6 DEF OpenList, Complete, Fail
  <2>2. PICK S : patches \in Seq(S)
    BY DEF IInv, IsStack
  <2>3. PatchesShaped(patches', given)
    <3>1. PatchTarget(IF patches = << >> THEN Root ELSE patches[Len(patches)].target,
                      patch.path) = patch.target
      BY DEF Base, Innermost
    <3>2. PatchesShaped(patches, given)
      BY DEF ShapeInv
    <3> QED
      BY <1>4, <2>1, <2>2, <3>1, <3>2, ShapePush
  <2>4. Len(patches') = Len(patches) + 1
    BY <2>1, <2>2, AppendProperties
  <2>5. Len(text') < Len(text) /\ Len(text') \in Nat
    <3>1. Starts("{", s) /\ text' = Skip("sp", Tail(s))
      BY <1>6 DEF OpenList, Complete, Fail
    <3>2. Tail(s) \in Seq(Token) /\ Len(Tail(s)) = Len(s) - 1 /\ Len(s) \in Nat
      BY <3>1, TailReads DEF Starts
    <3>3. Len(text') \in Nat /\ Len(text') <= Len(Tail(s))
      BY <3>1, <3>2, SkipReads
    <3> QED
      BY <1>3, <3>2, <3>3
  <2>6. PatchesAreRead'
    <3>1. Len(patches) < Len(given) - Len(text)
      BY DEF ShapeInv, PatchesAreRead
    <3> QED
      BY <1>3, <1>6, <2>4, <2>5, <3>1 DEF PatchesAreRead
  <2>7. PatchesShaped(patches, given)'
    BY <2>3
  <2>8. OperationShaped'
    BY <1>6 DEF OperationShaped
  <2> QED
    BY <1>1, <1>2, <2>6, <2>7, <2>8 DEF ShapeInv, ParsedIsWellFormed
<1> QED
  BY <1>5, <1>6

LEMMA BeginPatchShape ==
  ASSUME IInv, ShapeInv, IInv', Reads, BeginPatch
  PROVE  ShapeInv'
<1> DEFINE s == Skip("sp", text)
<1>1. /\ pc = "patch" /\ UNCHANGED given /\ text \in Seq(Token) /\ s \in Seq(Token)
      /\ Len(s) <= Len(text)
  <2>1. text \in Seq(Token)
    BY DEF IInv, TypeOK
  <2> QED
    BY <2>1, SkipReads DEF BeginPatch
<1>2. CASE Starts("{", s)
  <2> DEFINE patch == [target |-> Base, path |-> << >>, updates |-> << >>]
  <2>1. OpenList(patch, s)
    BY <1>2 DEF BeginPatch
  <2>2. /\ patch.updates = << >> /\ PatchTarget(Base, patch.path) = patch.target
        /\ patch.target # Null
    <3>1. Base # Null
      BY BaseIsObject, ParseAssumption
    <3>2. PatchTarget(Base, << >>) = Base
      BY ReachedNone DEF PatchTarget, AtObject
    <3> QED
      BY <3>1, <3>2
  <2> HIDE DEF patch, s
  <2> QED
    BY <1>1, <2>1, <2>2, OpenListShape
<1>3. CASE ~Starts("{", s)
  <2>1. /\ pc' = "path" /\ UNCHANGED patches /\ outcome' # "parsed"
    BY <1>3 DEF BeginPatch, IInv, TypeOK
  <2>2. PathLeads'
    BY <2>1 DEF PathLeads
  <2> QED
    BY <1>1, <2>1, <2>2, ShapeKept
<1> QED
  BY <1>2, <1>3

LEMMA EndTargetShape ==
  ASSUME IInv, ShapeInv, IInv', Reads, EndTarget
  PROVE  ShapeInv'
<1> DEFINE s == Skip("sp", text)
<1>1. /\ pc = "target" /\ UNCHANGED given /\ text \in Seq(Token) /\ s \in Seq(Token)
      /\ Len(s) <= Len(text)
  <2>1. text \in Seq(Token)
    BY DEF IInv, TypeOK
  <2> QED
    BY <2>1, SkipReads DEF EndTarget
<1>2. CASE Patchable
  <2> DEFINE patch == [target |-> object, path |-> path, updates |-> << >>]
  <2>1. OpenList(patch, s)
    BY <1>2 DEF EndTarget
  <2>2. /\ patch.updates = << >> /\ PatchTarget(Base, patch.path) = patch.target
        /\ patch.target # Null
    BY <1>1, <1>2 DEF ShapeInv, PathLeads, Patchable
  <2> HIDE DEF patch, s
  <2> QED
    BY <1>1, <2>1, <2>2, OpenListShape
<1>3. CASE ~Patchable
  <2>1. /\ pc' = "ended" /\ UNCHANGED patches /\ outcome' # "parsed"
    BY <1>3 DEF EndTarget, Fail
  <2>2. PathLeads'
    BY <2>1 DEF PathLeads
  <2> QED
    BY <1>1, <2>1, <2>2, ShapeKept
<1> QED
  BY <1>2, <1>3

\* The stack without its last patch, and that patch with one more update.
LEMMA OuterShaped ==
  ASSUME IInv, ShapeInv, pc = "return", patches # << >>
  PROVE  LET patch == [target |-> Innermost.target, path |-> Innermost.path,
                       updates |-> Append(Innermost.updates, operation)]
         IN  /\ PatchesShaped(Outer, given)
             /\ PatchTarget(IF Outer = << >> THEN Root ELSE Outer[Len(Outer)].target,
                            patch.path) = patch.target
             /\ HasList(patch) /\ patch.target # Null
             /\ \A u \in DOMAIN patch.updates :
                  WellFormed(patch.target, patch.updates[u], Len(given) - Len(patches))
             /\ Len(Outer) = Len(patches) - 1 /\ \E S : Outer \in Seq(S)
<1> DEFINE patch == [target |-> Innermost.target, path |-> Innermost.path,
                     updates |-> Append(Innermost.updates, operation)]
           n == Len(patches)
<1>1. PICK S : patches \in Seq(S)
  BY DEF IInv, IsStack
<1>2. /\ n \in Nat /\ n > 0 /\ DOMAIN patches = 1..n /\ n \in 1..n
      /\ \A i \in 1..n : patches[i] \in S
  BY <1>1, EmptySeq
<1>3. /\ Outer \in Seq(S) /\ Len(Outer) = n - 1 /\ DOMAIN Outer = 1..(n - 1)
      /\ \A i \in 1..(n - 1) : Outer[i] = patches[i]
  <2>1. /\ SubSeq(patches, 1, n - 1) \in Seq(S)
        /\ Len(SubSeq(patches, 1, n - 1)) = n - 1
        /\ \A i \in 1..(n - 1) : SubSeq(patches, 1, n - 1)[i] = patches[i]
    <3>1. /\ 1 \in 1..(n + 1) /\ n - 1 \in (1 - 1)..n
          /\ n - 1 - 1 + 1 = n - 1
      BY <1>2
    <3> HIDE DEF n
    <3> QED
      BY <1>1, <1>2, <3>1, SubSeqProperties DEF n
  <2> QED
    BY <2>1, LenProperties DEF Outer
<1>4. Outer = << >> <=> n = 1
  BY <1>2, <1>3, EmptySeq
<1> HIDE DEF n
<1>5. ASSUME NEW i \in 1..(n - 1)
      PROVE  Around(Outer, i) = Around(patches, i) /\ i \in 1..n
  <2>1. i # 1 => i - 1 \in 1..(n - 1)
    BY <1>2
  <2>2. i \in 1..n
    BY <1>2
  <2> QED
    BY <1>3, <2>1, <2>2 DEF Around
<1>6. \A i \in 1..n :
        /\ PatchTarget(Around(patches, i), patches[i].path) = patches[i].target
        /\ HasList(patches[i])
        /\ \A u \in DOMAIN patches[i].updates :
             WellFormed(patches[i].target, patches[i].updates[u], Len(given) - i)
  BY <1>2 DEF ShapeInv, PatchesShaped
<1>7. PatchesShaped(Outer, given)
  BY <1>3, <1>5, <1>6 DEF PatchesShaped
<1>8. Innermost = patches[n]
  BY DEF Innermost, n
<1>9. (IF Outer = << >> THEN Root ELSE Outer[Len(Outer)].target) = Around(patches, n)
  <2>1. n # 1 => n - 1 \in 1..(n - 1)
    BY <1>2
  <2> QED
    BY <1>3, <1>4, <2>1 DEF Around
<1>10. /\ patch.path = patches[n].path /\ patch.target = patches[n].target
       /\ patch.updates = Append(patches[n].updates, operation)
  BY <1>8
<1>11. WellFormed(patches[n].target, operation, Len(given) - n)
  BY <1>8 DEF ShapeInv, OperationShaped, Base, n
<1>12. PICK E : patches[n].updates \in Seq(E)
  BY <1>2, <1>6 DEF HasList
<1>13. /\ patch.updates \in Seq(E \cup {operation})
       /\ \A u \in DOMAIN patch.updates :
            \/ patch.updates[u] = operation
            \/ u \in DOMAIN patches[n].updates /\ patch.updates[u] = patches[n].updates[u]
  <2> DEFINE list == patches[n].updates
             F == E \cup {operation}
  <2>1. list \in Seq(F) /\ operation \in F
    BY <1>12, SeqMonotonic
  <2> HIDE DEF list, F
  <2>2. /\ Append(list, operation) \in Seq(F)
        /\ \A u \in DOMAIN Append(list, operation) :
             \/ Append(list, operation)[u] = operation
             \/ u \in DOMAIN list /\ Append(list, operation)[u] = list[u]
    BY <2>1
  <2> QED
    BY <1>10, <2>2 DEF list, F
<1>14. patches[n].target # Null
  <2>1. \A i \in DOMAIN patches : IsPatch(patches[i])
    BY StackTypes DEF IInv
  <2> QED
    BY <1>2, <2>1, ParseAssumption DEF IsPatch
<1> HIDE DEF patch
<1>15. /\ PatchTarget(Around(patches, n), patch.path) = patch.target
       /\ HasList(patch) /\ patch.target # Null
       /\ \A u \in DOMAIN patch.updates :
            WellFormed(patch.target, patch.updates[u], Len(given) - n)
  BY <1>2, <1>6, <1>10, <1>11, <1>13, <1>14 DEF HasList
<1> QED
  BY <1>3, <1>7, <1>9, <1>15 DEF patch, n

LEMMA EndUpdateShape ==
  ASSUME IInv, ShapeInv, IInv', Reads, EndUpdate
  PROVE  ShapeInv'
<1> DEFINE patch == [target |-> Innermost.target, path |-> Innermost.path,
                     updates |-> Append(Innermost.updates, operation)]
           s == Skip("sp", text)
           closing == Skip("sp", s)
<1>1. /\ pc = "return" /\ patches # << >> /\ UNCHANGED given
      /\ pc' \in {"return", "update", "ended"} /\ outcome' # "parsed"
  BY DEF EndUpdate, Complete, Fail, IInv, TypeOK
<1>2. /\ PatchesShaped(Outer, given)
      /\ PatchTarget(IF Outer = << >> THEN Root ELSE Outer[Len(Outer)].target,
                     patch.path) = patch.target
      /\ HasList(patch) /\ patch.target # Null
      /\ \A u \in DOMAIN patch.updates :
           WellFormed(patch.target, patch.updates[u], Len(given) - Len(patches))
      /\ Len(Outer) = Len(patches) - 1 /\ \E S : Outer \in Seq(S)
  BY <1>1, OuterShaped
<1>3. /\ Len(given) - Len(patches) \in Nat /\ Len(given) - Len(patches) > 0
      /\ Len(given) \in Nat /\ Len(text) \in Nat /\ Len(patches) \in Nat
      /\ Len(patches) < Len(given) - Len(text)
  BY <1>1, Depth DEF ShapeInv, PatchesAreRead
<1>4. Len(text') \in Nat /\ Len(text') <= Len(text)
  BY <1>3, LenProperties DEF IInv, TypeOK, Reads
<1>5. PathLeads'
  BY <1>1 DEF PathLeads
<1>6. \/ /\ patches' = Append(Outer, patch) /\ pc' = "update"
      \/ /\ patches' = Outer /\ pc' = "return" /\ operation' = PatchOperation(patch)
      \/ /\ patches' = patches /\ pc' = "ended"
  BY DEF EndUpdate, Complete, Fail
<1> HIDE DEF patch
<1>7. CASE patches' = Append(Outer, patch) /\ pc' = "update"
  <2>1. PICK S : Outer \in Seq(S)
    BY <1>2
  <2>2. Len(Append(Outer, patch)) = Len(patches)
    BY <1>2, <1>3, <2>1, AppendProperties
  <2>3. Len(given) - (Len(Outer) + 1) = Len(given) - Len(patches)
    BY <1>2, <1>3
  <2>4. PatchesShaped(Append(Outer, patch), given)
    BY <1>2, <2>1, <2>3, ShapePush
  <2>5. PatchesShaped(patches, given)'
    BY <1>1, <1>7, <2>4
  <2>6. PatchesAreRead'
    BY <1>1, <1>3, <1>4, <1>7, <2>2 DEF PatchesAreRead
  <2>7. OperationShaped'
    BY <1>7 DEF OperationShaped
  <2> QED
    BY <1>1, <1>5, <2>5, <2>6, <2>7 DEF ShapeInv, ParsedIsWellFormed
<1>8. CASE /\ patches' = Outer /\ pc' = "return"
           /\ operation' = PatchOperation(patch)
  <2>1. PatchesShaped(patches, given)'
    BY <1>1, <1>2, <1>8
  <2>2. PatchesAreRead'
    BY <1>1, <1>2, <1>3, <1>4, <1>8 DEF PatchesAreRead
  <2>3. Base' = IF Outer = << >> THEN Root ELSE Outer[Len(Outer)].target
    BY <1>8 DEF Base, Innermost
  <2>4. (Len(given) - Len(patches)) + 1 = Len(given) - Len(Outer)
    BY <1>2, <1>3
  <2>5. WellFormed(IF Outer = << >> THEN Root ELSE Outer[Len(Outer)].target,
                   PatchOperation(patch), (Len(given) - Len(patches)) + 1)
    BY <1>2, <1>3, PatchShape
  <2>6. OperationShaped'
    BY <1>1, <1>8, <2>3, <2>4, <2>5 DEF OperationShaped
  <2> QED
    BY <1>1, <1>5, <2>1, <2>2, <2>6 DEF ShapeInv, ParsedIsWellFormed
<1>9. CASE patches' = patches /\ pc' = "ended"
  BY <1>1, <1>5, <1>9, ShapeKept
<1> QED
  BY <1>6, <1>7, <1>8, <1>9

LEMMA EndRequestShape ==
  ASSUME IInv, ShapeInv, IInv', Reads, EndRequest
  PROVE  ShapeInv'
<1>1. /\ pc = "return" /\ patches = << >> /\ pc' = "ended"
      /\ UNCHANGED <<given, text, patches, operation>>
  BY DEF EndRequest
<1>2. Len(given) - Len(patches) = Len(given)
  <2>1. Len(patches) = 0 /\ Len(given) \in Nat
    BY <1>1, Depth, EmptySeq
  <2> QED
    BY <2>1
<1>3. WellFormed(Root, operation, Len(given))
  BY <1>1, <1>2 DEF ShapeInv, OperationShaped, Base
<1>4. PatchesShaped(patches, given)'
  BY <1>1 DEF ShapeInv, PatchesShaped, Around
<1> QED
  BY <1>1, <1>3, <1>4 DEF ShapeInv, ParsedIsWellFormed, PatchesAreRead, PathLeads,
     OperationShaped

LEMMA InitShape == Init => ShapeInv
<1> SUFFICES ASSUME Init PROVE ShapeInv
  OBVIOUS
<1>1. DOMAIN patches = {}
  BY DEF Init
<1> QED
  BY <1>1 DEF Init, ShapeInv, PatchesAreRead, PatchesShaped, PathLeads, OperationShaped,
     ParsedIsWellFormed

LEMMA NextShape == IInv /\ ShapeInv /\ [Next]_vars => ShapeInv'
<1>1. IInv /\ ShapeInv /\ Next => ShapeInv'
  BY NextReads, ReadVerbShape, BeginPathShape, ReadSegmentShape, LeafStepShape,
     BeginPatchShape, EndTargetShape, EndUpdateShape, EndRequestShape DEF Next
<1>2. ShapeInv /\ UNCHANGED vars => ShapeInv'
  <2> SUFFICES ASSUME ShapeInv, UNCHANGED vars PROVE ShapeInv'
    OBVIOUS
  <2>1. UNCHANGED <<given, text, pc, verb, patches, path, object, field, inVector,
                    operation, outcome>>
    BY DEF vars
  <2>2. Base' = Base /\ Patchable' = Patchable
    BY <2>1 DEF Base, Innermost, Patchable
  <2>3. PatchesShaped(patches, given)'
    BY <2>1 DEF ShapeInv, PatchesShaped, Around
  <2> QED
    BY <2>1, <2>2, <2>3 DEF ShapeInv, PatchesAreRead, PathLeads, OperationShaped,
       ParsedIsWellFormed
<1> QED
  BY <1>1, <1>2

\* Whatever the schema and the text, and however deep its patches nest, a request
\* that is parsed is one the apply's own test of its shape passes: patchTarget
\* comes to the object the parser read each patch's operations from.
THEOREM ParsedHasShape == Spec => []ParsedIsWellFormed
<1>1. ShapeInv => ParsedIsWellFormed
  BY DEF ShapeInv
<1> QED
  BY <1>1, InitShape, NextShape, Invariance, PTL DEF Spec

-----------------------------------------------------------------------------
(* Sequences laid end to end, and what each of their elements is replaced by. *)

AlongParts(parts_) == [along |-> "parts", parts |-> parts_]

LEMMA SequenceIsAFunction ==
  ASSUME NEW S, NEW s \in Seq(S)
  PROVE  s = [i \in 1..Len(s) |-> s[i]]
<1>1. s \in [1..Len(s) -> S]
  OBVIOUS
<1> QED
  BY <1>1

LEMMA FunctionIsASequence ==
  ASSUME NEW S, NEW m \in Nat, NEW s, s = [i \in 1..m |-> s[i]],
         \A i \in 1..m : s[i] \in S
  PROVE  s \in Seq(S) /\ Len(s) = m /\ DOMAIN s = 1..m
<1>1. s \in [1..m -> S]
  BY Zenon
<1> QED
  BY <1>1

LEMMA Associates ==
  ASSUME NEW S
  PROVE  \A a, b, c \in Seq(S) : (a \o b) \o c = a \o (b \o c)
BY ConcatAssociative, SMTT(30)

LEMMA FlattenGoes ==
  ASSUME NEW E, NEW parts \in Seq(Seq(E))
  PROVE  \E g : /\ Goes(g, AlongParts(parts), << >>, Len(parts))
                /\ FlattenSeq(parts) = g[Len(parts)]
                /\ FlattenSeq(parts) \in Seq(E)
<1> DEFINE n == Len(parts)
           Laid(f) == f = [i \in 1..n |-> IF i = 1 THEN parts[i] ELSE f[i - 1] \o parts[i]]
<1>1. n \in Nat /\ n \in 0..n /\ 0 \in 0..n /\ (n = 0 <=> parts = << >>)
  BY EmptySeq
<1>2. \A i \in 1..n : parts[i] \in Seq(E) /\ i \in 0..n /\ i # 0 /\ i - 1 \in 0..n
  OBVIOUS
<1> HIDE DEF n
<1>3. PICK g : Goes(g, AlongParts(parts), << >>, n)
  BY <1>1, TurnByTurn
<1>4. \A i, v : Turn(AlongParts(parts), i, v) = v \o parts[i]
  BY DEF Turn, AlongParts
<1>5. g[0] = << >> /\ \A i \in 1..n : g[i] = g[i - 1] \o parts[i]
  BY <1>1, <1>2, <1>3, <1>4 DEF Goes
<1>6. \A i \in 0..n : g[i] \in Seq(E)
  <2> DEFINE typed == {i \in 0..n : g[i] \in Seq(E)}
  <2>1. 0 \in typed
    BY <1>1, <1>5, EmptySeq
  <2>2. \A i \in 1..n : i - 1 \in typed => i \in typed
    BY <1>2, <1>5, ConcatProperties
  <2> HIDE DEF typed
  <2>3. \A i \in 0..n : i \in typed
    BY <1>1, <2>1, <2>2, UpTo
  <2> QED
    BY <2>3 DEF typed
<1>7. CASE n = 0
  <2>1. FlattenSeq(parts) = << >>
    BY <1>1, <1>7 DEF FlattenSeq, n
  <2> QED
    BY <1>1, <1>3, <1>5, <1>6, <1>7, <2>1 DEF n
<1>8. CASE n # 0
  <2> DEFINE f == CHOOSE f : Laid(f)
             h == [i \in 1..n |-> g[i]]
  <2>1. 1 \in 1..n /\ n \in 1..n /\ \A i \in 1..n : i # 1 => i - 1 \in 1..n
    BY <1>1, <1>8
  <2>2. \A i \in 1..n : g[i] = IF i = 1 THEN parts[i] ELSE g[i - 1] \o parts[i]
    <3>1. 1 - 1 = 0
      OBVIOUS
    <3>2. << >> \o parts[1] = parts[1]
      BY <1>2, <2>1, ConcatEmptySeq
    <3> QED
      BY <1>5, <2>1, <3>1, <3>2
  <2>3. Laid(h)
    <3>1. \A i \in 1..n : h[i] = IF i = 1 THEN parts[i] ELSE h[i - 1] \o parts[i]
      BY <2>1, <2>2
    <3>2. h = [i \in 1..n |-> h[i]]
      OBVIOUS
    <3> HIDE DEF h
    <3> QED
      BY <3>1, <3>2
  <2>4. Laid(f)
    BY <2>3
  <2>5. FlattenSeq(parts) = f[n]
    BY <1>8 DEF FlattenSeq, n
  <2> HIDE DEF f
  <2>6. \A i \in 1..n : f[i] = IF i = 1 THEN parts[i] ELSE f[i - 1] \o parts[i]
    BY <2>4, Zenon
  <2> DEFINE same == {i \in 0..n : i = 0 \/ f[i] = g[i]}
  <2>7. 0 \in same
    BY <1>1
  <2>8. \A i \in 1..n : i - 1 \in same => i \in same
    <3>1. \A i \in 1..n : i - 1 = 0 => i = 1
      OBVIOUS
    <3> QED
      BY <1>2, <2>2, <2>6, <3>1, Zenon
  <2> HIDE DEF same, Laid
  <2>9. \A i \in 0..n : i \in same
    BY <1>1, <2>7, <2>8, UpTo
  <2>10. f[n] = g[n]
    BY <1>1, <1>8, <2>9 DEF same
  <2> QED
    BY <1>1, <1>3, <1>6, <2>5, <2>10 DEF n
<1> QED
  BY <1>7, <1>8

LEMMA FlattenNone == FlattenSeq(<< >>) = << >>
<1>1. Len(<< >>) = 0
  OBVIOUS
<1> QED
  BY <1>1 DEF FlattenSeq

\* One part more is laid at the end.
LEMMA FlattenOn ==
  ASSUME NEW E, NEW parts \in Seq(Seq(E)), NEW part \in Seq(E)
  PROVE  /\ FlattenSeq(parts) \in Seq(E)
         /\ FlattenSeq(Append(parts, part)) = FlattenSeq(parts) \o part
<1> DEFINE more == Append(parts, part)
           n == Len(parts)
<1>1. /\ more \in Seq(Seq(E)) /\ Len(more) = n + 1 /\ n \in Nat /\ more[n + 1] = part
      /\ \A i \in 1..n : more[i] = parts[i]
  BY AppendProperties
<1> HIDE DEF more, n
<1>2. PICK g : /\ Goes(g, AlongParts(parts), << >>, n) /\ FlattenSeq(parts) = g[n]
               /\ FlattenSeq(parts) \in Seq(E)
  BY FlattenGoes DEF n
<1>3. PICK h : Goes(h, AlongParts(more), << >>, n + 1) /\ FlattenSeq(more) = h[n + 1]
  BY <1>1, FlattenGoes
<1>4. SameTurns(AlongParts(parts), AlongParts(more), n)
  BY <1>1 DEF SameTurns, Turn, AlongParts
<1>5. n + 1 \in Nat /\ n \in 0..(n + 1) /\ n \in 0..n
  BY <1>1
<1>6. \A i \in 0..n : g[i] = h[i]
  BY <1>2, <1>3, <1>4, <1>5, OneWay
<1>7. n + 1 \in 0..(n + 1) /\ n + 1 # 0 /\ (n + 1) - 1 = n
  BY <1>1
<1>8. h[n + 1] = Turn(AlongParts(more), n + 1, h[n])
  BY <1>3, <1>7 DEF Goes
<1>9. Turn(AlongParts(more), n + 1, h[n]) = h[n] \o part
  BY <1>1 DEF Turn, AlongParts
<1> QED
  BY <1>2, <1>3, <1>5, <1>6, <1>8, <1>9 DEF more

LEMMA FlattenOne ==
  ASSUME NEW E, NEW part \in Seq(E)
  PROVE  FlattenSeq(<<part>>) = part
<1>1. << >> \in Seq(Seq(E)) /\ Append(<< >>, part) = <<part>> /\ << >> \o part = part
  BY ConcatEmptySeq
<1> QED
  BY <1>1, FlattenOn, FlattenNone

\* What an element is replaced by: a space by nothing, an operation by its tokens.
Piece(how, item) ==
  IF how = "squeeze"
    THEN IF item.kind = "sp" THEN << >> ELSE <<item>>
    ELSE IF item.kind = "operation"
           THEN OperationTokens(item.def, item.operation, << >>)
           ELSE <<item>>
Spread(how, s) == FlattenSeq([i \in DOMAIN s |-> Piece(how, s[i])])

LEMMA SpreadsAre ==
  /\ \A s : Squeezed(s) = Spread("squeeze", s)
  /\ \A s : WrittenOnce(s, << >>) = Spread("write", s)
BY DEF Squeezed, WrittenOnce, Spread, Piece

Spreads(how, I, E) == \A x \in I : Piece(how, x) \in Seq(E)

LEMMA SpreadOn ==
  ASSUME NEW how, NEW I, NEW E, Spreads(how, I, E), NEW s \in Seq(I), NEW x \in I
  PROVE  /\ Spread(how, s) \in Seq(E)
         /\ Spread(how, Append(s, x)) = Spread(how, s) \o Piece(how, x)
<1> DEFINE parts == [i \in DOMAIN s |-> Piece(how, s[i])]
           t == Append(s, x)
           more == [i \in DOMAIN t |-> Piece(how, t[i])]
<1>1. /\ Len(s) \in Nat /\ DOMAIN s = 1..Len(s) /\ DOMAIN t = 1..(Len(s) + 1)
      /\ \A i \in 1..Len(s) : s[i] \in I /\ t[i] = s[i]
      /\ t[Len(s) + 1] = x
  OBVIOUS
<1> HIDE DEF t
<1>2. parts \in Seq(Seq(E)) /\ Len(parts) = Len(s)
  BY <1>1 DEF Spreads
<1>3. Piece(how, x) \in Seq(E)
  BY DEF Spreads
<1>4. more = Append(parts, Piece(how, x))
  <2>1. /\ DOMAIN Append(parts, Piece(how, x)) = 1..(Len(s) + 1)
        /\ Append(parts, Piece(how, x))[Len(s) + 1] = Piece(how, x)
        /\ \A i \in 1..Len(s) : Append(parts, Piece(how, x))[i] = parts[i]
    BY <1>2, <1>3, AppendProperties, LenProperties
  <2>2. \A i \in 1..Len(s) : parts[i] = Piece(how, s[i])
    BY <1>1
  <2>3. Append(parts, Piece(how, x)) = [i \in 1..(Len(s) + 1) |-> Append(parts, Piece(how, x))[i]]
    <3>1. /\ Append(parts, Piece(how, x)) \in Seq(Seq(E))
          /\ Len(Append(parts, Piece(how, x))) = Len(s) + 1
      BY <1>2, <1>3, AppendProperties
    <3> HIDE DEF parts
    <3> QED
      BY <3>1, SequenceIsAFunction, Zenon
  <2>4. \A i \in 1..(Len(s) + 1) : i = Len(s) + 1 \/ i \in 1..Len(s)
    BY <1>1
  <2> HIDE DEF parts
  <2>5. \A i \in 1..(Len(s) + 1) : Append(parts, Piece(how, x))[i] = Piece(how, t[i])
    BY <1>1, <2>1, <2>2, <2>4
  <2> QED
    BY <1>1, <2>3, <2>5
<1> HIDE DEF parts, more
<1>5. /\ FlattenSeq(parts) \in Seq(E)
      /\ FlattenSeq(more) = FlattenSeq(parts) \o Piece(how, x)
  BY <1>2, <1>3, <1>4, FlattenOn
<1> QED
  BY <1>5 DEF Spread, parts, more, t

LEMMA SpreadNone ==
  ASSUME NEW how
  PROVE  Spread(how, << >>) = << >>
<1>1. [i \in DOMAIN << >> |-> Piece(how, << >>[i])] = << >>
  OBVIOUS
<1> QED
  BY <1>1, FlattenNone DEF Spread

LEMMA SpreadType ==
  ASSUME NEW how, NEW I, NEW E, Spreads(how, I, E), NEW s \in Seq(I)
  PROVE  Spread(how, s) \in Seq(E)
<1>1. CASE s = << >>
  BY <1>1, SpreadNone, EmptySeq
<1>2. CASE s # << >>
  <2>1. PICK x \in I : TRUE
    BY <1>2, EmptySeq
  <2> QED
    BY <2>1, SpreadOn
<1> QED
  BY <1>1, <1>2

LEMMA SpreadOne ==
  ASSUME NEW how, NEW I, NEW E, Spreads(how, I, E), NEW x \in I
  PROVE  Spread(how, <<x>>) = Piece(how, x)
<1>1. << >> \in Seq(I) /\ Append(<< >>, x) = <<x>>
  OBVIOUS
<1>2. Piece(how, x) \in Seq(E)
  BY DEF Spreads
<1>3. << >> \o Piece(how, x) = Piece(how, x)
  BY <1>2, ConcatEmptySeq
<1>4. Spread(how, Append(<< >>, x)) = Spread(how, << >>) \o Piece(how, x)
  BY <1>1, SpreadOn
<1> QED
  BY <1>1, <1>3, <1>4, SpreadNone

LEMMA SpreadConcat ==
  ASSUME NEW how, NEW I, NEW E, Spreads(how, I, E), NEW s \in Seq(I), NEW t \in Seq(I)
  PROVE  Spread(how, s \o t) = Spread(how, s) \o Spread(how, t)
<1> DEFINE upto(n) == SubSeq(t, 1, n)
           split == {n \in 0..Len(t) :
                       Spread(how, s \o upto(n)) = Spread(how, s) \o Spread(how, upto(n))}
<1>1. Len(t) \in Nat /\ Len(t) \in 0..Len(t) /\ 0 \in 0..Len(t)
  OBVIOUS
<1>2. Spread(how, s) \in Seq(E)
  BY SpreadType
<1>3. 0 \in split
  <2>1. upto(0) = << >> /\ s \o << >> = s
    OBVIOUS
  <2>2. Spread(how, s) \o << >> = Spread(how, s)
    BY <1>2, ConcatEmptySeq
  <2> QED
    BY <1>1, <2>1, <2>2, SpreadNone
<1>4. ASSUME NEW n \in 1..Len(t), n - 1 \in split
      PROVE  n \in split
  <2>1. /\ upto(n) = Append(upto(n - 1), t[n]) /\ upto(n - 1) \in Seq(I) /\ t[n] \in I
        /\ n \in 0..Len(t)
    OBVIOUS
  <2> HIDE DEF upto
  <2>2. s \o upto(n) = Append(s \o upto(n - 1), t[n]) /\ s \o upto(n - 1) \in Seq(I)
    BY <2>1
  <2>3. /\ Spread(how, s \o upto(n)) = Spread(how, s \o upto(n - 1)) \o Piece(how, t[n])
        /\ Spread(how, upto(n)) = Spread(how, upto(n - 1)) \o Piece(how, t[n])
        /\ Spread(how, upto(n - 1)) \in Seq(E)
    BY <2>1, <2>2, SpreadOn
  <2>4. Piece(how, t[n]) \in Seq(E)
    BY <2>1 DEF Spreads
  <2>5. (Spread(how, s) \o Spread(how, upto(n - 1))) \o Piece(how, t[n]) =
          Spread(how, s) \o (Spread(how, upto(n - 1)) \o Piece(how, t[n]))
    <3> DEFINE a == Spread(how, s)
               b == Spread(how, upto(n - 1))
               c == Piece(how, t[n])
    <3>1. a \in Seq(E) /\ b \in Seq(E) /\ c \in Seq(E)
      BY <1>2, <2>3, <2>4
    <3> HIDE DEF a, b, c
    <3>2. \A x, y, z \in Seq(E) : (x \o y) \o z = x \o (y \o z)
      BY Associates
    <3>3. (a \o b) \o c = a \o (b \o c)
      BY <3>1, <3>2, Zenon
    <3> QED
      BY <3>3 DEF a, b, c
  <2>6. Spread(how, s \o upto(n - 1)) = Spread(how, s) \o Spread(how, upto(n - 1))
    BY <1>4
  <2> QED
    BY <2>1, <2>3, <2>5, <2>6
<1> HIDE DEF split
<1>5. \A n \in 0..Len(t) : n \in split
  BY <1>1, <1>3, <1>4, UpTo
<1>6. upto(Len(t)) = t
  OBVIOUS
<1> QED
  BY <1>1, <1>5, <1>6 DEF split

-----------------------------------------------------------------------------
(* How a path is written: its tokens go on as the path does.                 *)

LEMMA TokenTypes ==
  /\ \A kind \in Verbs \cup Marks : Mark(kind) \in Token
  /\ \A n \in Nat : Name(n) \in Token /\ Index(n) \in Token
  /\ \A p \in Payloads : Value(p) \in Token
BY DEF Token, Mark, Name, Index, Value

AlongPlaces(path_) == [along |-> "places", path |-> path_]
Start(def) == IF def \in DOMAIN Objects THEN AtObject(def) ELSE Nowhere
Place(def, p) == Places(def, p)[Len(p)]

LEMMA PlacesGo ==
  ASSUME NEW def, NEW p \in Seq(Nat)
  PROVE  Goes(Places(def, p), AlongPlaces(p), Start(def), Len(p))
<1> DEFINE rec == AlongPlaces(p)
           Laid(g) == g = [n \in 0..Len(p) |->
                             IF n = 0 THEN IF def \in DOMAIN Objects THEN AtObject(def) ELSE Nowhere
                             ELSE PathStep(g[n - 1], p[n])]
           g == CHOOSE g : Laid(g)
<1>1. Len(p) \in Nat
  OBVIOUS
<1>2. \A n, v : Turn(rec, n, v) = PathStep(v, p[n])
  BY DEF Turn, AlongPlaces
<1>3. \A h : Goes(h, rec, Start(def), Len(p)) <=> Laid(h)
  <2> HIDE DEF rec
  <2> QED
    BY <1>2 DEF Goes, Start
<1>4. \E h : Laid(h)
  BY <1>1, <1>3, TurnByTurn
<1>5. Laid(g)
  BY <1>4
<1>6. Places(def, p) = g
  BY DEF Places
<1> HIDE DEF rec, Laid, g
<1> QED
  BY <1>3, <1>5, <1>6 DEF rec

LEMMA PlacesOn ==
  ASSUME NEW def, NEW p \in Seq(Nat), NEW step \in Nat
  PROVE  /\ \A n \in 0..Len(p) : Places(def, p \o <<step>>)[n] = Places(def, p)[n]
         /\ Place(def, p \o <<step>>) = PathStep(Place(def, p), step)
<1> DEFINE q == p \o <<step>>
           n == Len(p)
           g == Places(def, p)
           h == Places(def, q)
<1>1. /\ q \in Seq(Nat) /\ Len(q) = n + 1 /\ n \in Nat /\ q[n + 1] = step
      /\ \A i \in 1..n : q[i] = p[i]
  OBVIOUS
<1> HIDE DEF q, n
<1>2. Goes(g, AlongPlaces(p), Start(def), n)
  BY PlacesGo DEF n
<1>3. Goes(h, AlongPlaces(q), Start(def), n + 1)
  BY <1>1, PlacesGo
<1> HIDE DEF g, h
<1>4. SameTurns(AlongPlaces(p), AlongPlaces(q), n)
  BY <1>1 DEF SameTurns, Turn, AlongPlaces
<1>5. n + 1 \in Nat /\ n \in 0..(n + 1) /\ n \in 0..n
  BY <1>1
<1>6. \A i \in 0..n : g[i] = h[i]
  BY <1>2, <1>3, <1>4, <1>5, OneWay
<1>7. n + 1 \in 0..(n + 1) /\ n + 1 # 0 /\ (n + 1) - 1 = n
  BY <1>1
<1>8. h[n + 1] = Turn(AlongPlaces(q), n + 1, h[n])
  BY <1>3, <1>7 DEF Goes
<1>9. Turn(AlongPlaces(q), n + 1, h[n]) = PathStep(h[n], step)
  BY <1>1 DEF Turn, AlongPlaces
<1>10. h[n + 1] = PathStep(g[n], step)
  BY <1>5, <1>6, <1>8, <1>9
<1>11. Place(def, q) = h[n + 1] /\ Place(def, p) = g[n]
  BY <1>1 DEF Place, g, h, n
<1> QED
  BY <1>6, <1>10, <1>11 DEF q, g, h, n

LEMMA PathNone ==
  ASSUME NEW def
  PROVE  /\ Place(def, << >>) = Start(def)
         /\ PathTokens(def, << >>) = << >>
<1>1. << >> \in Seq(Nat) /\ Len(<< >>) = 0 /\ 0 \in 0..0 /\ DOMAIN << >> = {}
  OBVIOUS
<1>2. Goes(Places(def, << >>), AlongPlaces(<< >>), Start(def), 0)
  BY <1>1, PlacesGo
<1>3. Places(def, << >>)[0] = Start(def)
  BY <1>1, <1>2 DEF Goes
<1>4. [n \in DOMAIN << >> |-> StepTokens(Places(def, << >>)[n - 1], n, << >>[n])] = << >>
  BY <1>1
<1>5. PathTokens(def, << >>) = << >>
  BY <1>4, FlattenNone DEF PathTokens
<1> QED
  BY <1>1, <1>3, <1>5 DEF Place

LEMMA StepTokensType ==
  ASSUME NEW at, NEW n, NEW step \in Nat
  PROVE  StepTokens(at, n, step) \in Seq(Token)
<1>1. /\ Mark("[") \in Token /\ Mark("]") \in Token /\ Mark(".") \in Token
      /\ Name(step) \in Token /\ Index(step) \in Token
  BY TokenTypes DEF Marks
<1>2. <<Mark("["), Index(step), Mark("]")>> \in Seq(Token)
  BY <1>1
<1>3. <<Name(step)>> \in Seq(Token) /\ <<Mark(".")>> \in Seq(Token) /\ << >> \in Seq(Token)
  BY <1>1
<1>4. << >> \o <<Name(step)>> \in Seq(Token) /\ <<Mark(".")>> \o <<Name(step)>> \in Seq(Token)
  BY <1>3, ConcatProperties
<1> QED
  BY <1>2, <1>4 DEF StepTokens

LEMMA PathTokensOn ==
  ASSUME NEW def, NEW p \in Seq(Nat), NEW step \in Nat
  PROVE  /\ PathTokens(def, p) \in Seq(Token)
         /\ PathTokens(def, p \o <<step>>) =
              PathTokens(def, p) \o StepTokens(Place(def, p), Len(p) + 1, step)
<1> DEFINE q == p \o <<step>>
           m == Len(p)
           g == Places(def, p)
           h == Places(def, q)
           parts == [n \in DOMAIN p |-> StepTokens(g[n - 1], n, p[n])]
           more == [n \in DOMAIN q |-> StepTokens(h[n - 1], n, q[n])]
           last == StepTokens(Place(def, p), m + 1, step)
<1>1. /\ q \in Seq(Nat) /\ m \in Nat /\ q[m + 1] = step
      /\ DOMAIN q = 1..(m + 1) /\ DOMAIN p = 1..m
      /\ \A i \in 1..m : q[i] = p[i] /\ p[i] \in Nat
  OBVIOUS
<1>2. \A n \in 0..m : h[n] = g[n]
  BY PlacesOn
<1>3. Place(def, p) = g[m]
  BY DEF Place
<1> HIDE DEF q, m, g, h
<1>4. /\ \A n \in 1..m : n - 1 \in 0..m /\ n \in 1..(m + 1)
      /\ m \in 0..m /\ (m + 1) - 1 = m
      /\ \A n \in 1..(m + 1) : n = m + 1 \/ n \in 1..m
  BY <1>1
<1>5. /\ parts \in Seq(Seq(Token)) /\ Len(parts) = m /\ DOMAIN parts = 1..m
      /\ last \in Seq(Token)
  <2>1. \A n \in 1..m : parts[n] \in Seq(Token)
    BY <1>1, StepTokensType
  <2>2. last \in Seq(Token)
    BY StepTokensType
  <2>3. DOMAIN parts = 1..m /\ parts = [n \in 1..m |-> parts[n]]
    BY <1>1
  <2> HIDE DEF parts, last
  <2> QED
    BY <1>1, <2>1, <2>2, <2>3, FunctionIsASequence, Zenon
<1>6. more = Append(parts, last)
  <2> DEFINE longer == Append(parts, last)
  <2>1. \A n \in 1..m : more[n] = StepTokens(g[n - 1], n, p[n])
    BY <1>1, <1>2, <1>4
  <2>2. more[m + 1] = last
    BY <1>1, <1>2, <1>3, <1>4
  <2>3. more = [n \in 1..(m + 1) |-> more[n]]
    BY <1>1
  <2>4. \A n \in 1..m : parts[n] = StepTokens(g[n - 1], n, p[n])
    BY <1>1
  <2> HIDE DEF parts, last, more
  <2>5. /\ longer \in Seq(Seq(Token)) /\ Len(longer) = m + 1 /\ longer[m + 1] = last
        /\ \A n \in 1..m : longer[n] = parts[n]
    BY <1>5, AppendProperties
  <2> HIDE DEF longer
  <2>6. longer = [n \in 1..(m + 1) |-> longer[n]]
    BY <2>5, SequenceIsAFunction, Zenon
  <2>7. \A n \in 1..(m + 1) : more[n] = longer[n]
    BY <1>4, <2>1, <2>2, <2>4, <2>5
  <2>8. more = longer
    BY <2>3, <2>6, <2>7, Zenon
  <2> QED
    BY <2>8 DEF longer
<1>7. PathTokens(def, p) = FlattenSeq(parts) /\ PathTokens(def, q) = FlattenSeq(more)
  BY DEF PathTokens, g, h
<1> HIDE DEF parts, more, last
<1>8. FlattenSeq(parts) \in Seq(Token) /\ FlattenSeq(more) = FlattenSeq(parts) \o last
  BY <1>5, <1>6, FlattenOn
<1> QED
  BY <1>7, <1>8 DEF q, last, m

-----------------------------------------------------------------------------
(* What the parser reads, a token after another and spaces apart.            *)

LEMMA TokenForms ==
  ASSUME NEW t \in Token
  PROVE  /\ t.kind \in Verbs \cup Marks => t = Mark(t.kind)
         /\ t.kind = "name" => t.name \in Nat /\ t = Name(t.name)
         /\ t.kind = "index" => t.index \in Nat /\ t = Index(t.index)
         /\ t.kind = "value" => t.payload \in Payloads /\ t = Value(t.payload)
         /\ t.kind # "operation"
<1>1. CASE t \in [kind : Verbs \cup Marks]
  <2>1. t = [kind |-> t.kind] /\ t.kind \in Verbs \cup Marks
    BY <1>1
  <2> QED
    BY <2>1 DEF Mark, Verbs, Marks
<1>2. CASE t \in [kind : {"name"}, name : Nat]
  <2>1. t = [kind |-> "name", name |-> t.name] /\ t.name \in Nat /\ t.kind = "name"
    BY <1>2
  <2> QED
    BY <2>1 DEF Name, Verbs, Marks
<1>3. CASE t \in [kind : {"index"}, index : Nat]
  <2>1. t = [kind |-> "index", index |-> t.index] /\ t.index \in Nat /\ t.kind = "index"
    BY <1>3
  <2> QED
    BY <2>1 DEF Index, Verbs, Marks
<1>4. CASE t \in [kind : {"value"}, payload : Payloads]
  <2>1. /\ t = [kind |-> "value", payload |-> t.payload] /\ t.payload \in Payloads
        /\ t.kind = "value"
    BY <1>4
  <2> QED
    BY <2>1 DEF Value, Verbs, Marks
<1> QED
  BY <1>1, <1>2, <1>3, <1>4 DEF Token

LEMMA TokenPieces ==
  /\ Spreads("squeeze", Token, Token)
  /\ Spreads("write", Token, Token)
  /\ \A t \in Token : Piece("write", t) = <<t>>
  /\ \A t \in Token : Piece("squeeze", t) = IF t.kind = "sp" THEN << >> ELSE <<t>>
<1>1. \A t \in Token : t.kind # "operation"
  BY TokenForms
<1>2. \A t \in Token : Piece("write", t) = <<t>>
  BY <1>1 DEF Piece
<1>3. \A t \in Token : Piece("squeeze", t) = IF t.kind = "sp" THEN << >> ELSE <<t>>
  BY DEF Piece
<1>4. \A t \in Token : <<t>> \in Seq(Token) /\ << >> \in Seq(Token)
  OBVIOUS
<1> QED
  BY <1>2, <1>3, <1>4 DEF Spreads

LEMMA HeadAndTail ==
  ASSUME NEW S, NEW s \in Seq(S), s # << >>
  PROVE  s = <<s[1]>> \o Tail(s) /\ <<s[1]>> \in Seq(S) /\ Tail(s) \in Seq(S)
OBVIOUS

\* A space is nothing; any other token is there.
LEMMA SqueezedReads ==
  ASSUME NEW s \in Seq(Token)
  PROVE  /\ Squeezed(s) \in Seq(Token)
         /\ s # << >> =>
              Squeezed(s) = (IF s[1].kind = "sp" THEN << >> ELSE <<s[1]>>) \o Squeezed(Tail(s))
         /\ s # << >> /\ s[1].kind = "sp" => Squeezed(s) = Squeezed(Tail(s))
<1>1. \A t \in Seq(Token) : Squeezed(t) \in Seq(Token)
  BY TokenPieces, SpreadType, SpreadsAre
<1>2. ASSUME s # << >>
      PROVE  Squeezed(s) = (IF s[1].kind = "sp" THEN << >> ELSE <<s[1]>>) \o Squeezed(Tail(s))
  <2>1. s = <<s[1]>> \o Tail(s) /\ <<s[1]>> \in Seq(Token) /\ Tail(s) \in Seq(Token)
    BY <1>2, HeadAndTail, Zenon
  <2>2. s[1] \in Token
    BY <1>2, TailReads
  <2>3. Spread("squeeze", <<s[1]>> \o Tail(s)) =
          Spread("squeeze", <<s[1]>>) \o Spread("squeeze", Tail(s))
    BY <2>1, TokenPieces, SpreadConcat
  <2>4. Spread("squeeze", <<s[1]>>) = IF s[1].kind = "sp" THEN << >> ELSE <<s[1]>>
    BY <2>2, TokenPieces, SpreadOne
  <2> QED
    BY <2>1, <2>3, <2>4, SpreadsAre
<1>3. ASSUME s # << >>, s[1].kind = "sp"
      PROVE  Squeezed(s) = Squeezed(Tail(s))
  <2>1. Squeezed(s) = << >> \o Squeezed(Tail(s))
    BY <1>2, <1>3
  <2>2. Squeezed(Tail(s)) \in Seq(Token)
    BY <1>1, <1>3, TailReads
  <2>3. << >> \o Squeezed(Tail(s)) = Squeezed(Tail(s))
    BY <2>2, ConcatEmptySeq
  <2> QED
    BY <2>1, <2>3
<1> QED
  BY <1>1, <1>2, <1>3

LEMMA SqueezedNone == Squeezed(<< >>) = << >>
BY SpreadNone, SpreadsAre

LEMMA SqueezedSkip ==
  ASSUME NEW s \in Seq(Token)
  PROVE  Squeezed(Skip("sp", s)) = Squeezed(s)
BY SqueezedReads DEF Skip, Starts

LEMMA SqueezedSpaces ==
  ASSUME NEW s \in Seq(Token), NothingLeft(s)
  PROVE  Squeezed(s) = << >>
<1> DEFINE upto(n) == SubSeq(s, 1, n)
           empty == {n \in 0..Len(s) : Squeezed(upto(n)) = << >>}
<1>1. Len(s) \in Nat /\ Len(s) \in 0..Len(s) /\ 0 \in 0..Len(s)
  OBVIOUS
<1>2. 0 \in empty
  <2>1. upto(0) = << >>
    OBVIOUS
  <2> QED
    BY <1>1, <2>1, SqueezedNone
<1>3. ASSUME NEW n \in 1..Len(s), n - 1 \in empty
      PROVE  n \in empty
  <2>1. /\ upto(n) = Append(upto(n - 1), s[n]) /\ upto(n - 1) \in Seq(Token)
        /\ s[n] \in Token /\ n \in 0..Len(s) /\ n \in DOMAIN s
    OBVIOUS
  <2> HIDE DEF upto
  <2>2. Piece("squeeze", s[n]) = << >>
    BY <2>1 DEF Piece, NothingLeft
  <2>3. Spread("squeeze", upto(n)) = Spread("squeeze", upto(n - 1)) \o << >>
    BY <2>1, <2>2, TokenPieces, SpreadOn
  <2>4. Spread("squeeze", upto(n - 1)) = << >>
    BY <1>3, SpreadsAre
  <2>5. << >> \o << >> = << >>
    OBVIOUS
  <2> QED
    BY <2>1, <2>3, <2>4, <2>5, SpreadsAre
<1> HIDE DEF empty
<1>4. \A n \in 0..Len(s) : n \in empty
  BY <1>1, <1>2, <1>3, UpTo
<1>5. upto(Len(s)) = s
  OBVIOUS
<1> QED
  BY <1>1, <1>4, <1>5 DEF empty

\* Spaces, a value, and what comes after it.
LEMMA SqueezedValue ==
  ASSUME NEW s \in Seq(Token), NEW v \in ValuesAt(s)
  PROVE  /\ v.payload \in Payloads
         /\ Squeezed(s) = <<Value(v.payload)>> \o Squeezed(v.rest)
<1>1. PICK n \in DOMAIN s :
        /\ s[n].kind = "value" /\ \A i \in 1..(n - 1) : s[i].kind = "sp"
        /\ v = [payload |-> s[n].payload, rest |-> SubSeq(s, n + 1, Len(s))]
  BY DEF ValuesAt
<1> DEFINE spaces == SubSeq(s, 1, n - 1)
           after == SubSeq(s, n + 1, Len(s))
<1>2. s[n] \in Token
  BY <1>1
<1>3. s[n].payload \in Payloads /\ s[n] = Value(s[n].payload)
  BY <1>1, <1>2, TokenForms
<1>4. /\ spaces \in Seq(Token) /\ after \in Seq(Token) /\ <<s[n]>> \in Seq(Token)
      /\ s = spaces \o (<<s[n]>> \o after)
      /\ DOMAIN spaces = 1..(n - 1) /\ \A i \in 1..(n - 1) : spaces[i] = s[i]
  <2>1. n \in 1..Len(s) /\ Len(s) \in Nat
    BY <1>1
  <2>2. spaces \in Seq(Token) /\ Len(spaces) = n - 1 /\ \A i \in 1..(n - 1) : spaces[i] = s[i]
    BY <2>1
  <2>3. after \in Seq(Token) /\ Len(after) = Len(s) - n
        /\ \A i \in 1..(Len(s) - n) : after[i] = s[n + i]
    BY <2>1
  <2>4. <<s[n]>> \in Seq(Token)
    BY <1>2
  <2>5. s = spaces \o (<<s[n]>> \o after)
    <3> DEFINE t == <<s[n]>> \o after
               u == spaces \o t
    <3>1. /\ t \in Seq(Token) /\ Len(t) = Len(s) - n + 1 /\ t[1] = s[n]
          /\ \A i \in 1..(Len(s) - n) : t[i + 1] = s[n + i]
      BY <2>1, <2>3, <2>4
    <3> HIDE DEF t, spaces, after
    <3>2. /\ u \in Seq(Token) /\ Len(u) = Len(s)
          /\ \A i \in 1..(n - 1) : u[i] = s[i]
          /\ \A i \in n..Len(s) : u[i] = t[i - (n - 1)]
      BY <2>1, <2>2, <3>1
    <3>3. \A i \in n..Len(s) : t[i - (n - 1)] = s[i]
      <4> SUFFICES ASSUME NEW i \in n..Len(s)
                   PROVE  t[i - (n - 1)] = s[i]
        OBVIOUS
      <4>1. CASE i = n
        <5>1. n - (n - 1) = 1
          BY <2>1
        <5> QED
          BY <3>1, <4>1, <5>1
      <4>2. CASE i # n
        <5>1. i - n \in 1..(Len(s) - n) /\ (i - n) + 1 = i - (n - 1) /\ n + (i - n) = i
          BY <2>1, <4>2
        <5> QED
          BY <3>1, <5>1
      <4> QED
        BY <4>1, <4>2
    <3>4. \A i \in 1..Len(s) : i \in 1..(n - 1) \/ i \in n..Len(s)
      BY <2>1
    <3> HIDE DEF u
    <3>5. \A i \in 1..Len(s) : u[i] = s[i]
      BY <3>2, <3>3, <3>4
    <3>6. u = [i \in 1..Len(s) |-> u[i]] /\ s = [i \in 1..Len(s) |-> s[i]]
      BY <3>2, SequenceIsAFunction, Zenon
    <3>7. u = s
      BY <3>5, <3>6, Zenon
    <3> QED
      BY <3>7 DEF u, t
  <2> HIDE DEF spaces, after
  <2>6. DOMAIN spaces = 1..(n - 1)
    BY <2>2, LenProperties
  <2> QED
    BY <2>2, <2>3, <2>4, <2>5, <2>6
<1> HIDE DEF spaces, after
<1>5. Squeezed(spaces) = << >>
  BY <1>1, <1>4, SqueezedSpaces DEF NothingLeft
<1>6. <<s[n]>> \o after \in Seq(Token)
  BY <1>4, ConcatProperties
<1>7. Spread("squeeze", s) = Spread("squeeze", spaces) \o Spread("squeeze", <<s[n]>> \o after)
  BY <1>4, <1>6, TokenPieces, SpreadConcat
<1>8. Spread("squeeze", <<s[n]>> \o after) =
        Spread("squeeze", <<s[n]>>) \o Spread("squeeze", after)
  BY <1>4, TokenPieces, SpreadConcat
<1>9. Spread("squeeze", <<s[n]>>) = <<s[n]>>
  BY <1>1, <1>2, TokenPieces, SpreadOne
<1>10. Spread("squeeze", s) = << >> \o (<<s[n]>> \o Spread("squeeze", after))
  BY <1>5, <1>7, <1>8, <1>9, SpreadsAre
<1>11. <<s[n]>> \o Spread("squeeze", after) \in Seq(Token)
  BY <1>4, TokenPieces, SpreadType, ConcatProperties
<1>12. Spread("squeeze", s) = <<s[n]>> \o Spread("squeeze", after)
  BY <1>10, <1>11, ConcatEmptySeq
<1> QED
  BY <1>1, <1>3, <1>12, SpreadsAre DEF after

-----------------------------------------------------------------------------
(* Laying end to end, for what only its laws are needed of.                  *)

Cat(s, t) == s \o t
One(x) == <<x>>

LEMMA CatAssociates ==
  ASSUME NEW S, NEW a \in Seq(S), NEW b \in Seq(S), NEW c \in Seq(S)
  PROVE  Cat(Cat(a, b), c) = Cat(a, Cat(b, c))
BY ConcatAssociative, SMTT(30) DEF Cat

LEMMA Cats ==
  ASSUME NEW S
  PROVE  /\ \A a, b \in Seq(S) : Cat(a, b) \in Seq(S)
         /\ \A a, b, c \in Seq(S) : Cat(Cat(a, b), c) = Cat(a, Cat(b, c))
         /\ \A a \in Seq(S) : Cat(<< >>, a) = a /\ Cat(a, << >>) = a
         /\ << >> \in Seq(S) /\ \A x \in S : One(x) \in Seq(S)
<1>1. \A a, b \in Seq(S) : Cat(a, b) \in Seq(S)
  BY DEF Cat
<1>2. \A a \in Seq(S) : Cat(<< >>, a) = a /\ Cat(a, << >>) = a
  BY ConcatEmptySeq DEF Cat
<1>3. << >> \in Seq(S) /\ \A x \in S : One(x) \in Seq(S)
  BY DEF One
<1> QED
  BY <1>1, <1>2, <1>3, CatAssociates

LEMMA Pairs ==
  ASSUME NEW S, NEW a \in S, NEW b \in S
  PROVE  <<a>> \o <<b>> = <<a, b>> /\ <<a, b>> \in Seq(S)
<1> DEFINE s == <<a>> \o <<b>>
           t == <<a, b>>
<1>1. <<a>> \in Seq(S) /\ <<b>> \in Seq(S) /\ Len(<<a>>) = 1 /\ Len(<<b>>) = 1
      /\ <<a>>[1] = a /\ <<b>>[1] = b
  OBVIOUS
<1>2. s \in Seq(S) /\ Len(s) = 2 /\ s[1] = a /\ s[2] = b
  BY <1>1, ConcatProperties
<1>3. t \in Seq(S) /\ Len(t) = 2 /\ t[1] = a /\ t[2] = b
  OBVIOUS
<1> HIDE DEF s, t
<1>4. s = [i \in 1..2 |-> s[i]] /\ t = [i \in 1..2 |-> t[i]]
  BY <1>2, <1>3, SequenceIsAFunction
<1>5. \A i \in 1..2 : i = 1 \/ i = 2
  OBVIOUS
<1>6. \A i \in 1..2 : s[i] = t[i]
  BY <1>2, <1>3, <1>5
<1>7. s = t
  BY <1>4, <1>6, Zenon
<1> QED
  BY <1>3, <1>7 DEF s, t

LEMMA Triples ==
  ASSUME NEW S, NEW a \in S, NEW b \in S, NEW c \in S
  PROVE  <<a, b>> \o <<c>> = <<a, b, c>> /\ <<a, b, c>> \in Seq(S)
<1> DEFINE s == <<a, b>> \o <<c>>
           t == <<a, b, c>>
<1>1. <<a, b>> \in Seq(S) /\ <<c>> \in Seq(S) /\ Len(<<a, b>>) = 2 /\ Len(<<c>>) = 1
      /\ <<a, b>>[1] = a /\ <<a, b>>[2] = b /\ <<c>>[1] = c
  OBVIOUS
<1>2. s \in Seq(S) /\ Len(s) = 3 /\ s[1] = a /\ s[2] = b /\ s[3] = c
  BY <1>1, ConcatProperties
<1>3. t \in Seq(S) /\ Len(t) = 3 /\ t[1] = a /\ t[2] = b /\ t[3] = c
  OBVIOUS
<1> HIDE DEF s, t
<1>4. s = [i \in 1..3 |-> s[i]] /\ t = [i \in 1..3 |-> t[i]]
  BY <1>2, <1>3, SequenceIsAFunction
<1>5. \A i \in 1..3 : i = 1 \/ i = 2 \/ i = 3
  OBVIOUS
<1>6. \A i \in 1..3 : s[i] = t[i]
  BY <1>2, <1>3, <1>5
<1>7. s = t
  BY <1>4, <1>6, Zenon
<1> QED
  BY <1>3, <1>7 DEF s, t

LEMMA Ones ==
  ASSUME NEW S, NEW a \in S, NEW b \in S, NEW c \in S
  PROVE  /\ <<a, b>> = Cat(One(a), One(b))
         /\ <<a, b, c>> = Cat(One(a), Cat(One(b), One(c)))
<1>1. <<a, b>> = Cat(One(a), One(b))
  BY Pairs DEF Cat, One
<1>2. <<a, b, c>> = Cat(<<a, b>>, One(c))
  BY Triples DEF Cat, One
<1>3. One(a) \in Seq(S) /\ One(b) \in Seq(S) /\ One(c) \in Seq(S)
  BY Cats
<1>4. Cat(Cat(One(a), One(b)), One(c)) = Cat(One(a), Cat(One(b), One(c)))
  BY <1>3, CatAssociates
<1> QED
  BY <1>1, <1>2, <1>4, Zenon

-----------------------------------------------------------------------------
(* That the tokens of a path are those its steps are written with.           *)

Dot(p) == IF p = << >> THEN << >> ELSE One(Mark("."))
Named(p, n) == Cat(Dot(p), One(Name(n)))
Indexed(k) == Cat(One(Mark("[")), Cat(One(Index(k)), One(Mark("]"))))
Member(k) == Cat(One(Mark(".")), One(Name(k)))
Later(at, k) == IF at.awaits = "element" THEN Indexed(k) ELSE Member(k)

LEMMA LaterTokens ==
  ASSUME NEW at, NEW n \in Nat, n > 1, NEW k \in Nat
  PROVE  /\ StepTokens(at, n, k) = Later(at, k)
         /\ Indexed(k) \in Seq(Token) /\ Member(k) \in Seq(Token)
<1>1. /\ Mark(".") \in Token /\ Mark("[") \in Token /\ Mark("]") \in Token
      /\ Name(k) \in Token /\ Index(k) \in Token
  BY TokenTypes DEF Marks
<1>2. <<Mark("["), Index(k), Mark("]")>> = Indexed(k)
  BY <1>1, Ones DEF Indexed
<1>3. <<Mark(".")>> \o <<Name(k)>> = Member(k)
  BY DEF Member, Cat, One
<1>4. n # 1
  OBVIOUS
<1>5. Indexed(k) \in Seq(Token) /\ Member(k) \in Seq(Token)
  BY <1>1, Cats DEF Indexed, Member
<1> QED
  BY <1>2, <1>3, <1>4, <1>5, Zenon DEF StepTokens, Later

\* A path goes on with one step, after others.
LEMMA StepWrites ==
  ASSUME NEW d, NEW p \in Seq(Nat), p # << >>, NEW k \in Nat
  PROVE  /\ Cat(p, One(k)) \in Seq(Nat) /\ Cat(p, One(k)) # << >>
         /\ PathTokens(d, p) \in Seq(Token)
         /\ PathTokens(d, Cat(p, One(k))) = Cat(PathTokens(d, p), Later(Place(d, p), k))
         /\ Place(d, Cat(p, One(k))) = PathStep(Place(d, p), k)
<1>1. Len(p) + 1 \in Nat /\ Len(p) + 1 > 1
  BY EmptySeq
<1>2. /\ PathTokens(d, p) \in Seq(Token)
      /\ PathTokens(d, p \o <<k>>) =
           PathTokens(d, p) \o StepTokens(Place(d, p), Len(p) + 1, k)
      /\ Place(d, p \o <<k>>) = PathStep(Place(d, p), k)
  BY PathTokensOn, PlacesOn
<1>3. StepTokens(Place(d, p), Len(p) + 1, k) = Later(Place(d, p), k)
  BY <1>1, LaterTokens
<1>4. p \o <<k>> \in Seq(Nat) /\ p \o <<k>> # << >>
  OBVIOUS
<1> QED
  BY <1>2, <1>3, <1>4, Zenon DEF Cat, One

\* A path goes on with a field of the object it is at.
LEMMA FieldStepWrites ==
  ASSUME NEW d, NEW p \in Seq(Nat), NEW n \in Nat, NEW def, Place(d, p) = AtObject(def)
  PROVE  /\ Cat(p, One(n)) \in Seq(Nat) /\ Cat(p, One(n)) # << >>
         /\ PathTokens(d, p) \in Seq(Token) /\ Dot(p) \in Seq(Token)
         /\ PathTokens(d, Cat(p, One(n))) = Cat(PathTokens(d, p), Named(p, n))
         /\ Place(d, Cat(p, One(n))) = PathStep(AtObject(def), n)
<1>1. Len(p) + 1 = 1 <=> p = << >>
  BY EmptySeq
<1>2. /\ PathTokens(d, p) \in Seq(Token)
      /\ PathTokens(d, p \o <<n>>) =
           PathTokens(d, p) \o StepTokens(Place(d, p), Len(p) + 1, n)
      /\ Place(d, p \o <<n>>) = PathStep(Place(d, p), n)
  BY PathTokensOn, PlacesOn
<1>3. Place(d, p).awaits # "element"
  BY DEF AtObject
<1>4. StepTokens(Place(d, p), Len(p) + 1, n) = Named(p, n)
  BY <1>1, <1>3, Zenon DEF StepTokens, Named, Dot, Cat, One
<1>5. p \o <<n>> \in Seq(Nat) /\ p \o <<n>> # << >>
  OBVIOUS
<1>6. Dot(p) \in Seq(Token)
  BY TokenTypes, Cats DEF Dot, Marks
<1> QED
  BY <1>2, <1>4, <1>5, <1>6, Zenon DEF Cat, One

-----------------------------------------------------------------------------
(* What is read is what is written.                                          *)

LEMMA SqueezedToken ==
  ASSUME NEW s \in Seq(Token), s # << >>, s[1].kind # "sp"
  PROVE  /\ Tail(s) \in Seq(Token)
         /\ Squeezed(s) \in Seq(Token) /\ Squeezed(Tail(s)) \in Seq(Token)
         /\ s[1] \in Token
         /\ Squeezed(s) = Cat(One(s[1]), Squeezed(Tail(s)))
<1>1. Tail(s) \in Seq(Token) /\ s[1] \in Token
  BY TailReads
<1>2. Squeezed(s) = <<s[1]>> \o Squeezed(Tail(s))
  BY SqueezedReads
<1> QED
  BY <1>1, <1>2, SqueezedReads DEF Cat, One

\* A mark that is read is the mark.
LEMMA SqueezedMark ==
  ASSUME NEW s \in Seq(Token), NEW kind \in (Verbs \cup Marks) \ {"sp"}, Starts(kind, s)
  PROVE  /\ Tail(s) \in Seq(Token) /\ Squeezed(Tail(s)) \in Seq(Token)
         /\ Mark(kind) \in Token
         /\ Squeezed(s) = Cat(One(Mark(kind)), Squeezed(Tail(s)))
<1>1. s # << >> /\ s[1].kind = kind
  BY DEF Starts
<1>2. s[1] = Mark(kind)
  BY <1>1, TailReads, TokenForms
<1> QED
  BY <1>1, <1>2, SqueezedToken

LEMMA SqueezedName ==
  ASSUME NEW s \in Seq(Token), NEW n \in NameAt(s)
  PROVE  /\ n.name \in Nat /\ n.rest \in Seq(Token) /\ Squeezed(n.rest) \in Seq(Token)
         /\ Name(n.name) \in Token
         /\ Squeezed(s) = Cat(One(Name(n.name)), Squeezed(n.rest))
<1>1. s # << >> /\ s[1].kind = "name" /\ n = [name |-> s[1].name, rest |-> Tail(s)]
  BY DEF NameAt, Starts
<1>2. s[1] = Name(n.name) /\ n.name \in Nat
  BY <1>1, TailReads, TokenForms
<1> QED
  BY <1>1, <1>2, SqueezedToken

\* A bracket, an index and the bracket that closes it.
LEMMA SqueezedIndex ==
  ASSUME NEW s \in Seq(Token), Starts("[", s), NEW i \in IndexAt(Tail(s))
  PROVE  /\ i.index \in Nat /\ i.rest \in Seq(Token) /\ Squeezed(i.rest) \in Seq(Token)
         /\ Squeezed(s) = Cat(Indexed(i.index), Squeezed(i.rest))
<1> DEFINE t == Tail(s)
           u == Tail(t)
<1>1. /\ t \in Seq(Token) /\ Mark("[") \in Token
      /\ Squeezed(s) = Cat(One(Mark("[")), Squeezed(t))
  BY SqueezedMark DEF Marks
<1>2. /\ t # << >> /\ t[1].kind = "index" /\ Starts("]", u)
      /\ i = [index |-> t[1].index, rest |-> Tail(u)]
  BY DEF IndexAt, Starts
<1>3. /\ u \in Seq(Token) /\ t[1] \in Token
      /\ Squeezed(t) = Cat(One(t[1]), Squeezed(u))
  BY <1>1, <1>2, SqueezedToken
<1>4. t[1].index \in Nat /\ t[1] = Index(t[1].index)
  BY <1>2, <1>3, TokenForms
<1>5. /\ Tail(u) \in Seq(Token) /\ Squeezed(Tail(u)) \in Seq(Token) /\ Mark("]") \in Token
      /\ Squeezed(u) = Cat(One(Mark("]")), Squeezed(Tail(u)))
  BY <1>2, <1>3, SqueezedMark DEF Marks
<1> HIDE DEF t, u
<1>6. i.index = t[1].index /\ i.rest = Tail(u)
  BY <1>2
<1>7. Squeezed(s) = Cat(One(Mark("[")), Cat(One(Index(i.index)),
                        Cat(One(Mark("]")), Squeezed(i.rest))))
  BY <1>1, <1>3, <1>4, <1>5, <1>6
<1>8. Index(i.index) \in Token
  BY <1>4, <1>6, TokenTypes
<1>9. Cat(One(Mark("[")), Cat(One(Index(i.index)), Cat(One(Mark("]")), Squeezed(i.rest)))) =
        Cat(Indexed(i.index), Squeezed(i.rest))
  BY <1>1, <1>5, <1>6, <1>8, Cats DEF Indexed
<1> QED
  BY <1>4, <1>5, <1>6, <1>7, <1>9

\* A dot and a member's name.
LEMMA SqueezedMember ==
  ASSUME NEW s \in Seq(Token), Starts(".", s), NEW n \in NameAt(Tail(s))
  PROVE  /\ n.name \in Nat /\ n.rest \in Seq(Token) /\ Squeezed(n.rest) \in Seq(Token)
         /\ Squeezed(s) = Cat(Member(n.name), Squeezed(n.rest))
<1>1. /\ Tail(s) \in Seq(Token) /\ Mark(".") \in Token
      /\ Squeezed(s) = Cat(One(Mark(".")), Squeezed(Tail(s)))
  BY SqueezedMark DEF Marks
<1>2. /\ n.name \in Nat /\ n.rest \in Seq(Token) /\ Squeezed(n.rest) \in Seq(Token)
      /\ Name(n.name) \in Token
      /\ Squeezed(Tail(s)) = Cat(One(Name(n.name)), Squeezed(n.rest))
  BY <1>1, SqueezedName
<1> QED
  BY <1>1, <1>2, Cats DEF Member

\* What a field's reading reads is what its steps are written with, and no path
\* goes on but from the object it leads to.
Writes(d, p, q, s) ==
  \E read \in Seq(Token) :
    /\ Squeezed(s) = Cat(read, Squeezed(q.rest))
    /\ PathTokens(d, Cat(p, q.steps)) = Cat(PathTokens(d, p), read)
    /\ q.object # Null /\ Starts(".", q.rest) =>
         Place(d, Cat(p, q.steps)) = AtObject(q.object)

\* A field that is read by its name alone.
LEMMA NothingWrites ==
  ASSUME NEW d, NEW p \in Seq(Nat), NEW s \in Seq(Token), PathTokens(d, p) \in Seq(Token),
         NEW q, q.steps = << >>, q.rest = s,
         q.object # Null /\ Starts(".", s) => Place(d, p) = AtObject(q.object)
  PROVE  Writes(d, p, q, s)
<1>1. Cat(p, q.steps) = p
  BY Cats
<1>2. Squeezed(s) \in Seq(Token)
  BY SqueezedReads
<1>3. << >> \in Seq(Token) /\ Squeezed(s) = Cat(<< >>, Squeezed(s))
      /\ Cat(PathTokens(d, p), << >>) = PathTokens(d, p)
  BY <1>2, Cats
<1> QED
  BY <1>1, <1>3 DEF Writes

LEMMA UnionWrites ==
  ASSUME NEW d, NEW p \in Seq(Nat), p # << >>, NEW enum, Place(d, p) = AtUnion(enum),
         NEW f, f.of = enum, NEW s \in Seq(Token), NEW writing,
         NEW u \in UnionName(f, s, writing)
  PROVE  Writes(d, p, u, s) /\ u.steps \in Seq(Nat)
<1>0. PathTokens(d, p) \in Seq(Token)
  BY PathTokensOn
<1>1. CASE Starts(".", s)
  <2>1. PICK n \in NameAt(Tail(s)) :
          /\ IsTableMember(f.of, n.name)
          /\ u = [steps |-> <<n.name>>, object |-> MemberDef(f.of, n.name), rest |-> n.rest]
    BY <1>1 DEF UnionName
  <2>2. /\ n.name \in Nat /\ Squeezed(s) = Cat(Member(n.name), Squeezed(n.rest))
    BY <1>1, SqueezedMember
  <2>3. u.steps = One(n.name) /\ u.rest = n.rest /\ u.object = MemberDef(enum, n.name)
    BY <2>1 DEF One
  <2>4. /\ PathTokens(d, Cat(p, One(n.name))) =
             Cat(PathTokens(d, p), Later(AtUnion(enum), n.name))
        /\ Place(d, Cat(p, One(n.name))) = PathStep(AtUnion(enum), n.name)
    <3>1. /\ PathTokens(d, Cat(p, One(n.name))) =
               Cat(PathTokens(d, p), Later(Place(d, p), n.name))
          /\ Place(d, Cat(p, One(n.name))) = PathStep(Place(d, p), n.name)
      BY <2>2, StepWrites
    <3> QED
      BY <3>1
  <2>5. Later(AtUnion(enum), n.name) = Member(n.name)
    BY DEF Later, AtUnion
  <2>6. PathStep(AtUnion(enum), n.name) = AtObject(u.object)
    BY <2>1, <2>3 DEF PathStep, PatchStep, AtUnion, IntoMember
  <2>7. Member(n.name) \in Seq(Token) /\ u.steps \in Seq(Nat)
    <3>1. 2 \in Nat /\ 2 > 1
      OBVIOUS
    <3> QED
      BY <2>2, <2>3, <3>1, LaterTokens, Cats
  <2>8. /\ Squeezed(s) = Cat(Member(n.name), Squeezed(u.rest))
        /\ PathTokens(d, Cat(p, u.steps)) = Cat(PathTokens(d, p), Member(n.name))
        /\ Place(d, Cat(p, u.steps)) = AtObject(u.object)
    BY <2>2, <2>3, <2>4, <2>5, <2>6, Zenon
  <2> QED
    BY <2>7, <2>8 DEF Writes
<1>2. CASE ~Starts(".", s)
  <2>1. u = [steps |-> << >>, object |-> Null, rest |-> s]
    BY <1>2 DEF UnionName
  <2>2. Writes(d, p, u, s)
    BY <1>0, <2>1, NothingWrites
  <2> QED
    BY <2>1, <2>2, NoStep
<1> QED
  BY <1>1, <1>2

\* An element's index, and then the steps into it.
LEMMA IndexWrites ==
  ASSUME NEW d, NEW p \in Seq(Nat), p # << >>, NEW f, Place(d, p) = AtVector(f),
         NEW s \in Seq(Token), Starts("[", s), NEW i \in IndexAt(Tail(s)),
         NEW q, NEW u, u.steps \in Seq(Nat), q.steps = Cat(One(i.index), u.steps), q.rest = u.rest,
         q.object = u.object, u.rest \in Seq(Token),
         Writes(d, Cat(p, One(i.index)), u, i.rest)
  PROVE  Writes(d, p, q, s)
<1> DEFINE into == Cat(p, One(i.index))
<1>1. /\ i.index \in Nat /\ i.rest \in Seq(Token) /\ Squeezed(i.rest) \in Seq(Token)
      /\ Squeezed(s) = Cat(Indexed(i.index), Squeezed(i.rest))
  BY SqueezedIndex
<1>2. /\ PathTokens(d, p) \in Seq(Token)
      /\ PathTokens(d, into) = Cat(PathTokens(d, p), Indexed(i.index))
  <2>1. Later(AtVector(f), i.index) = Indexed(i.index)
    BY DEF Later, AtVector
  <2>2. /\ PathTokens(d, p) \in Seq(Token)
        /\ PathTokens(d, Cat(p, One(i.index))) =
             Cat(PathTokens(d, p), Later(Place(d, p), i.index))
    BY <1>1, StepWrites
  <2> QED
    BY <2>1, <2>2
<1>3. Cat(p, q.steps) = Cat(into, u.steps)
  <2>1. One(i.index) \in Seq(Nat)
    BY <1>1, Cats
  <2>2. Cat(Cat(p, One(i.index)), u.steps) = Cat(p, Cat(One(i.index), u.steps))
    BY <2>1, CatAssociates
  <2> QED
    BY <2>2
<1>4. PICK read \in Seq(Token) :
        /\ Squeezed(i.rest) = Cat(read, Squeezed(u.rest))
        /\ PathTokens(d, Cat(into, u.steps)) = Cat(PathTokens(d, into), read)
        /\ u.object # Null /\ Starts(".", u.rest) =>
             Place(d, Cat(into, u.steps)) = AtObject(u.object)
  BY DEF Writes
<1> DEFINE all == Cat(Indexed(i.index), read)
<1>5. Indexed(i.index) \in Seq(Token)
  <2>1. 2 \in Nat /\ 2 > 1
    OBVIOUS
  <2> QED
    BY <1>1, <2>1, LaterTokens
<1>6. Squeezed(u.rest) \in Seq(Token)
  BY SqueezedReads
<1> HIDE DEF into
<1>7. all \in Seq(Token)
  BY <1>5, Cats
<1>8. Squeezed(s) = Cat(all, Squeezed(q.rest))
  BY <1>1, <1>4, <1>5, <1>6, Cats
<1>9. PathTokens(d, Cat(p, q.steps)) = Cat(PathTokens(d, p), all)
  BY <1>2, <1>3, <1>4, <1>5, Cats
<1>10. q.object # Null /\ Starts(".", q.rest) =>
         Place(d, Cat(p, q.steps)) = AtObject(q.object)
  BY <1>3, <1>4
<1> HIDE DEF all
<1> QED
  BY <1>7, <1>8, <1>9, <1>10 DEF Writes

LEMMA FieldWrites ==
  ASSUME NEW d, NEW p \in Seq(Nat), p # << >>, NEW def \in DOMAIN Objects,
         NEW n \in Offsets(def), ~IsDiscriminant(FieldAt(def, n)),
         Place(d, p) = PathStep(AtObject(def), n),
         NEW s \in Seq(Token), NEW writing \in BOOLEAN,
         NEW q \in FieldReading(FieldAt(def, n), s, writing)
  PROVE  Writes(d, p, q, s)
<1> DEFINE f == FieldAt(def, n)
<1>1. f \in Objects[def]
  BY DEF Offsets, FieldAt
<1>2. PathTokens(d, p) \in Seq(Token)
  BY PathTokensOn
<1>3. Place(d, p) =
        CASE f.base \in {"Vector", "Vector64", "Array"} -> AtVector(f)
          [] f.base \in {"Table", "Struct"} -> AtObject(f.of)
          [] f.base = "Union" -> AtUnion(f.of)
          [] OTHER -> Nowhere
  <2>1. PathStep(AtObject(def), n) = IF IsIndexed(f) THEN AtVector(f) ELSE IntoField(def, n)
    BY DEF PathStep, PatchStep, AtObject
  <2>2. IntoField(def, n) =
          CASE f.base \in {"Table", "Struct"} -> AtObject(f.of)
            [] f.base = "Union" -> AtUnion(f.of)
            [] f.base = "Vector" -> AtVector(f)
            [] OTHER -> Nowhere
    BY DEF IntoField
  <2> HIDE DEF f
  <2>3. CASE IsIndexed(f)
    BY <2>1, <2>3 DEF IsIndexed
  <2>4. CASE ~IsIndexed(f)
    BY <2>1, <2>2, <2>4 DEF IsIndexed
  <2> QED
    BY <2>3, <2>4
<1>4. q \in FieldReading(f, s, writing) /\ IsReading(q, s)
  BY <1>1, FieldReads
<1> HIDE DEF f
<1>5. CASE f.base \in {"Table", "Struct"}
  <2>1. q = [steps |-> << >>, object |-> f.of, rest |-> s]
    BY <1>4, <1>5 DEF FieldReading
  <2>2. Place(d, p) = AtObject(f.of)
    BY <1>3, <1>5
  <2> QED
    BY <1>2, <2>1, <2>2, NothingWrites
<1>6. CASE f.base = "Union"
  <2>1. q \in UnionName(f, s, writing)
    BY <1>4, <1>6 DEF FieldReading
  <2>2. Place(d, p) = AtUnion(f.of)
    BY <1>3, <1>6
  <2> QED
    BY <2>1, <2>2, UnionWrites
<1>7. CASE f.base \in {"Vector", "Array"} /\ Starts("[", s)
  <2>1. q \in ElementReading(f, Tail(s), writing)
    BY <1>4, <1>7 DEF FieldReading
  <2>2. PICK i \in IndexAt(Tail(s)) : q \in ElementAfter(f, i, writing)
    BY <2>1 DEF ElementReading
  <2> DEFINE into == Cat(p, One(i.index))
  <2>3. Place(d, p) = AtVector(f)
    BY <1>3, <1>7
  <2>4. i.index \in Nat /\ i.rest \in Seq(Token)
    BY <1>7, SqueezedIndex
  <2>5. /\ into \in Seq(Nat) /\ into # << >> /\ PathTokens(d, into) \in Seq(Token)
        /\ Place(d, into) = PathStep(AtVector(f), i.index)
    <3>1. /\ Cat(p, One(i.index)) \in Seq(Nat) /\ Cat(p, One(i.index)) # << >>
          /\ Place(d, Cat(p, One(i.index))) = PathStep(Place(d, p), i.index)
      BY <2>4, StepWrites
    <3> QED
      BY <2>3, <3>1, PathTokensOn
  <2>6. PathStep(AtVector(f), i.index) = IntoElement(f)
    BY DEF PathStep, PatchStep, AtVector
  <2>7. One(i.index) \in Seq(Nat) /\ Cat(One(i.index), << >>) = One(i.index)
        /\ << >> \in Seq(Nat)
    BY <2>4, Cats
  <2> HIDE DEF into
  <2>8. CASE f.element # "Union"
    <3> DEFINE u == [steps |-> << >>, object |-> q.object, rest |-> i.rest]
    <3>1. /\ q.steps = <<i.index>> /\ q.rest = i.rest
          /\ q.object # Null => IntoElement(f) = AtObject(q.object)
      <4>1. CASE f.element \in {"Table", "Struct"}
        <5>1. q = [steps |-> <<i.index>>, object |-> f.of, rest |-> i.rest]
          BY <2>2, <4>1 DEF ElementAfter
        <5> QED
          BY <4>1, <5>1 DEF IntoElement
      <4>2. CASE f.element \notin {"Table", "Struct", "Union"}
        <5>1. q = [steps |-> <<i.index>>, object |-> Null, rest |-> i.rest]
          BY <2>2, <4>2 DEF ElementAfter
        <5> QED
          BY <5>1
      <4> QED
        BY <2>8, <4>1, <4>2
    <3>2. /\ u.steps = << >> /\ u.rest = i.rest /\ u.object = q.object
          /\ u.steps \in Seq(Nat) /\ u.rest \in Seq(Token)
      BY <2>4, <2>7
    <3>3. q.steps = Cat(One(i.index), u.steps)
      <4>1. q.steps = One(i.index)
        BY <3>1 DEF One
      <4> QED
        BY <2>7, <3>2, <4>1, Zenon
    <3> HIDE DEF u
    <3>4. Writes(d, into, u, i.rest)
      BY <2>4, <2>5, <2>6, <3>1, <3>2, NothingWrites
    <3> QED
      BY <1>7, <2>3, <3>1, <3>2, <3>3, <3>4, IndexWrites DEF into
  <2>9. CASE f.element = "Union"
    <3>1. PICK u \in UnionName(f, i.rest, writing) : q = [u EXCEPT !.steps = <<i.index>> \o @]
      BY <2>2, <2>9 DEF ElementAfter
    <3>2. /\ q.steps = Cat(One(i.index), u.steps)
          /\ q.object = u.object /\ q.rest = u.rest
      <4>1. \E steps, object_, rest : u = [steps |-> steps, object |-> object_, rest |-> rest]
        BY DEF UnionName
      <4>2. /\ q.steps = <<i.index>> \o u.steps
            /\ q.object = u.object /\ q.rest = u.rest
        BY <3>1, <4>1
      <4> QED
        BY <4>2 DEF Cat, One
    <3>3. IntoElement(f) = AtUnion(f.of)
      BY <2>9 DEF IntoElement
    <3>4. Writes(d, into, u, i.rest) /\ u.steps \in Seq(Nat)
      BY <2>4, <2>5, <2>6, <3>3, UnionWrites
    <3>5. u.rest \in Seq(Token)
      BY <1>4, <3>2 DEF IsReading
    <3> QED
      BY <1>7, <2>3, <3>2, <3>4, <3>5, IndexWrites DEF into
  <2> QED
    BY <2>8, <2>9
<1>8. CASE f.base \in {"Vector", "Array"} /\ ~Starts("[", s)
  <2>1. q \in WholeVectorReading(f, s, writing)
    BY <1>4, <1>8 DEF FieldReading
  <2>2. q.steps = << >> /\ q.rest = s /\ ~Starts(".", s)
    BY <2>1 DEF WholeVectorReading
  <2> QED
    BY <1>2, <2>2, NothingWrites
<1>9. CASE f.base \notin {"Vector", "Array", "Table", "Struct", "Union"}
  <2>1. q = [steps |-> << >>, object |-> Null, rest |-> s]
    BY <1>4, <1>9 DEF FieldReading
  <2> QED
    BY <1>2, <2>1, NothingWrites
<1> QED
  BY <1>5, <1>6, <1>7, <1>8, <1>9

-----------------------------------------------------------------------------
(* Lists: their items joined by a mark.                                      *)

And(s, x) == Append(s, x)
Lengthens(more, s, x) ==
  /\ more = [i \in 1..(Len(s) + 1) |-> more[i]]
  /\ \A i \in 1..Len(s) : more[i] = s[i]
  /\ more[Len(s) + 1] = x

LEMMA OneMore ==
  ASSUME NEW E, NEW s \in Seq(E), NEW x \in E, NEW more, Lengthens(more, s, x)
  PROVE  more = And(s, x)
<1> DEFINE longer == Append(s, x)
           m == Len(s)
<1>1. /\ longer \in Seq(E) /\ Len(longer) = m + 1 /\ longer[m + 1] = x /\ m \in Nat
      /\ \A i \in 1..m : longer[i] = s[i]
  BY AppendProperties
<1>2. \A i \in 1..(m + 1) : i = m + 1 \/ i \in 1..m
  BY <1>1
<1> HIDE DEF longer
<1>3. \A i \in 1..(m + 1) : more[i] = longer[i]
  BY <1>1, <1>2 DEF Lengthens
<1>4. longer = [i \in 1..(m + 1) |-> longer[i]]
  BY <1>1, SequenceIsAFunction, Zenon
<1>5. more = [i \in 1..(m + 1) |-> more[i]]
  BY DEF Lengthens
<1> HIDE DEF m
<1>6. more = longer
  BY <1>3, <1>4, <1>5, Zenon
<1> QED
  BY <1>6 DEF longer, And

LEMMA JoinedNone ==
  ASSUME NEW sep
  PROVE  Joined(<< >>, sep) = << >>
<1>1. [i \in DOMAIN << >> |-> IF i = 1 THEN << >>[i] ELSE sep \o << >>[i]] = << >>
  OBVIOUS
<1> QED
  BY <1>1, FlattenNone DEF Joined

\* One item more comes after the mark, if there is one before it.
LEMMA JoinedOn ==
  ASSUME NEW E, NEW parts \in Seq(Seq(E)), NEW sep \in Seq(E), NEW part \in Seq(E)
  PROVE  /\ Joined(parts, sep) \in Seq(E)
         /\ Joined(Append(parts, part), sep) =
              IF parts = << >> THEN part ELSE Cat(Cat(Joined(parts, sep), sep), part)
<1> DEFINE laid == [i \in DOMAIN parts |-> IF i = 1 THEN parts[i] ELSE sep \o parts[i]]
           more == Append(parts, part)
           laidMore == [i \in DOMAIN more |-> IF i = 1 THEN more[i] ELSE sep \o more[i]]
           last == IF parts = << >> THEN part ELSE sep \o part
           n == Len(parts)
<1>1. /\ more \in Seq(Seq(E)) /\ Len(more) = n + 1 /\ n \in Nat /\ more[n + 1] = part
      /\ \A i \in 1..n : more[i] = parts[i]
      /\ DOMAIN more = 1..(n + 1) /\ DOMAIN parts = 1..n
      /\ n + 1 = 1 <=> parts = << >>
  BY AppendProperties, EmptySeq
<1> HIDE DEF more, n
<1>2. last \in Seq(E)
  BY ConcatProperties
<1>3. laid \in Seq(Seq(E)) /\ Len(laid) = n
  <2>1. \A i \in 1..n : parts[i] \in Seq(E)
    BY DEF n
  <2>2. \A i \in 1..n : sep \o parts[i] \in Seq(E)
    BY <2>1, ConcatProperties
  <2>3. laid = [i \in 1..n |-> laid[i]] /\ \A i \in 1..n : laid[i] \in Seq(E)
    BY <1>1, <2>1, <2>2
  <2> HIDE DEF laid
  <2> QED
    BY <1>1, <2>3, FunctionIsASequence, Zenon
<1>4. laidMore = And(laid, last)
  <2>1. laidMore = [i \in 1..(n + 1) |-> laidMore[i]]
    BY <1>1
  <2>2. \A i \in 1..n : laidMore[i] = laid[i]
    <3>1. \A i \in 1..n : i \in 1..(n + 1)
      BY <1>1
    <3> QED
      BY <1>1, <3>1
  <2>3. laidMore[n + 1] = last
    <3>1. n + 1 \in 1..(n + 1)
      BY <1>1
    <3>2. laidMore[n + 1] = IF n + 1 = 1 THEN more[n + 1] ELSE sep \o more[n + 1]
      BY <1>1, <3>1
    <3> QED
      BY <1>1, <3>2, Zenon
  <2> HIDE DEF laid, laidMore, last
  <2>4. Lengthens(laidMore, laid, last)
    BY <1>3, <2>1, <2>2, <2>3, Zenon DEF Lengthens
  <2> QED
    BY <1>2, <1>3, <2>4, OneMore
<1>5. Joined(parts, sep) = FlattenSeq(laid) /\ Joined(more, sep) = FlattenSeq(laidMore)
  BY DEF Joined
<1> HIDE DEF laid, laidMore
<1>6. FlattenSeq(laid) \in Seq(E) /\ FlattenSeq(And(laid, last)) = FlattenSeq(laid) \o last
  <2> HIDE DEF last
  <2> QED
    BY <1>2, <1>3, FlattenOn DEF And
<1>7. CASE parts = << >>
  <2>1. Joined(parts, sep) = << >> /\ last = part /\ << >> \o part = part
    BY <1>7, JoinedNone, ConcatEmptySeq
  <2> QED
    BY <1>4, <1>5, <1>6, <1>7, <2>1 DEF more
<1>8. CASE parts # << >>
  <2> DEFINE a == FlattenSeq(laid)
  <2>1. last = Cat(sep, part)
    BY <1>8 DEF Cat
  <2>2. a \in Seq(E) /\ FlattenSeq(laidMore) = Cat(a, last)
    BY <1>4, <1>6, Zenon DEF Cat
  <2>3. Cat(Cat(a, sep), part) = Cat(a, Cat(sep, part))
    BY <2>2, CatAssociates
  <2> HIDE DEF a, last
  <2>4. Joined(more, sep) = Cat(Cat(a, sep), part)
    BY <1>5, <2>1, <2>2, <2>3, Zenon
  <2> QED
    BY <1>5, <1>8, <2>2, <2>4 DEF more, a
<1> QED
  BY <1>7, <1>8

\* The updates of a patch of `def`, or the tables of a vector's payload.
Part(how, def, x) == IF how = "updates" THEN One(Unwritten(def, x)) ELSE One(Value(x))
Between(how) == One(Mark(IF how = "updates" THEN ";" ELSE ","))
Listed(how, def, s) == Joined([i \in DOMAIN s |-> Part(how, def, s[i])], Between(how))
\* Before one more is read.
Followed(how, def, s) ==
  IF s = << >> THEN << >> ELSE Cat(Listed(how, def, s), Between(how))

LEMMA ListedNone ==
  ASSUME NEW how, NEW def
  PROVE  Listed(how, def, << >>) = << >> /\ Followed(how, def, << >>) = << >>
<1>1. [i \in DOMAIN << >> |-> Part(how, def, << >>[i])] = << >>
  OBVIOUS
<1> QED
  BY <1>1, JoinedNone DEF Listed, Followed

Lists(how, def, I, E) ==
  /\ Mark(";") \in E /\ Mark(",") \in E
  /\ \A x \in I : Part(how, def, x) \in Seq(E)

LEMMA ListedOn ==
  ASSUME NEW how, NEW def, NEW I, NEW E, Lists(how, def, I, E),
         NEW s \in Seq(I), NEW x \in I
  PROVE  /\ Listed(how, def, s) \in Seq(E) /\ Followed(how, def, s) \in Seq(E)
         /\ Between(how) \in Seq(E)
         /\ Listed(how, def, Append(s, x)) = Cat(Followed(how, def, s), Part(how, def, x))
         /\ Followed(how, def, Append(s, x)) =
              Cat(Listed(how, def, Append(s, x)), Between(how))
<1> DEFINE t == Append(s, x)
           parts == [i \in DOMAIN s |-> Part(how, def, s[i])]
           more == [i \in DOMAIN t |-> Part(how, def, t[i])]
           n == Len(s)
           sep == Between(how)
<1>1. /\ n \in Nat /\ DOMAIN s = 1..n /\ DOMAIN t = 1..(n + 1) /\ t # << >>
      /\ \A i \in 1..n : s[i] \in I /\ t[i] = s[i]
      /\ t[n + 1] = x
  <2>1. /\ t \in Seq(I) /\ Len(t) = n + 1 /\ t[n + 1] = x /\ n \in Nat
        /\ \A i \in 1..n : t[i] = s[i]
    BY AppendProperties
  <2> HIDE DEF t
  <2>2. DOMAIN s = 1..n /\ \A i \in 1..n : s[i] \in I
    OBVIOUS
  <2>3. DOMAIN t = 1..(n + 1) /\ t # << >>
    BY <2>1, EmptySeq
  <2> QED
    BY <2>1, <2>2, <2>3
<1>0. n = 0 <=> s = << >>
  BY EmptySeq
<1> HIDE DEF t, n
<1>a. /\ \A i \in 1..n : i \in 1..(n + 1)
      /\ n + 1 \in 1..(n + 1)
  BY <1>1
<1>2. sep \in Seq(E)
  BY Cats DEF Between, Lists
<1>3. parts \in Seq(Seq(E)) /\ Len(parts) = n
  <2>1. parts = [i \in 1..n |-> parts[i]] /\ \A i \in 1..n : parts[i] \in Seq(E)
    BY <1>1 DEF Lists
  <2> HIDE DEF parts
  <2> QED
    BY <1>1, <2>1, FunctionIsASequence, Zenon
<1>4. Part(how, def, x) \in Seq(E)
  BY DEF Lists
<1>5. more = And(parts, Part(how, def, x))
  <2>1. more = [i \in 1..(n + 1) |-> more[i]]
    BY <1>1
  <2>2. \A i \in 1..n : more[i] = parts[i]
    BY <1>1, <1>a
  <2>3. more[n + 1] = Part(how, def, x)
    BY <1>1, <1>a
  <2> HIDE DEF parts, more
  <2>4. Lengthens(more, parts, Part(how, def, x))
    BY <1>3, <2>1, <2>2, <2>3, Zenon DEF Lengthens
  <2> QED
    BY <1>3, <1>4, <2>4, OneMore
<1>6. parts = << >> <=> s = << >>
  BY <1>0, <1>3, EmptySeq
<1> HIDE DEF parts, more, sep
<1>7. /\ Joined(parts, sep) \in Seq(E)
      /\ Joined(more, sep) =
           IF s = << >> THEN Part(how, def, x)
           ELSE Cat(Cat(Joined(parts, sep), sep), Part(how, def, x))
  BY <1>2, <1>3, <1>4, <1>5, <1>6, JoinedOn DEF And
<1>8. Listed(how, def, s) = Joined(parts, sep) /\ Listed(how, def, t) = Joined(more, sep)
  BY DEF Listed, parts, more, sep
<1>9. /\ Listed(how, def, t) = Cat(Followed(how, def, s), Part(how, def, x))
      /\ Followed(how, def, s) \in Seq(E)
  <2>1. CASE s = << >>
    <3>1. Followed(how, def, s) = << >>
      BY <2>1 DEF Followed
    <3> QED
      BY <1>4, <1>7, <1>8, <2>1, <3>1, Cats
  <2>2. CASE s # << >>
    <3>1. Followed(how, def, s) = Cat(Joined(parts, sep), sep)
      BY <1>8, <2>2 DEF Followed, sep
    <3> QED
      BY <1>2, <1>7, <1>8, <2>2, <3>1, Cats
  <2> QED
    BY <2>1, <2>2
<1>10. Followed(how, def, t) = Cat(Listed(how, def, t), Between(how))
  BY <1>1 DEF Followed
<1> QED
  BY <1>2, <1>7, <1>8, <1>9, <1>10 DEF t, sep

-----------------------------------------------------------------------------
(* How an operation is written.                                              *)

Defs == DOMAIN Objects \cup {Null}
\* Tokens, and operations of some that are still to be written.
Items(operations) ==
  Token \cup [kind : {"operation"}, def : Defs, operation : operations]

LEMMA ItemForms ==
  ASSUME NEW V
  PROVE  /\ Token \subseteq Items(V)
         /\ \A d \in Defs, r \in V : Unwritten(d, r) \in Items(V)
         /\ \A x \in Items(V) :
              \/ x \in Token /\ x.kind # "operation"
              \/ x.kind = "operation" /\ x.def \in Defs /\ x.operation \in V
         /\ Mark(";") \in Items(V) /\ Mark(",") \in Items(V)
         /\ \A s \in Seq(Token) : s \in Seq(Items(V))
<1>1. Token \subseteq Items(V)
  BY DEF Items
<1>2. \A d \in Defs, r \in V : Unwritten(d, r) \in Items(V)
  BY DEF Items, Unwritten
<1>3. \A x \in Items(V) :
        \/ x \in Token /\ x.kind # "operation"
        \/ x.kind = "operation" /\ x.def \in Defs /\ x.operation \in V
  <2>1. \A x \in Token : x.kind # "operation"
    BY TokenForms
  <2> QED
    BY <2>1 DEF Items
<1>4. Mark(";") \in Items(V) /\ Mark(",") \in Items(V)
  BY <1>1, TokenTypes DEF Marks
<1>5. \A s \in Seq(Token) : s \in Seq(Items(V))
  BY <1>1, SeqMonotonic
<1> QED
  BY <1>1, <1>2, <1>3, <1>4, <1>5

LEMMA PathTokensType ==
  ASSUME NEW def, NEW p \in Seq(Nat)
  PROVE  PathTokens(def, p) \in Seq(Token)
<1>1. 0 \in Nat
  OBVIOUS
<1> QED
  BY <1>1, PathTokensOn

LEMMA TablesList == Lists("tables", Null, Payloads, Token)
<1>1. \A x \in Payloads : Part("tables", Null, x) \in Seq(Token)
  BY TokenTypes, Cats DEF Part
<1> QED
  BY <1>1, TokenTypes DEF Lists, Marks

LEMMA UpdatesList ==
  ASSUME NEW V, NEW d \in Defs
  PROVE  Lists("updates", d, V, Items(V))
<1>1. \A x \in V : Part("updates", d, x) \in Seq(Items(V))
  BY ItemForms, Cats DEF Part
<1> QED
  BY <1>1, ItemForms DEF Lists

LEMMA ListedType ==
  ASSUME NEW how, NEW def, NEW I, NEW E, Lists(how, def, I, E), NEW s \in Seq(I)
  PROVE  Listed(how, def, s) \in Seq(E) /\ Followed(how, def, s) \in Seq(E)
<1>1. CASE s = << >>
  BY <1>1, ListedNone, EmptySeq
<1>2. CASE s # << >>
  <2>1. PICK x \in I : TRUE
    BY <1>2, EmptySeq
  <2> QED
    BY <2>1, ListedOn
<1> QED
  BY <1>1, <1>2

Tables(def, s) == [kind |-> "list", of |-> def, value |-> s]
TablesTokens(s) == Cat(Cat(One(Mark("[")), Listed("tables", Null, s)), One(Mark("]")))

LEMMA PayloadForms ==
  /\ \A p \in Payloads : p \in PutPayloads /\ PayloadTokens(p) = One(Value(p))
                         /\ One(Value(p)) \in Seq(Token)
  /\ \A def \in DOMAIN Objects, s \in Seq(Payloads) :
       /\ Tables(def, s) \in PutPayloads
       /\ PayloadTokens(Tables(def, s)) = TablesTokens(s)
       /\ TablesTokens(s) \in Seq(Token)
  /\ \A p \in PutPayloads : PayloadTokens(p) \in Seq(Token)
<1>1. ASSUME NEW p \in Payloads
      PROVE  p \in PutPayloads /\ PayloadTokens(p) = One(Value(p)) /\ One(Value(p)) \in Seq(Token)
  <2>1. ~(p.kind = "list" /\ p.of # "")
    BY ParseAssumption
  <2>2. PayloadTokens(p) = <<Value(p)>>
    BY <2>1, Zenon DEF PayloadTokens
  <2>3. One(Value(p)) \in Seq(Token)
    BY TokenTypes, Cats
  <2> QED
    BY <2>2, <2>3 DEF One, PutPayloads
<1>2. ASSUME NEW def \in DOMAIN Objects, NEW s \in Seq(Payloads)
      PROVE  /\ Tables(def, s) \in PutPayloads
             /\ PayloadTokens(Tables(def, s)) = TablesTokens(s)
             /\ TablesTokens(s) \in Seq(Token)
  <2>1. Tables(def, s) \in PutPayloads
    BY DEF Tables, PutPayloads
  <2>2. "" \notin DOMAIN Objects
    BY ParseAssumption
  <2>3. /\ Tables(def, s).kind = "list" /\ Tables(def, s).of # ""
        /\ Tables(def, s).value = s
    BY <2>2 DEF Tables
  <2>4. PayloadTokens(Tables(def, s)) =
          <<Mark("[")>> \o Joined([i \in DOMAIN s |-> <<Value(s[i])>>], <<Mark(",")>>)
            \o <<Mark("]")>>
    BY <2>3, Zenon DEF PayloadTokens
  <2>5. Listed("tables", Null, s) =
          Joined([i \in DOMAIN s |-> <<Value(s[i])>>], <<Mark(",")>>)
    <3>1. "tables" # "updates"
      OBVIOUS
    <3>2. Between("tables") = <<Mark(",")>> /\ \A x : Part("tables", Null, x) = <<Value(x)>>
      BY <3>1 DEF Between, Part, One
    <3> QED
      BY <3>2 DEF Listed
  <2>6. PayloadTokens(Tables(def, s)) = TablesTokens(s)
    BY <2>4, <2>5, Zenon DEF TablesTokens, Cat, One
  <2>7. Listed("tables", Null, s) \in Seq(Token)
    BY TablesList, ListedType
  <2>8. Mark("[") \in Token /\ Mark("]") \in Token
    BY TokenTypes DEF Marks
  <2>9. TablesTokens(s) \in Seq(Token)
    BY <2>7, <2>8, Cats DEF TablesTokens
  <2> QED
    BY <2>1, <2>6, <2>9
<1>3. ASSUME NEW p \in PutPayloads
      PROVE  PayloadTokens(p) \in Seq(Token)
  <2>1. CASE p \in Payloads
    BY <1>1, <2>1
  <2>2. CASE p \notin Payloads
    <3>1. p = Tables(p.of, p.value) /\ p.of \in DOMAIN Objects /\ p.value \in Seq(Payloads)
      BY <2>2 DEF PutPayloads, Tables
    <3> QED
      BY <1>2, <3>1
  <2> QED
    BY <2>1, <2>2
<1> QED
  BY <1>1, <1>2, <1>3

Opened(def, path_) ==
  Cat(Cat(One(Mark("patch")), PathTokens(def, path_)), One(Mark("{")))

LEMMA UpdateForms ==
  ASSUME NEW V, NEW d \in Defs, NEW us \in Seq(V)
  PROVE  /\ UpdateTokens(d, us, << >>) = Listed("updates", d, us)
         /\ Listed("updates", d, us) \in Seq(Items(V))
         /\ Followed("updates", d, us) \in Seq(Items(V))
<1>1. Listed("updates", d, us) \in Seq(Items(V)) /\ Followed("updates", d, us) \in Seq(Items(V))
  BY UpdatesList, ListedType
<1>2. Mark(";") \in Token
  BY TokenTypes DEF Marks
<1>3. Cat(Cat(<< >>, One(Mark(";"))), << >>) = One(Mark(";"))
  <2>1. One(Mark(";")) \in Seq(Token)
    BY <1>2, Cats
  <2> QED
    BY <2>1, Cats
<1>4. << >> \o <<Mark(";")>> \o << >> = Between("updates")
  BY <1>3, Zenon DEF Cat, One, Between
<1>5. Joined([i \in DOMAIN us |-> <<Unwritten(d, us[i])>>], Between("updates")) =
        Listed("updates", d, us)
  <2>1. \A x : Part("updates", d, x) = <<Unwritten(d, x)>>
    BY DEF Part, One
  <2> QED
    BY <2>1 DEF Listed
<1>6. UpdateTokens(d, us, << >>) = Cat(Listed("updates", d, us), << >>)
  <2>1. UpdateTokens(d, us, << >>) =
          Joined([i \in DOMAIN us |-> <<Unwritten(d, us[i])>>],
                 << >> \o <<Mark(";")>> \o << >>)
            \o (IF us = << >> THEN << >> ELSE << >>)
    BY Zenon DEF UpdateTokens
  <2>2. (IF us = << >> THEN << >> ELSE << >>) = << >>
    OBVIOUS
  <2>3. UpdateTokens(d, us, << >>) =
          Joined([i \in DOMAIN us |-> <<Unwritten(d, us[i])>>], Between("updates")) \o << >>
    BY <1>4, <2>1, <2>2, Zenon
  <2> QED
    BY <1>5, <2>3, Zenon DEF Cat
<1>7. UpdateTokens(d, us, << >>) = Listed("updates", d, us)
  BY <1>1, <1>6, Cats
<1> QED
  BY <1>1, <1>7

\* Each operation's tokens, its own updates left to write.
LEMMA OperationForms ==
  ASSUME NEW V, NEW def, NEW r \in Operations(V)
  PROVE  /\ r.path \in Seq(Nat)
         /\ r.op = "put" =>
              OperationTokens(def, r, << >>) =
                Cat(Cat(One(Mark("put")), PathTokens(def, r.path)), PayloadTokens(r.payload))
         /\ r.op = "delete" =>
              OperationTokens(def, r, << >>) =
                Cat(One(Mark("delete")), PathTokens(def, r.path))
         /\ r.op = "patch" =>
              OperationTokens(def, r, << >>) =
                Cat(Opened(def, r.path),
                    Cat(Listed("updates", Target(def, r.path), r.updates), One(Mark("}"))))
         /\ OperationTokens(def, r, << >>) \in Seq(Items(V))
<1> DEFINE verb_ == One(Mark(r.op))
           P == PathTokens(def, r.path)
           E == Items(V)
<1>1. /\ r.path \in Seq(Nat) /\ r.op \in Verbs
      /\ r.op = "put" => r.payload \in PutPayloads
      /\ r.op = "patch" => r.updates \in Seq(V)
  BY DEF Operations, Verbs
<1>2. P \in Seq(Token) /\ P \in Seq(E)
  BY <1>1, PathTokensType, ItemForms
<1>3. /\ \A kind \in Verbs \cup Marks : One(Mark(kind)) \in Seq(Token)
      /\ \A kind \in Verbs \cup Marks : One(Mark(kind)) \in Seq(E)
  BY TokenTypes, Cats, ItemForms
<1>4. verb_ \in Seq(E)
  BY <1>1, <1>3
<1>5. << >> \in Seq(E) /\ Cat(Cat(verb_, << >>), P) = Cat(verb_, P) /\ Cat(verb_, P) \in Seq(E)
  <2> HIDE DEF verb_, P, E
  <2> QED
    BY <1>2, <1>4, Cats
<1>6. ASSUME r.op = "put"
      PROVE  /\ OperationTokens(def, r, << >>) = Cat(Cat(verb_, P), PayloadTokens(r.payload))
             /\ OperationTokens(def, r, << >>) \in Seq(E)
  <2>1. OperationTokens(def, r, << >>) =
          Cat(Cat(Cat(verb_, << >>), P), Cat(<< >>, PayloadTokens(r.payload)))
    BY <1>6 DEF OperationTokens, Cat, One
  <2>2. PayloadTokens(r.payload) \in Seq(E)
    BY <1>1, <1>6, PayloadForms, ItemForms
  <2> HIDE DEF verb_, P, E
  <2> QED
    BY <1>5, <2>1, <2>2, Cats
<1>7. ASSUME r.op = "delete"
      PROVE  /\ OperationTokens(def, r, << >>) = Cat(verb_, P)
             /\ OperationTokens(def, r, << >>) \in Seq(E)
  <2>1. OperationTokens(def, r, << >>) = Cat(Cat(Cat(verb_, << >>), P), << >>)
    BY <1>7 DEF OperationTokens, Cat, One
  <2> HIDE DEF verb_, P, E
  <2> QED
    BY <1>5, <2>1, Cats
<1>8. ASSUME r.op = "patch"
      PROVE  /\ OperationTokens(def, r, << >>) =
                  Cat(Opened(def, r.path),
                      Cat(Listed("updates", Target(def, r.path), r.updates), One(Mark("}"))))
             /\ OperationTokens(def, r, << >>) \in Seq(E)
  <2> DEFINE L == Listed("updates", Target(def, r.path), r.updates)
             U == UpdateTokens(Target(def, r.path), r.updates, << >>)
             open == One(Mark("{"))
             close == One(Mark("}"))
  <2>1. OperationTokens(def, r, << >>) =
          Cat(Cat(Cat(verb_, << >>), P),
              Cat(Cat(Cat(Cat(<< >>, open), << >>), U), close))
    BY <1>8 DEF OperationTokens, Cat, One
  <2>2. Target(def, r.path) \in Defs
    BY DEF Target, Defs
  <2>3. U = L /\ L \in Seq(E)
    BY <1>1, <1>8, <2>2, UpdateForms
  <2>4. open \in Seq(E) /\ close \in Seq(E)
    BY <1>3 DEF Marks
  <2>5. Opened(def, r.path) = Cat(Cat(verb_, P), open)
    BY <1>8 DEF Opened
  <2> HIDE DEF verb_, P, E, L, U, open, close
  <2>6. Cat(Cat(Cat(Cat(<< >>, open), << >>), U), close) = Cat(Cat(open, L), close)
    BY <2>3, <2>4, Cats
  <2>7. Cat(Cat(verb_, P), Cat(Cat(open, L), close)) =
          Cat(Cat(Cat(verb_, P), open), Cat(L, close))
    BY <1>5, <2>3, <2>4, Cats
  <2>8. Cat(Cat(Cat(verb_, P), open), Cat(L, close)) \in Seq(E)
    BY <1>5, <2>3, <2>4, Cats
  <2> QED
    BY <1>5, <2>1, <2>5, <2>6, <2>7, <2>8 DEF L, close
<1> QED
  BY <1>1, <1>6, <1>7, <1>8 DEF Verbs

LEMMA OperationsWrite ==
  ASSUME NEW V
  PROVE  Spreads("write", Items(Operations(V)), Items(V))
<1> SUFFICES ASSUME NEW x \in Items(Operations(V))
             PROVE  Piece("write", x) \in Seq(Items(V))
  BY DEF Spreads
<1>1. CASE x.kind = "operation"
  <2>1. x.operation \in Operations(V)
    BY <1>1, ItemForms
  <2>2. OperationTokens(x.def, x.operation, << >>) \in Seq(Items(V))
    BY <2>1, OperationForms
  <2> QED
    BY <1>1, <2>2 DEF Piece
<1>2. CASE x.kind # "operation"
  <2>1. x \in Items(V)
    BY <1>2, ItemForms
  <2>2. <<x>> \in Seq(Items(V))
    BY <2>1
  <2> QED
    BY <1>2, <2>2 DEF Piece
<1> QED
  BY <1>1, <1>2

-----------------------------------------------------------------------------
(* Operations as deep as a number of others, and their writing to the last.  *)

AlongNesting == [along |-> "nesting"]
AlongWriting == [along |-> "writing"]
Within(depth) ==
  LET within[n \in 0..depth] == IF n = 0 THEN {} ELSE Operations(within[n - 1])
  IN  within[depth]
Every == UNION {Within(n) : n \in Nat}
Out(s, n) == WrittenOut(s, << >>, n)

LEMMA WithinGoes ==
  ASSUME NEW n \in Nat
  PROVE  \E g : Goes(g, AlongNesting, {}, n) /\ Within(n) = g[n]
<1> DEFINE rec == AlongNesting
           Laid(g) == g = [i \in 0..n |-> IF i = 0 THEN {} ELSE Operations(g[i - 1])]
           g == CHOOSE g : Laid(g)
<1>1. \A i, v : Turn(rec, i, v) = Operations(v)
  BY DEF Turn, AlongNesting
<1>2. \A h : Goes(h, rec, {}, n) <=> Laid(h)
  <2> HIDE DEF rec
  <2> QED
    BY <1>1 DEF Goes
<1>3. \E h : Laid(h)
  BY <1>2, TurnByTurn
<1>4. Laid(g)
  BY <1>3
<1>5. Within(n) = g[n]
  BY DEF Within
<1> HIDE DEF rec, Laid, g
<1> QED
  BY <1>2, <1>4, <1>5 DEF rec

LEMMA OutGoes ==
  ASSUME NEW s, NEW n \in Nat
  PROVE  \E g : Goes(g, AlongWriting, s, n) /\ Out(s, n) = g[n]
<1> DEFINE rec == AlongWriting
           Laid(g) == g = [i \in 0..n |-> IF i = 0 THEN s ELSE WrittenOnce(g[i - 1], << >>)]
           g == CHOOSE g : Laid(g)
<1>1. \A i, v : Turn(rec, i, v) = WrittenOnce(v, << >>)
  BY DEF Turn, AlongWriting
<1>2. \A h : Goes(h, rec, s, n) <=> Laid(h)
  <2> HIDE DEF rec
  <2> QED
    BY <1>1 DEF Goes
<1>3. \E h : Laid(h)
  BY <1>2, TurnByTurn
<1>4. Laid(g)
  BY <1>3
<1>5. Out(s, n) = g[n]
  BY DEF Out, WrittenOut
<1> HIDE DEF rec, Laid, g
<1> QED
  BY <1>2, <1>4, <1>5 DEF rec

\* One turn more, of anything that goes the same way at each.
LEMMA OneTurnMore ==
  ASSUME NEW rec, NEW first, NEW n \in Nat, NEW g, NEW h,
         Goes(g, rec, first, n), Goes(h, rec, first, n + 1)
  PROVE  h[n + 1] = Turn(rec, n + 1, g[n])
<1>1. n + 1 \in Nat /\ n \in 0..(n + 1) /\ n \in 0..n
  OBVIOUS
<1>2. SameTurns(rec, rec, n)
  BY DEF SameTurns
<1>3. \A i \in 0..n : g[i] = h[i]
  BY <1>1, <1>2, OneWay
<1>4. n + 1 \in 0..(n + 1) /\ n + 1 # 0 /\ (n + 1) - 1 = n
  OBVIOUS
<1>5. h[n + 1] = Turn(rec, n + 1, h[n])
  BY <1>4 DEF Goes
<1> QED
  BY <1>1, <1>3, <1>5

LEMMA WithinOn ==
  /\ Within(0) = {}
  /\ \A n \in Nat : Within(n + 1) = Operations(Within(n))
<1>1. Within(0) = {}
  <2>1. PICK g : Goes(g, AlongNesting, {}, 0) /\ Within(0) = g[0]
    BY WithinGoes
  <2> QED
    BY <2>1 DEF Goes
<1>2. ASSUME NEW n \in Nat
      PROVE  Within(n + 1) = Operations(Within(n))
  <2>1. PICK g : Goes(g, AlongNesting, {}, n) /\ Within(n) = g[n]
    BY WithinGoes
  <2>2. n + 1 \in Nat
    OBVIOUS
  <2>3. PICK h : Goes(h, AlongNesting, {}, n + 1) /\ Within(n + 1) = h[n + 1]
    BY <2>2, WithinGoes
  <2>4. h[n + 1] = Turn(AlongNesting, n + 1, g[n])
    BY <2>1, <2>3, OneTurnMore
  <2>5. Turn(AlongNesting, n + 1, g[n]) = Operations(g[n])
    BY DEF Turn, AlongNesting
  <2> QED
    BY <2>1, <2>3, <2>4, <2>5
<1> QED
  BY <1>1, <1>2

LEMMA OutOn ==
  ASSUME NEW s
  PROVE  /\ Out(s, 0) = s
         /\ \A n \in Nat : Out(s, n + 1) = Spread("write", Out(s, n))
<1>1. Out(s, 0) = s
  <2>1. PICK g : Goes(g, AlongWriting, s, 0) /\ Out(s, 0) = g[0]
    BY OutGoes
  <2> QED
    BY <2>1 DEF Goes
<1>2. ASSUME NEW n \in Nat
      PROVE  Out(s, n + 1) = Spread("write", Out(s, n))
  <2>1. PICK g : Goes(g, AlongWriting, s, n) /\ Out(s, n) = g[n]
    BY OutGoes
  <2>2. n + 1 \in Nat
    OBVIOUS
  <2>3. PICK h : Goes(h, AlongWriting, s, n + 1) /\ Out(s, n + 1) = h[n + 1]
    BY <2>2, OutGoes
  <2>4. h[n + 1] = Turn(AlongWriting, n + 1, g[n])
    BY <2>1, <2>3, OneTurnMore
  <2>5. Turn(AlongWriting, n + 1, g[n]) = WrittenOnce(g[n], << >>)
    BY DEF Turn, AlongWriting
  <2> QED
    BY <2>1, <2>3, <2>4, <2>5, SpreadsAre
<1> QED
  BY <1>1, <1>2

LEMMA OperationsGrow ==
  ASSUME NEW V, NEW W, V \subseteq W
  PROVE  Operations(V) \subseteq Operations(W) /\ Items(V) \subseteq Items(W)
<1>1. Seq(V) \subseteq Seq(W)
  BY SeqMonotonic
<1> QED
  BY <1>1 DEF Operations, Items

LEMMA EveryWrites ==
  /\ Spreads("write", Items(Every), Items(Every))
  /\ \A n \in Nat : Within(n) \subseteq Every
<1>1. \A n \in Nat : Within(n) \subseteq Every
  BY DEF Every
<1>2. Every \subseteq Operations(Every)
  <2> SUFFICES ASSUME NEW n \in Nat, NEW r \in Within(n)
               PROVE  r \in Operations(Every)
    BY DEF Every
  <2>1. n # 0 /\ n - 1 \in Nat /\ (n - 1) + 1 = n
    BY WithinOn
  <2>2. Within(n) = Operations(Within(n - 1))
    BY <2>1, WithinOn
  <2>3. Operations(Within(n - 1)) \subseteq Operations(Every)
    BY <1>1, <2>1, OperationsGrow
  <2> QED
    BY <2>2, <2>3
<1>3. Items(Every) \subseteq Items(Operations(Every))
  BY <1>2, OperationsGrow
<1>4. Spreads("write", Items(Operations(Every)), Items(Every))
  BY OperationsWrite
<1> QED
  BY <1>1, <1>3, <1>4 DEF Spreads

\* Tokens are written as they are.
LEMMA TokensWrite ==
  ASSUME NEW s \in Seq(Token)
  PROVE  Spread("write", s) = s
<1> DEFINE upto(n) == SubSeq(s, 1, n)
           same == {n \in 0..Len(s) : Spread("write", upto(n)) = upto(n)}
<1>1. Len(s) \in Nat /\ Len(s) \in 0..Len(s) /\ 0 \in 0..Len(s)
  OBVIOUS
<1>2. 0 \in same
  <2>1. upto(0) = << >>
    OBVIOUS
  <2> QED
    BY <1>1, <2>1, SpreadNone
<1>3. ASSUME NEW n \in 1..Len(s), n - 1 \in same
      PROVE  n \in same
  <2>1. /\ upto(n) = Append(upto(n - 1), s[n]) /\ upto(n - 1) \in Seq(Token)
        /\ s[n] \in Token /\ n \in 0..Len(s)
    OBVIOUS
  <2>2. Spread("write", upto(n - 1)) = upto(n - 1)
    BY <1>3
  <2> HIDE DEF upto
  <2>3. Spread("write", Append(upto(n - 1), s[n])) =
          Spread("write", upto(n - 1)) \o Piece("write", s[n])
    BY <2>1, TokenPieces, SpreadOn
  <2>4. Piece("write", s[n]) = <<s[n]>>
    BY <2>1, TokenPieces
  <2>5. upto(n - 1) \o <<s[n]>> = Append(upto(n - 1), s[n])
    BY <2>1
  <2> QED
    BY <2>1, <2>2, <2>3, <2>4, <2>5
<1> HIDE DEF same
<1>4. \A n \in 0..Len(s) : n \in same
  BY <1>1, <1>2, <1>3, UpTo
<1>5. upto(Len(s)) = s
  OBVIOUS
<1> QED
  BY <1>1, <1>4, <1>5 DEF same

LEMMA OutTokens ==
  ASSUME NEW s \in Seq(Token), NEW n \in Nat
  PROVE  Out(s, n) = s
<1> DEFINE same == {i \in 0..n : Out(s, i) = s}
<1>1. 0 \in same
  BY OutOn
<1>2. ASSUME NEW i \in 1..n, i - 1 \in same
      PROVE  i \in same
  <2>1. i - 1 \in Nat /\ (i - 1) + 1 = i /\ i \in 0..n
    OBVIOUS
  <2>2. Out(s, (i - 1) + 1) = Spread("write", Out(s, i - 1))
    BY <2>1, OutOn
  <2> QED
    BY <1>2, <2>1, <2>2, TokensWrite
<1> HIDE DEF same
<1>3. \A i \in 0..n : i \in same
  BY <1>1, <1>2, UpTo
<1> QED
  BY <1>3 DEF same

\* The parts of what is written are written apart.
LEMMA OutApart ==
  ASSUME NEW s \in Seq(Items(Every)), NEW t \in Seq(Items(Every)), NEW n \in Nat
  PROVE  /\ Out(s, n) \in Seq(Items(Every))
         /\ Out(Cat(s, t), n) = Cat(Out(s, n), Out(t, n))
<1> DEFINE E == Items(Every)
           apart == {i \in 0..n : /\ Out(s, i) \in Seq(E) /\ Out(t, i) \in Seq(E)
                                  /\ Out(Cat(s, t), i) = Cat(Out(s, i), Out(t, i))}
<1>1. 0 \in apart
  BY OutOn
<1>2. ASSUME NEW i \in 1..n, i - 1 \in apart
      PROVE  i \in apart
  <2>1. i - 1 \in Nat /\ (i - 1) + 1 = i /\ i \in 0..n
    OBVIOUS
  <2> DEFINE a == Out(s, i - 1)
             b == Out(t, i - 1)
  <2>2. /\ Out(s, i) = Spread("write", a) /\ Out(t, i) = Spread("write", b)
        /\ Out(Cat(s, t), i) = Spread("write", Out(Cat(s, t), i - 1))
    BY <2>1, OutOn
  <2>3. a \in Seq(E) /\ b \in Seq(E) /\ Out(Cat(s, t), i - 1) = Cat(a, b)
    BY <1>2
  <2> HIDE DEF a, b, E
  <2>4. Spread("write", a) \in Seq(E) /\ Spread("write", b) \in Seq(E)
    BY <2>3, EveryWrites, SpreadType DEF E
  <2>5. Spread("write", a \o b) = Spread("write", a) \o Spread("write", b)
    BY <2>3, EveryWrites, SpreadConcat DEF E
  <2>6. Spread("write", Cat(a, b)) = Cat(Spread("write", a), Spread("write", b))
    BY <2>5, Zenon DEF Cat
  <2> QED
    BY <2>1, <2>2, <2>3, <2>4, <2>6
<1> HIDE DEF apart
<1>3. \A i \in 0..n : i \in apart
  BY <1>1, <1>2, UpTo
<1> QED
  BY <1>3 DEF apart, E

\* One turn of the writing comes first as well as last.
LEMMA OutFirst ==
  ASSUME NEW s, NEW n \in Nat
  PROVE  Out(s, n + 1) = Out(Spread("write", s), n)
<1> DEFINE t == Spread("write", s)
           same == {i \in 0..n : Out(s, i + 1) = Out(t, i)}
<1>1. 0 \in same
  <2>1. Out(s, 0 + 1) = Spread("write", Out(s, 0))
    BY OutOn
  <2> QED
    BY <2>1, OutOn
<1>2. ASSUME NEW i \in 1..n, i - 1 \in same
      PROVE  i \in same
  <2>1. i - 1 \in Nat /\ (i - 1) + 1 = i /\ i \in 0..n /\ i \in Nat
    OBVIOUS
  <2>2. Out(s, i + 1) = Spread("write", Out(s, i))
    BY <2>1, OutOn
  <2>3. Out(t, (i - 1) + 1) = Spread("write", Out(t, i - 1))
    BY <2>1, OutOn
  <2>4. Out(s, i) = Out(t, i - 1)
    BY <1>2, <2>1
  <2> HIDE DEF t
  <2> QED
    BY <2>1, <2>2, <2>3, <2>4
<1> HIDE DEF same
<1>3. \A i \in 0..n : i \in same
  BY <1>1, <1>2, UpTo
<1> QED
  BY <1>3 DEF same

\* What is written as deep as it goes is tokens.
LEMMA OutDeep ==
  ASSUME NEW n \in Nat, NEW s \in Seq(Items(Within(n)))
  PROVE  Out(s, n) \in Seq(Token)
<1> DEFINE typed == {i \in 0..n : Out(s, i) \in Seq(Items(Within(n - i)))}
<1>1. 0 \in typed
  BY OutOn
<1>2. ASSUME NEW i \in 1..n, i - 1 \in typed
      PROVE  i \in typed
  <2>1. i - 1 \in Nat /\ (i - 1) + 1 = i /\ i \in 0..n /\ n - i \in Nat
        /\ n - (i - 1) = (n - i) + 1
    OBVIOUS
  <2>2. Out(s, (i - 1) + 1) = Spread("write", Out(s, i - 1))
    BY <2>1, OutOn
  <2>3. Within(n - (i - 1)) = Operations(Within(n - i))
    BY <2>1, WithinOn
  <2>4. Out(s, i - 1) \in Seq(Items(Operations(Within(n - i))))
    BY <1>2, <2>3
  <2>5. Spread("write", Out(s, i - 1)) \in Seq(Items(Within(n - i)))
    BY <2>4, OperationsWrite, SpreadType
  <2> QED
    BY <2>1, <2>2, <2>5
<1> HIDE DEF typed
<1>3. \A i \in 0..n : i \in typed
  BY <1>1, <1>2, UpTo
<1>4. n \in 0..n /\ n - n = 0
  OBVIOUS
<1>5. Out(s, n) \in Seq(Items({}))
  BY <1>3, <1>4, WithinOn DEF typed
<1>6. Items({}) = Token
  BY DEF Items
<1> QED
  BY <1>5, <1>6

\* An operation is written as its tokens are, as deep as it goes or deeper.
LEMMA OutOperation ==
  ASSUME NEW d \in Defs, NEW n \in Nat, NEW hi \in Nat, n <= hi, NEW r \in Within(n)
  PROVE  Out(One(Unwritten(d, r)), hi) = Out(OperationTokens(d, r, << >>), hi)
<1> DEFINE s == One(Unwritten(d, r))
           tokens == {i \in 0..(hi - n) : Out(s, n + i) \in Seq(Token)}
<1>1. Unwritten(d, r) \in Items(Within(n)) /\ s \in Seq(Items(Within(n)))
  BY ItemForms, Cats
<1>2. hi - n \in Nat /\ n + (hi - n) = hi
  OBVIOUS
<1>3. 0 \in tokens
  <2>1. n + 0 = n /\ 0 \in 0..(hi - n)
    BY <1>2
  <2> QED
    BY <1>1, <2>1, OutDeep
<1> HIDE DEF s
<1>4. ASSUME NEW i \in 1..(hi - n), i - 1 \in tokens
      PROVE  i \in tokens
  <2>1. i \in 0..(hi - n) /\ n + (i - 1) \in Nat /\ (n + (i - 1)) + 1 = n + i
    BY <1>2
  <2>2. Out(s, (n + (i - 1)) + 1) = Spread("write", Out(s, n + (i - 1)))
    BY <2>1, OutOn
  <2>3. Out(s, n + (i - 1)) \in Seq(Token)
    BY <1>4
  <2> QED
    BY <2>1, <2>2, <2>3, TokensWrite
<1> HIDE DEF tokens
<1>5. \A i \in 0..(hi - n) : i \in tokens
  BY <1>2, <1>3, <1>4, UpTo
<1>6. Out(s, hi) \in Seq(Token)
  <2>1. hi - n \in 0..(hi - n)
    BY <1>2
  <2> QED
    BY <1>2, <1>5, <2>1 DEF tokens
<1>7. Out(s, hi + 1) = Out(s, hi)
  BY <1>6, OutOn, TokensWrite
<1>8. Out(s, hi + 1) = Out(Spread("write", s), hi)
  BY OutFirst
<1>9. Spread("write", s) = OperationTokens(d, r, << >>)
  <2>1. Unwritten(d, r) \in Items(Every)
    BY EveryWrites, ItemForms
  <2>2. Spread("write", <<Unwritten(d, r)>>) = Piece("write", Unwritten(d, r))
    BY <2>1, EveryWrites, SpreadOne
  <2>3. Piece("write", Unwritten(d, r)) = OperationTokens(d, r, << >>)
    BY DEF Piece, Unwritten
  <2> QED
    BY <2>2, <2>3 DEF s, One
<1> QED
  BY <1>7, <1>8, <1>9 DEF s

-----------------------------------------------------------------------------
(* What has been read of a text, written out: the patches open, up to their  *)
(* latest update, and then what has been read of an operation.               *)

PatchText(def, p) == Cat(Opened(def, p.path), Followed("updates", p.target, p.updates))
OpenText(ps) == FlattenSeq([i \in DOMAIN ps |-> PatchText(Around(ps, i), ps[i])])
Begun(def, v, p) == Cat(One(Mark(v)), PathTokens(def, p))

AtVerb == << >>
AfterVerb == One(Mark(verb))
InPath == Cat(Begun(Base, verb, path), Dot(path))
PastPath == Begun(Base, verb, path)
AtElement == Cat(PastPath, Cat(One(Mark("[")), Followed("tables", Null, elements)))
PastVector == Cat(PastPath, TablesTokens(elements))
AtReturn == One(Unwritten(Base, operation))
Current ==
  CASE pc \in {"verb", "update"} -> AtVerb
    [] pc \in {"path", "patch"} -> AfterVerb
    [] pc = "segment" -> InPath
    [] pc \in {"payload", "target", "delete"} -> PastPath
    [] pc = "element" -> AtElement
    [] pc = "vector" -> PastVector
    [] pc = "return" -> AtReturn

HasRead(all, rest) == Squeezed(given) = Cat(Out(all, Len(given)), Squeezed(rest))
\* What is read of an operation goes after the patches that are open.
Follows(open, current, rest) ==
  /\ open \in Seq(Items(Every)) /\ current \in Seq(Items(Every))
  /\ rest \in Seq(Token)
  /\ HasRead(Cat(open, current), rest)

LEMMA TokensAreItems ==
  /\ \A s \in Seq(Token) : s \in Seq(Items(Every))
  /\ << >> \in Seq(Items(Every))
BY ItemForms, EmptySeq

\* Spaces between what is read change nothing.
LEMMA GoesOnUnread ==
  ASSUME NEW open, NEW current, NEW s, NEW t \in Seq(Token),
         Follows(open, current, s), Squeezed(s) = Squeezed(t)
  PROVE  Follows(open, current, t)
BY DEF Follows, HasRead

\* What is read next is written next.
LEMMA GoesOnReading ==
  ASSUME IInv, NEW open, NEW current, NEW s, NEW t \in Seq(Token), NEW read \in Seq(Token),
         Follows(open, current, s), Squeezed(s) = Cat(read, Squeezed(t))
  PROVE  Follows(open, Cat(current, read), t)
<1> DEFINE E == Items(Every)
           n == Len(given)
           all == Cat(open, current)
           written == Out(all, n)
           left == Squeezed(t)
<1>1. n \in Nat
  BY LenProperties DEF IInv, TypeOK
<1>2. read \in Seq(E) /\ left \in Seq(Token) /\ left \in Seq(E)
  BY SqueezedReads, TokensAreItems
<1>3. /\ open \in Seq(E) /\ current \in Seq(E) /\ Squeezed(given) = Cat(written, Squeezed(s))
  BY DEF Follows, HasRead
<1> HIDE DEF E, left, written, n
<1>4. all \in Seq(E) /\ Cat(current, read) \in Seq(E)
      /\ Cat(all, read) = Cat(open, Cat(current, read))
  BY <1>2, <1>3, Cats
<1> HIDE DEF all
<1>5. written \in Seq(E) /\ Out(Cat(all, read), n) = Cat(written, Out(read, n))
  BY <1>1, <1>2, <1>4, OutApart DEF E, written
<1>6. Out(read, n) = read
  BY <1>1, OutTokens
<1>7. Cat(written, Cat(read, left)) = Cat(Cat(written, read), left)
  BY <1>2, <1>5, Cats
<1>8. Squeezed(given) = Cat(Out(Cat(all, read), n), left)
  BY <1>3, <1>5, <1>6, <1>7 DEF left
<1> QED
  BY <1>3, <1>4, <1>8 DEF Follows, HasRead, E, n, left

\* An operation that is all read stands for its tokens.
LEMMA Completes ==
  ASSUME IInv, NEW open, NEW current, NEW t, Follows(open, current, t),
         NEW d \in Defs, NEW n \in Nat, n <= Len(given), NEW r \in Within(n),
         OperationTokens(d, r, << >>) = current
  PROVE  Follows(open, One(Unwritten(d, r)), t)
<1> DEFINE E == Items(Every)
           N == Len(given)
           item == One(Unwritten(d, r))
<1>1. N \in Nat
  BY LenProperties DEF IInv, TypeOK
<1>2. item \in Seq(E)
  <2>1. r \in Every
    BY EveryWrites
  <2> QED
    BY <2>1, ItemForms, Cats
<1>3. open \in Seq(E) /\ current \in Seq(E)
  BY DEF Follows
<1>4. Out(item, N) = Out(current, N)
  BY <1>1, OutOperation
<1> HIDE DEF item, N
<1>5. Out(Cat(open, item), N) = Out(Cat(open, current), N)
  <2>1. Out(Cat(open, item), N) = Cat(Out(open, N), Out(item, N))
    BY <1>1, <1>2, <1>3, OutApart
  <2>2. Out(Cat(open, current), N) = Cat(Out(open, N), Out(current, N))
    BY <1>1, <1>3, OutApart
  <2> QED
    BY <1>4, <2>1, <2>2
<1> QED
  BY <1>2, <1>3, <1>5 DEF Follows, HasRead, item, N

-----------------------------------------------------------------------------
(* The patches open.                                                         *)

IsOpen(p) == IsPatch(p) /\ p.updates \in Seq(Every)
AreOpen(ps) == IsStack(ps) /\ \A i \in DOMAIN ps : IsOpen(ps[i])
\* What the innermost of them patches.
Tip(ps) == IF ps = << >> THEN Root ELSE ps[Len(ps)].target

LEMMA PatchTextType ==
  ASSUME NEW def, NEW p, IsOpen(p)
  PROVE  PatchText(def, p) \in Seq(Items(Every)) /\ Opened(def, p.path) \in Seq(Items(Every))
<1>1. p.path \in Seq(Nat) /\ p.target \in Defs /\ p.updates \in Seq(Every)
  BY DEF IsOpen, IsPatch, Defs
<1>2. Opened(def, p.path) \in Seq(Items(Every))
  <2>1. One(Mark("patch")) \in Seq(Token) /\ One(Mark("{")) \in Seq(Token)
    BY TokenTypes, Cats DEF Verbs, Marks
  <2>2. PathTokens(def, p.path) \in Seq(Token)
    BY <1>1, PathTokensType
  <2>3. Opened(def, p.path) \in Seq(Token)
    BY <2>1, <2>2, Cats DEF Opened
  <2> QED
    BY <2>3, TokensAreItems
<1>3. Followed("updates", p.target, p.updates) \in Seq(Items(Every))
  BY <1>1, UpdateForms
<1> QED
  BY <1>2, <1>3, Cats DEF PatchText

LEMMA OpenOn ==
  ASSUME NEW ps, AreOpen(ps), NEW p, IsOpen(p)
  PROVE  /\ OpenText(ps) \in Seq(Items(Every))
         /\ OpenText(Append(ps, p)) = Cat(OpenText(ps), PatchText(Tip(ps), p))
<1> DEFINE E == Items(Every)
           n == Len(ps)
           more == Append(ps, p)
           parts == [i \in DOMAIN ps |-> PatchText(Around(ps, i), ps[i])]
           longer == [i \in DOMAIN more |-> PatchText(Around(more, i), more[i])]
           last == PatchText(Tip(ps), p)
<1>1. PICK S : ps \in Seq(S)
  BY DEF AreOpen, IsStack
<1>2. /\ n \in Nat /\ DOMAIN more = 1..(n + 1) /\ more[n + 1] = p
      /\ \A i \in 1..n : more[i] = ps[i]
      /\ DOMAIN ps = 1..n /\ (ps = << >> <=> n = 0)
  <2>1. Len(more) = n + 1 /\ more \in Seq(S \cup {p})
    <3>1. ps \in Seq(S \cup {p})
      BY <1>1, SeqMonotonic
    <3> QED
      BY <3>1, AppendProperties
  <2>2. /\ n \in Nat /\ DOMAIN ps = 1..n /\ (ps = << >> <=> n = 0)
        /\ DOMAIN more = 1..Len(more)
    BY <1>1, <2>1, LenProperties, EmptySeq
  <2>3. more[n + 1] = p /\ \A i \in 1..n : more[i] = ps[i]
    BY <1>1, <2>1, <2>2
  <2> QED
    BY <2>1, <2>2, <2>3
<1> HIDE DEF more
<1>3. ASSUME NEW i \in 1..n
      PROVE  more[i] = ps[i] /\ Around(more, i) = Around(ps, i)
  <2>1. i # 1 => i - 1 \in 1..n
    BY <1>2
  <2> QED
    BY <1>2, <2>1 DEF Around
<1>4. Around(more, n + 1) = Tip(ps)
  <2>1. n # 0 => n \in 1..n /\ n + 1 # 1 /\ (n + 1) - 1 = n
    BY <1>2
  <2>2. n = 0 => n + 1 = 1
    BY <1>2
  <2>3. Tip(ps) = IF n = 0 THEN Root ELSE ps[n].target
    BY <1>2 DEF Tip
  <2> HIDE DEF n
  <2> QED
    BY <1>2, <2>1, <2>2, <2>3 DEF Around
<1> HIDE DEF n
<1>5. parts \in Seq(Seq(E)) /\ Len(parts) = n
  <2>1. \A i \in 1..n : IsOpen(ps[i])
    BY <1>2 DEF AreOpen
  <2>2. parts = [i \in 1..n |-> parts[i]]
    BY <1>2
  <2>3. \A i \in 1..n : parts[i] = PatchText(Around(ps, i), ps[i])
    BY <1>2
  <2> HIDE DEF parts
  <2>4. \A i \in 1..n : parts[i] \in Seq(E)
    BY <2>1, <2>3, PatchTextType
  <2> QED
    BY <1>2, <2>2, <2>4, FunctionIsASequence, Zenon
<1>6. last \in Seq(E)
  BY PatchTextType
<1>7. longer = And(parts, last)
  <2>1. longer = [i \in 1..(n + 1) |-> longer[i]]
    BY <1>2
  <2>a. n + 1 \in 1..(n + 1) /\ \A i \in 1..n : i \in 1..(n + 1)
    BY <1>2
  <2>2. \A i \in 1..n : longer[i] = parts[i]
    BY <1>2, <1>3, <2>a
  <2>3. longer[n + 1] = last
    BY <1>2, <1>4, <2>a
  <2> HIDE DEF parts, longer, last
  <2>4. Lengthens(longer, parts, last)
    BY <1>5, <2>1, <2>2, <2>3, Zenon DEF Lengthens
  <2> QED
    BY <1>5, <1>6, <2>4, OneMore
<1>8. OpenText(ps) = FlattenSeq(parts) /\ OpenText(more) = FlattenSeq(longer)
  BY DEF OpenText
<1> HIDE DEF parts, longer, last, E
<1>9. FlattenSeq(parts) \in Seq(E) /\ FlattenSeq(Append(parts, last)) = FlattenSeq(parts) \o last
  BY <1>5, <1>6, FlattenOn
<1> QED
  BY <1>7, <1>8, <1>9, Zenon DEF And, Cat, more, last, E

LEMMA OpenNone == OpenText(<< >>) = << >>
<1>1. [i \in DOMAIN << >> |-> PatchText(Around(<< >>, i), << >>[i])] = << >>
  OBVIOUS
<1> QED
  BY <1>1, FlattenNone DEF OpenText

\* The updates read of a patch, and a text no longer than it takes to nest them.
UpdatesWithin(ps, n) == \A i \in DOMAIN ps : ps[i].updates \in Seq(Within(n - i))

LEMMA AreOpenWithin ==
  ASSUME IInv, ShapeInv, pc \notin {"verb", "ended"}, NEW ps, IsStack(ps),
         Len(ps) <= Len(patches), UpdatesWithin(ps, Len(given))
  PROVE  AreOpen(ps)
<1> DEFINE n == Len(given)
<1>1. /\ n - Len(patches) \in Nat /\ n \in Nat /\ Len(patches) \in Nat
  BY Depth
<1>2. Len(ps) \in Nat /\ DOMAIN ps = 1..Len(ps)
  BY LenProperties DEF IsStack
<1>3. \A i \in DOMAIN ps : IsPatch(ps[i])
  BY StackTypes
<1> SUFFICES ASSUME NEW i \in DOMAIN ps
             PROVE  ps[i].updates \in Seq(Every)
  BY <1>3 DEF AreOpen, IsOpen
<1>4. n - i \in Nat
  BY <1>1, <1>2
<1>5. ps[i].updates \in Seq(Within(n - i))
  BY DEF UpdatesWithin
<1>6. Within(n - i) \subseteq Every
  BY <1>4, EveryWrites
<1> HIDE DEF n
<1> QED
  BY <1>5, <1>6, SeqMonotonic

-----------------------------------------------------------------------------
(* That nothing of a text that is parsed is left out.                        *)

\* A path that goes on goes on from the object it has come to; and a payload, a
\* target or a list is of the operation whose verb was read.
ReadsAre ==
  /\ pc = "segment" /\ object # Null => Place(Base, path) = AtObject(object)
  /\ pc \in {"element", "vector"} => object \in DOMAIN Objects /\ elements \in Seq(Payloads)
  /\ pc \in {"patch", "target"} => verb = "patch"
  /\ pc \in {"payload", "element", "vector"} => verb = "put"
  /\ pc = "delete" => verb = "delete"

TextInv ==
  /\ outcome = "reading" => Follows(OpenText(patches), Current, text)
  /\ UpdatesWithin(patches, Len(given))
  /\ pc = "return" => operation \in Within(Len(given) - Len(patches))
  /\ ReadsAre
  /\ NothingIsIgnored

LEMMA TextFails ==
  ASSUME TextInv, Fail, UNCHANGED <<given, patches>>
  PROVE  TextInv'
BY DEF TextInv, Fail, UpdatesWithin, ReadsAre, NothingIsIgnored

\* A step that leaves the patches open as they are, and the parse reading.
LEMMA TextKept ==
  ASSUME TextInv, UNCHANGED <<given, patches, outcome>>, outcome = "reading",
         Follows(OpenText(patches), Current', text'), ReadsAre',
         pc' = "return" => operation' \in Within(Len(given) - Len(patches))
  PROVE  TextInv'
BY DEF TextInv, UpdatesWithin, NothingIsIgnored, Follows, HasRead

LEMMA BaseKept ==
  ASSUME UNCHANGED patches
  PROVE  Base' = Base
BY DEF Base, Innermost

LEMMA ReadVerbText ==
  ASSUME IInv, TextInv, IInv', ReadVerb
  PROVE  TextInv'
<1> DEFINE s == IF pc = "update" THEN Skip("sp", text) ELSE text
<1>1. /\ text \in Seq(Token) /\ outcome = "reading" /\ pc \in {"verb", "update"}
      /\ UNCHANGED <<given, patches>>
  BY DEF ReadVerb, IInv, TypeOK
<1>2. s \in Seq(Token) /\ Squeezed(text) = Squeezed(s)
  BY <1>1, SkipReads, SqueezedSkip
<1>3. CASE ~(s # << >> /\ s[1].kind \in Verbs)
  <2>1. Fail
    BY <1>3 DEF ReadVerb
  <2> QED
    BY <1>1, <2>1, TextFails
<1>4. CASE s # << >> /\ s[1].kind \in Verbs
  <2>1. /\ verb' = s[1].kind /\ text' = Tail(s) /\ UNCHANGED outcome
        /\ pc' = (IF verb' = "patch" THEN "patch" ELSE "path")
    BY <1>4 DEF ReadVerb, PastVerb
  <2>2. Starts(verb', s) /\ verb' \in (Verbs \cup Marks) \ {"sp"}
    BY <1>4, <2>1 DEF Starts, Verbs
  <2> HIDE DEF s
  <2>3. /\ Tail(s) \in Seq(Token) /\ Mark(verb') \in Token
        /\ Squeezed(s) = Cat(One(Mark(verb')), Squeezed(Tail(s)))
    BY <1>2, <2>2, SqueezedMark
  <2>4. One(Mark(verb')) \in Seq(Token)
    BY <2>3, Cats
  <2>5. Follows(OpenText(patches), << >>, text)
    BY <1>1 DEF TextInv, Current, AtVerb
  <2>6. Follows(OpenText(patches), Cat(<< >>, One(Mark(verb'))), text')
    BY <1>2, <2>1, <2>3, <2>4, <2>5, GoesOnReading
  <2>7. Cat(<< >>, One(Mark(verb'))) = One(Mark(verb'))
    BY <2>4, Cats
  <2>8. pc' \in {"path", "patch"}
    BY <2>1
  <2>9. Current' = One(Mark(verb'))
    BY <2>8 DEF Current, AfterVerb
  <2>10. ReadsAre'
    BY <2>1, <2>8 DEF ReadsAre
  <2> QED
    BY <1>1, <2>1, <2>6, <2>7, <2>8, <2>9, <2>10, TextKept
<1> QED
  BY <1>3, <1>4

LEMMA BeginPathText ==
  ASSUME IInv, TextInv, IInv', BeginPath
  PROVE  TextInv'
<1>1. /\ text \in Seq(Token) /\ outcome = "reading" /\ pc = "path" /\ verb \in Verbs
      /\ text' = Skip("sp", text) /\ path' = << >> /\ object' = Base
      /\ UNCHANGED <<given, patches, verb>>
  BY DEF BeginPath, IInv, TypeOK
<1>2. text' \in Seq(Token) /\ Squeezed(text) = Squeezed(text')
  BY <1>1, SkipReads, SqueezedSkip
<1>3. CASE text' = << >>
  <2>1. Fail
    BY <1>3 DEF BeginPath
  <2> QED
    BY <1>1, <2>1, TextFails
<1>4. CASE text' # << >>
  <2>1. pc' = "segment" /\ UNCHANGED outcome
    BY <1>4 DEF BeginPath
  <2>2. Follows(OpenText(patches), One(Mark(verb)), text)
    BY <1>1 DEF TextInv, Current, AfterVerb
  <2>3. Follows(OpenText(patches), One(Mark(verb)), text')
    BY <1>2, <2>2, GoesOnUnread
  <2>4. One(Mark(verb)) \in Seq(Token)
    BY <1>1, TokenTypes, Cats
  <2>5. Current' = Cat(Cat(One(Mark(verb)), << >>), << >>)
    <3>1. PathTokens(Base', << >>) = << >> /\ Dot(<< >>) = << >>
      BY PathNone DEF Dot
    <3> QED
      BY <1>1, <2>1, <3>1 DEF Current, InPath, Begun
  <2>6. Current' = One(Mark(verb))
    BY <2>4, <2>5, Cats
  <2>7. Place(Base', path') = AtObject(object')
    <3>1. Place(Base, << >>) = Start(Base) /\ Start(Base) = AtObject(Base)
      BY BaseIsObject, PathNone DEF Start
    <3>2. Base' = Base
      BY <1>1, BaseKept
    <3> QED
      BY <1>1, <3>1, <3>2
  <2>8. ReadsAre'
    BY <2>1, <2>7 DEF ReadsAre
  <2> QED
    BY <1>1, <2>1, <2>3, <2>6, <2>8, TextKept
<1> QED
  BY <1>3, <1>4

\* The segment that is read is written next, and leads where it is written from.
LEMMA SegmentWrites ==
  ASSUME IInv, TextInv, outcome = "reading", pc = "segment", NEW r \in SegmentReadings
  PROVE  LET on == path \o r.steps
         IN  /\ on \in Seq(Nat) /\ on # << >>
             /\ Follows(OpenText(patches), Begun(Base, verb, on), r.rest)
             /\ r.object # Null /\ Starts(".", r.rest) =>
                  Place(Base, on) = AtObject(r.object)
<1>1. /\ text \in Seq(Token) /\ object \in DOMAIN Objects \cup {Null} /\ path \in Seq(Nat)
      /\ verb \in Verbs
  BY DEF IInv, TypeOK
<1>a. PICK n \in FieldsNamed :
        \E q \in FieldReading(FieldAt(object, n.name), n.rest, Writing) :
          r = [steps |-> <<n.name>> \o q.steps, object |-> q.object,
               rest |-> q.rest, field |-> FieldAt(object, n.name),
               inVector |-> NamesElement(FieldAt(object, n.name), n.rest)]
  BY DEF SegmentReadings
<1>2. PICK q \in FieldReading(FieldAt(object, n.name), n.rest, Writing) :
        r = [steps |-> <<n.name>> \o q.steps, object |-> q.object,
             rest |-> q.rest, field |-> FieldAt(object, n.name),
             inVector |-> NamesElement(FieldAt(object, n.name), n.rest)]
  BY <1>a
<1>3. /\ n \in NameAt(text) /\ object \in DOMAIN Objects /\ n.name \in Offsets(object)
      /\ ~IsDiscriminant(FieldAt(object, n.name)) /\ Writing \in BOOLEAN
  BY <1>1, <1>a DEF FieldsNamed, Writing
<1>4. /\ n.name \in Nat /\ n.rest \in Seq(Token) /\ Squeezed(n.rest) \in Seq(Token)
      /\ Name(n.name) \in Token
      /\ Squeezed(text) = Cat(One(Name(n.name)), Squeezed(n.rest))
  BY <1>1, <1>3, SqueezedName
<1>5. Place(Base, path) = AtObject(object)
  BY <1>1, <1>3, ParseAssumption DEF TextInv, ReadsAre
<1> DEFINE into == Cat(path, One(n.name))
<1>6. /\ into \in Seq(Nat) /\ into # << >>
      /\ PathTokens(Base, path) \in Seq(Token) /\ Dot(path) \in Seq(Token)
      /\ PathTokens(Base, into) = Cat(PathTokens(Base, path), Named(path, n.name))
      /\ Place(Base, into) = PathStep(AtObject(object), n.name)
  <2>1. path \in Seq(Nat) /\ n.name \in Nat
    BY <1>1, <1>4
  <2>2. /\ Cat(path, One(n.name)) \in Seq(Nat) /\ Cat(path, One(n.name)) # << >>
        /\ PathTokens(Base, path) \in Seq(Token) /\ Dot(path) \in Seq(Token)
    BY <1>5, <2>1, FieldStepWrites
  <2>3. PathTokens(Base, Cat(path, One(n.name))) =
          Cat(PathTokens(Base, path), Named(path, n.name))
    BY <1>5, <2>1, FieldStepWrites
  <2>4. Place(Base, Cat(path, One(n.name))) = PathStep(AtObject(object), n.name)
    BY <1>5, <2>1, FieldStepWrites
  <2> QED
    BY <2>2, <2>3, <2>4
<1> HIDE DEF into
<1>7. Writes(Base, into, q, n.rest)
  BY <1>2, <1>3, <1>4, <1>6, FieldWrites
<1>8. /\ q.steps \in Seq(Nat) /\ q.rest \in Seq(Token)
  <2>1. FieldAt(object, n.name) \in Objects[object]
    BY <1>3 DEF Offsets, FieldAt
  <2>2. IsReading(q, n.rest)
    BY <1>2, <1>3, <1>4, <2>1, FieldReads
  <2> QED
    BY <2>2 DEF IsReading
<1>9. PICK read \in Seq(Token) :
        /\ Squeezed(n.rest) = Cat(read, Squeezed(q.rest))
        /\ PathTokens(Base, Cat(into, q.steps)) = Cat(PathTokens(Base, into), read)
        /\ q.object # Null /\ Starts(".", q.rest) =>
             Place(Base, Cat(into, q.steps)) = AtObject(q.object)
  BY <1>7 DEF Writes
<1> DEFINE on == path \o r.steps
           whole == Cat(One(Name(n.name)), read)
<1>10. on = Cat(into, q.steps)
  <2>1. r.steps = Cat(One(n.name), q.steps)
    BY <1>2 DEF Cat, One
  <2>2. One(n.name) \in Seq(Nat)
    BY <1>4, Cats
  <2>3. Cat(Cat(path, One(n.name)), q.steps) = Cat(path, Cat(One(n.name), q.steps))
    BY <1>1, <1>8, <2>2, CatAssociates
  <2>4. on = Cat(path, r.steps)
    BY DEF Cat
  <2> QED
    BY <2>1, <2>3, <2>4 DEF into
<1>11. on \in Seq(Nat) /\ on # << >>
  <2>1. Cat(into, q.steps) \in Seq(Nat)
    BY <1>6, <1>8, Cats
  <2>2. Cat(into, q.steps) # << >>
    BY <1>6, <1>8, EmptySeq, ConcatProperties DEF Cat
  <2> QED
    BY <1>10, <2>1, <2>2
<1>12. r.rest = q.rest /\ r.object = q.object
  BY <1>2
<1>13. One(Name(n.name)) \in Seq(Token) /\ One(Mark(verb)) \in Seq(Token)
       /\ Squeezed(q.rest) \in Seq(Token)
  BY <1>1, <1>4, <1>8, TokenTypes, Cats, SqueezedReads
<1>14. whole \in Seq(Token) /\ Squeezed(text) = Cat(whole, Squeezed(q.rest))
  BY <1>4, <1>9, <1>13, Cats
<1>15. Follows(OpenText(patches), InPath, text)
  BY DEF TextInv, Current
<1>16. Follows(OpenText(patches), Cat(InPath, whole), q.rest)
  BY <1>8, <1>14, <1>15, GoesOnReading
<1>17. Begun(Base, verb, on) = Cat(InPath, whole)
  <2> DEFINE v == One(Mark(verb))
             p == PathTokens(Base, path)
             dot == Dot(path)
             name == One(Name(n.name))
  <2>1. Begun(Base, verb, on) = Cat(v, Cat(Cat(p, Cat(dot, name)), read))
    BY <1>6, <1>9, <1>10 DEF Begun, Named
  <2>2. Cat(InPath, whole) = Cat(Cat(Cat(v, p), dot), Cat(name, read))
    BY DEF InPath, Begun
  <2>3. /\ v \in Seq(Token) /\ p \in Seq(Token) /\ dot \in Seq(Token)
        /\ name \in Seq(Token) /\ read \in Seq(Token)
    BY <1>6, <1>13
  <2> HIDE DEF v, p, dot, name
  <2>4. Cat(v, Cat(Cat(p, Cat(dot, name)), read)) = Cat(v, Cat(p, Cat(dot, Cat(name, read))))
    BY <2>3, Cats
  <2>5. Cat(Cat(Cat(v, p), dot), Cat(name, read)) = Cat(v, Cat(p, Cat(dot, Cat(name, read))))
    BY <2>3, Cats
  <2> QED
    BY <2>1, <2>2, <2>4, <2>5
<1> HIDE DEF on, whole
<1> QED
  BY <1>9, <1>10, <1>11, <1>12, <1>16, <1>17 DEF on

LEMMA ReadSegmentText ==
  ASSUME IInv, TextInv, IInv', ReadSegment
  PROVE  TextInv'
<1>1. /\ outcome = "reading" /\ pc = "segment" /\ verb \in Verbs
      /\ UNCHANGED <<given, patches, verb, elements>>
  BY DEF ReadSegment, IInv, TypeOK
<1>2. CASE Fail
  BY <1>1, <1>2, TextFails
<1>3. ASSUME NEW r \in SegmentReadings,
             /\ path' = path \o r.steps
             /\ object' = r.object
             /\ text' = Skip(".", r.rest)
             /\ IF Starts(".", r.rest) THEN pc' = "segment" /\ UNCHANGED outcome
                ELSE IF Starts("[", r.rest) THEN Fail
                ELSE pc' = AfterPath /\ UNCHANGED outcome
      PROVE  TextInv'
  <2>1. /\ path' \in Seq(Nat) /\ path' # << >>
        /\ Follows(OpenText(patches), Begun(Base, verb, path'), r.rest)
        /\ r.object # Null /\ Starts(".", r.rest) =>
             Place(Base, path') = AtObject(r.object)
    BY <1>1, <1>3, SegmentWrites
  <2>2. Base' = Base
    BY <1>1, BaseKept
  <2>3. r.rest \in Seq(Token)
    BY <2>1 DEF Follows
  <2>4. CASE Starts(".", r.rest)
    <3>1. pc' = "segment" /\ UNCHANGED outcome /\ text' = Tail(r.rest)
      BY <1>3, <2>4 DEF Skip
    <3>2. /\ Tail(r.rest) \in Seq(Token) /\ Mark(".") \in Token
          /\ Squeezed(r.rest) = Cat(One(Mark(".")), Squeezed(Tail(r.rest)))
      BY <2>3, <2>4, SqueezedMark DEF Marks
    <3>3. One(Mark(".")) \in Seq(Token)
      BY <3>2, Cats
    <3>4. Follows(OpenText(patches), Cat(Begun(Base, verb, path'), One(Mark("."))), text')
      BY <2>1, <3>1, <3>2, <3>3, GoesOnReading
    <3>5. Current' = Cat(Begun(Base, verb, path'), One(Mark(".")))
      BY <1>1, <2>1, <2>2, <3>1 DEF Current, InPath, Dot
    <3>6. ReadsAre'
      BY <1>3, <2>1, <2>2, <2>4, <3>1 DEF ReadsAre
    <3> QED
      BY <1>1, <3>1, <3>4, <3>5, <3>6, TextKept
  <2>5. CASE ~Starts(".", r.rest) /\ Starts("[", r.rest)
    BY <1>1, <1>3, <2>5, TextFails
  <2>6. CASE ~Starts(".", r.rest) /\ ~Starts("[", r.rest)
    <3>1. pc' = AfterPath /\ UNCHANGED outcome /\ text' = r.rest
      BY <1>3, <2>6 DEF Skip
    <3>2. /\ pc' \in {"payload", "target", "delete"}
          /\ pc' = "payload" => verb = "put"
          /\ pc' = "target" => verb = "patch"
          /\ pc' = "delete" => verb = "delete"
      BY <1>1, <3>1 DEF AfterPath, Verbs
    <3>3. Current' = Begun(Base, verb, path')
      BY <1>1, <2>2, <3>2 DEF Current, PastPath
    <3>4. ReadsAre'
      BY <1>1, <3>2 DEF ReadsAre
    <3> QED
      BY <1>1, <2>1, <3>1, <3>2, <3>3, <3>4, TextKept
  <2> QED
    BY <2>4, <2>5, <2>6
<1> QED
  BY <1>2, <1>3 DEF ReadSegment

\* An operation that is complete where its tokens have been read.
LEMMA ReturnText ==
  ASSUME IInv, ShapeInv, TextInv, UNCHANGED <<given, patches, outcome>>,
         outcome = "reading", pc \notin {"verb", "ended"}, pc' = "return",
         operation' \in Operations({}),
         Follows(OpenText(patches), OperationTokens(Base, operation', << >>), text')
  PROVE  TextInv'
<1> DEFINE n == Len(given) - Len(patches)
<1>1. n \in Nat /\ n > 0 /\ n <= Len(given)
  BY Depth
<1> HIDE DEF n
<1>2. operation' \in Within(n)
  <2>1. n - 1 \in Nat /\ (n - 1) + 1 = n
    BY <1>1
  <2>2. Within(n) = Operations(Within(n - 1))
    BY <2>1, WithinOn
  <2>3. Operations({}) \subseteq Operations(Within(n - 1))
    BY OperationsGrow
  <2> QED
    BY <2>2, <2>3
<1>3. Base \in Defs
  BY BaseIsObject DEF Defs
<1>4. Follows(OpenText(patches), One(Unwritten(Base, operation')), text')
  BY <1>1, <1>2, <1>3, Completes
<1>5. Current' = One(Unwritten(Base, operation'))
  BY BaseKept DEF Current, AtReturn
<1>6. ReadsAre'
  BY DEF ReadsAre
<1> QED
  BY <1>2, <1>4, <1>5, <1>6, TextKept DEF n

LEMMA PastPathText ==
  ASSUME IInv, TextInv, outcome = "reading", pc \in {"payload", "target", "delete"}
  PROVE  /\ Follows(OpenText(patches), Begun(Base, verb, path), text)
         /\ path \in Seq(Nat) /\ text \in Seq(Token) /\ verb \in Verbs
         /\ Begun(Base, verb, path) \in Seq(Token)
<1>1. path \in Seq(Nat) /\ text \in Seq(Token) /\ verb \in Verbs
  BY DEF IInv, TypeOK
<1>2. Follows(OpenText(patches), Begun(Base, verb, path), text)
  BY DEF TextInv, Current, PastPath
<1>3. Begun(Base, verb, path) \in Seq(Token)
  BY <1>1, TokenTypes, PathTokensType, Cats DEF Begun
<1> QED
  BY <1>1, <1>2, <1>3

LEMMA EndDeleteText ==
  ASSUME IInv, ShapeInv, TextInv, IInv', EndDelete
  PROVE  TextInv'
<1>1. /\ outcome = "reading" /\ pc = "delete"
      /\ UNCHANGED <<given, text, patches>>
  BY DEF EndDelete, IInv, TypeOK
<1>2. CASE ~Deletable
  BY <1>1, <1>2, TextFails DEF EndDelete
<1>3. CASE Deletable
  <2>1. /\ operation' = [op |-> "delete", path |-> path] /\ pc' = "return"
        /\ UNCHANGED outcome
    BY <1>3 DEF EndDelete, Complete
  <2>2. /\ Follows(OpenText(patches), Begun(Base, verb, path), text)
        /\ path \in Seq(Nat) /\ verb = "delete"
    BY <1>1, PastPathText DEF TextInv, ReadsAre
  <2>3. operation' \in Operations({})
    BY <2>1, <2>2 DEF Operations
  <2>4. operation'.op = "delete" /\ operation'.path = path
    BY <2>1
  <2>5. OperationTokens(Base, operation', << >>) = Begun(Base, verb, path)
    <3>1. OperationTokens(Base, operation', << >>) =
            Cat(One(Mark("delete")), PathTokens(Base, operation'.path))
      BY <2>3, <2>4, OperationForms
    <3> QED
      BY <2>2, <2>4, <3>1 DEF Begun
  <2> QED
    BY <1>1, <2>1, <2>2, <2>3, <2>5, ReturnText
<1> QED
  BY <1>2, <1>3

LEMMA PutForms ==
  ASSUME NEW def, NEW p \in Seq(Nat), NEW payload \in PutPayloads,
         NEW r, r = [op |-> "put", path |-> p, payload |-> payload]
  PROVE  /\ r \in Operations({})
         /\ OperationTokens(def, r, << >>) =
              Cat(Begun(def, "put", p), PayloadTokens(payload))
<1>1. r \in Operations({}) /\ r.op = "put" /\ r.path = p /\ r.payload = payload
  BY DEF Operations
<1>2. OperationTokens(def, r, << >>) =
        Cat(Cat(One(Mark("put")), PathTokens(def, r.path)), PayloadTokens(r.payload))
  BY <1>1, OperationForms
<1> QED
  BY <1>1, <1>2 DEF Begun

\* Spaces and a value.
LEMMA ValueWrites ==
  ASSUME NEW s \in Seq(Token), NEW v \in ValuesAt(s)
  PROVE  /\ v.payload \in Payloads /\ v.rest \in Seq(Token)
         /\ One(Value(v.payload)) \in Seq(Token)
         /\ Squeezed(s) = Cat(One(Value(v.payload)), Squeezed(v.rest))
<1>1. v.payload \in Payloads /\ Squeezed(s) = <<Value(v.payload)>> \o Squeezed(v.rest)
  BY SqueezedValue
<1>2. v.rest \in Seq(Token)
  BY ValueReads
<1>3. One(Value(v.payload)) \in Seq(Token)
  BY <1>1, PayloadForms
<1> QED
  BY <1>1, <1>2, <1>3, Zenon DEF Cat, One

LEMMA ReadPayloadText ==
  ASSUME IInv, ShapeInv, TextInv, IInv', ReadPayload
  PROVE  TextInv'
<1>1. /\ outcome = "reading" /\ pc = "payload"
      /\ UNCHANGED <<given, patches>>
  BY DEF ReadPayload, IInv, TypeOK
<1>2. CASE Fail
  BY <1>1, <1>2, TextFails
<1>3. ASSUME NEW v \in ValuesAt(text), text' = v.rest, Complete(PutOperation(v.payload))
      PROVE  TextInv'
  <2>1. /\ operation' = [op |-> "put", path |-> path, payload |-> v.payload]
        /\ pc' = "return" /\ UNCHANGED outcome
    BY <1>3 DEF Complete, PutOperation
  <2>2. /\ Follows(OpenText(patches), Begun(Base, verb, path), text)
        /\ path \in Seq(Nat) /\ text \in Seq(Token) /\ verb = "put"
    BY <1>1, PastPathText DEF TextInv, ReadsAre
  <2>3. /\ v.payload \in Payloads /\ v.rest \in Seq(Token)
        /\ One(Value(v.payload)) \in Seq(Token)
        /\ Squeezed(text) = Cat(One(Value(v.payload)), Squeezed(v.rest))
    BY <2>2, ValueWrites
  <2>4. v.payload \in PutPayloads /\ PayloadTokens(v.payload) = One(Value(v.payload))
    BY <2>3, PayloadForms
  <2>5. /\ operation' \in Operations({})
        /\ OperationTokens(Base, operation', << >>) =
             Cat(Begun(Base, "put", path), PayloadTokens(v.payload))
    BY <2>1, <2>2, <2>4, PutForms
  <2>6. Follows(OpenText(patches),
                Cat(Begun(Base, verb, path), One(Value(v.payload))), v.rest)
    BY <2>2, <2>3, GoesOnReading
  <2>7. Follows(OpenText(patches), OperationTokens(Base, operation', << >>), text')
    BY <1>3, <2>2, <2>4, <2>5, <2>6
  <2> QED
    BY <1>1, <2>1, <2>5, <2>7, ReturnText
<1> QED
  BY <1>2, <1>3 DEF ReadPayload, ReadTables, ReadFlexes

LEMMA BeginVectorText ==
  ASSUME IInv, ShapeInv, TextInv, IInv', BeginVector
  PROVE  TextInv'
<1> DEFINE s == Skip("sp", text)
           begun == Begun(Base, verb, path)
           bracket == One(Mark("["))
           close == One(Mark("]"))
<1>1. /\ outcome = "reading" /\ pc = "payload" /\ object \in DOMAIN Objects
      /\ elements' = << >> /\ UNCHANGED <<given, patches, verb, path, object>>
  BY DEF BeginVector, IInv, TypeOK, IsTableObject, target
<1>2. /\ Follows(OpenText(patches), begun, text)
      /\ text \in Seq(Token) /\ verb = "put" /\ begun \in Seq(Token)
  BY <1>1, PastPathText DEF TextInv, ReadsAre
<1>3. s \in Seq(Token) /\ Squeezed(text) = Squeezed(s)
  BY <1>2, SkipReads, SqueezedSkip
<1>4. Follows(OpenText(patches), begun, s)
  BY <1>2, <1>3, GoesOnUnread
<1>5. CASE ~(Starts("sp", text) /\ Starts("[", s))
  BY <1>1, <1>5, TextFails DEF BeginVector
<1>6. CASE Starts("sp", text) /\ Starts("[", s)
  <2>1. /\ pc' = (IF Starts("]", Tail(s)) THEN "vector" ELSE "element")
        /\ text' = (IF Starts("]", Tail(s)) THEN Tail(Tail(s)) ELSE Tail(s))
        /\ UNCHANGED outcome
    BY <1>6 DEF BeginVector
  <2>2. ReadsAre'
    BY <1>1, <1>2, <2>1, EmptySeq DEF ReadsAre
  <2> HIDE DEF s
  <2>3. /\ Tail(s) \in Seq(Token) /\ Mark("[") \in Token
        /\ Squeezed(s) = Cat(One(Mark("[")), Squeezed(Tail(s)))
    BY <1>3, <1>6, SqueezedMark DEF Marks
  <2>4. One(Mark("[")) \in Seq(Token)
    BY <2>3, Cats
  <2>5. Follows(OpenText(patches), Cat(begun, One(Mark("["))), Tail(s))
    BY <1>4, <2>3, <2>4, GoesOnReading
  <2>6. /\ Listed("tables", Null, << >>) = << >>
        /\ Followed("tables", Null, << >>) = << >>
        /\ Base' = Base
    BY <1>1, ListedNone, BaseKept
  <2> HIDE DEF begun
  <2>7. CASE ~Starts("]", Tail(s))
    <3>1. Current' = Cat(begun, Cat(bracket, << >>))
      BY <1>1, <2>1, <2>6, <2>7 DEF Current, AtElement, PastPath, begun
    <3>2. Current' = Cat(begun, bracket)
      BY <2>4, <3>1, Cats
    <3> QED
      BY <1>1, <2>1, <2>2, <2>5, <2>7, <3>2, TextKept
  <2>8. CASE Starts("]", Tail(s))
    <3>1. /\ Tail(Tail(s)) \in Seq(Token) /\ Mark("]") \in Token
          /\ Squeezed(Tail(s)) = Cat(One(Mark("]")), Squeezed(Tail(Tail(s))))
      BY <2>3, <2>8, SqueezedMark DEF Marks
    <3>2. One(Mark("]")) \in Seq(Token)
      BY <3>1, Cats
    <3>3. Follows(OpenText(patches), Cat(Cat(begun, bracket), close), Tail(Tail(s)))
      BY <2>5, <3>1, <3>2, GoesOnReading
    <3>4. Current' = Cat(begun, Cat(Cat(bracket, << >>), close))
      BY <1>1, <2>1, <2>6, <2>8 DEF Current, PastVector, PastPath, TablesTokens, begun
    <3>5. Cat(begun, Cat(Cat(bracket, << >>), close)) = Cat(Cat(begun, bracket), close)
      <4>1. bracket \in Seq(Token) /\ close \in Seq(Token) /\ begun \in Seq(Token)
        BY <1>2, <2>4, <3>2
      <4> HIDE DEF bracket, close
      <4> QED
        BY <4>1, Cats
    <3> QED
      BY <1>1, <2>1, <2>2, <2>8, <3>3, <3>4, <3>5, TextKept
  <2> QED
    BY <2>7, <2>8
<1> QED
  BY <1>5, <1>6

LEMMA ReadElementText ==
  ASSUME IInv, ShapeInv, TextInv, IInv', ReadElement
  PROVE  TextInv'
<1> DEFINE begun == Begun(Base, verb, path)
           bracket == One(Mark("["))
           before == Followed("tables", Null, elements)
<1>1. /\ outcome = "reading" /\ pc = "element" /\ text \in Seq(Token)
      /\ UNCHANGED <<given, patches, verb, path, object>>
      /\ path \in Seq(Nat) /\ verb \in Verbs
  BY DEF ReadElement, IInv, TypeOK, target
<1>2. object \in DOMAIN Objects /\ elements \in Seq(Payloads) /\ verb = "put"
  BY <1>1 DEF TextInv, ReadsAre
<1>3. CASE Fail
  BY <1>1, <1>3, TextFails
<1>4. ASSUME NEW v \in ValuesAt(text), elements' = Append(elements, v.payload),
             IF Starts(",", v.rest)
               THEN text' = Tail(v.rest) /\ UNCHANGED <<pc, outcome>>
             ELSE IF Starts("]", v.rest)
               THEN text' = Tail(v.rest) /\ pc' = "vector" /\ UNCHANGED outcome
             ELSE Fail /\ UNCHANGED text
      PROVE  TextInv'
  <2> DEFINE item == One(Value(v.payload))
             list == Listed("tables", Null, elements')
  <2>1. /\ v.payload \in Payloads /\ v.rest \in Seq(Token) /\ item \in Seq(Token)
        /\ Squeezed(text) = Cat(item, Squeezed(v.rest))
    BY <1>1, ValueWrites
  <2>2. /\ begun \in Seq(Token) /\ bracket \in Seq(Token)
        /\ Follows(OpenText(patches), Cat(begun, Cat(bracket, before)), text)
    <3>1. Follows(OpenText(patches), Cat(begun, Cat(bracket, before)), text)
      BY <1>1 DEF TextInv, Current, AtElement, PastPath
    <3>2. bracket \in Seq(Token)
      BY TokenTypes, Cats DEF Marks
    <3>3. begun \in Seq(Token)
      BY <1>1, TokenTypes, PathTokensType, Cats DEF Begun
    <3> QED
      BY <3>1, <3>2, <3>3
  <2>3. /\ before \in Seq(Token) /\ Between("tables") \in Seq(Token)
        /\ list = Cat(before, item)
        /\ Followed("tables", Null, elements') = Cat(list, Between("tables"))
    <3>1. Part("tables", Null, v.payload) = item
      BY DEF Part
    <3>2. /\ Followed("tables", Null, elements) \in Seq(Token)
          /\ Between("tables") \in Seq(Token)
          /\ Listed("tables", Null, Append(elements, v.payload)) =
               Cat(Followed("tables", Null, elements), Part("tables", Null, v.payload))
          /\ Followed("tables", Null, Append(elements, v.payload)) =
               Cat(Listed("tables", Null, Append(elements, v.payload)), Between("tables"))
      BY <1>2, <2>1, TablesList, ListedOn
    <3> QED
      BY <1>4, <3>1, <3>2
  <2> HIDE DEF item, list, before, begun, bracket
  <2>4. Follows(OpenText(patches), Cat(Cat(begun, Cat(bracket, before)), item), v.rest)
    BY <2>1, <2>2, GoesOnReading
  <2>5. list \in Seq(Token)
        /\ Cat(Cat(begun, Cat(bracket, before)), item) = Cat(begun, Cat(bracket, list))
    BY <2>1, <2>2, <2>3, Cats
  <2>6. Follows(OpenText(patches), Cat(begun, Cat(bracket, list)), v.rest)
    BY <2>4, <2>5
  <2>7. Base' = Base /\ elements' \in Seq(Payloads)
    <3>1. elements' \in Seq(Payloads)
      BY <1>2, <1>4, <2>1, AppendProperties
    <3> QED
      BY <1>1, <3>1, BaseKept
  <2>8. CASE Starts(",", v.rest)
    <3>1. text' = Tail(v.rest) /\ pc' = "element" /\ UNCHANGED outcome
      BY <1>1, <1>4, <2>8
    <3>2. /\ Tail(v.rest) \in Seq(Token) /\ Mark(",") \in Token
          /\ Squeezed(v.rest) = Cat(One(Mark(",")), Squeezed(Tail(v.rest)))
      BY <2>1, <2>8, SqueezedMark DEF Marks
    <3>3. Between("tables") = One(Mark(","))
      BY DEF Between
    <3>4. Follows(OpenText(patches), Cat(Cat(begun, Cat(bracket, list)), Between("tables")),
                  text')
      BY <2>3, <2>6, <3>1, <3>2, <3>3, GoesOnReading
    <3>5. Cat(Cat(begun, Cat(bracket, list)), Between("tables")) =
            Cat(begun, Cat(bracket, Cat(list, Between("tables"))))
      BY <2>2, <2>3, <2>5, Cats
    <3>6. Current' = Cat(begun, Cat(bracket, Cat(list, Between("tables"))))
      <4>1. Current' = Cat(Begun(Base, verb, path),
                           Cat(One(Mark("[")), Followed("tables", Null, elements')))
        BY <1>1, <2>7, <3>1 DEF Current, AtElement, PastPath
      <4> QED
        BY <2>3, <4>1 DEF begun, bracket
    <3>7. ReadsAre'
      BY <1>1, <1>2, <2>7, <3>1 DEF ReadsAre
    <3> QED
      BY <1>1, <3>1, <3>4, <3>5, <3>6, <3>7, TextKept
  <2>9. CASE ~Starts(",", v.rest) /\ Starts("]", v.rest)
    <3>1. text' = Tail(v.rest) /\ pc' = "vector" /\ UNCHANGED outcome
      BY <1>4, <2>9
    <3>2. /\ Tail(v.rest) \in Seq(Token) /\ Mark("]") \in Token
          /\ Squeezed(v.rest) = Cat(One(Mark("]")), Squeezed(Tail(v.rest)))
      BY <2>1, <2>9, SqueezedMark DEF Marks
    <3>3. One(Mark("]")) \in Seq(Token)
      BY <3>2, Cats
    <3>4. Follows(OpenText(patches), Cat(Cat(begun, Cat(bracket, list)), One(Mark("]"))),
                  text')
      BY <2>6, <3>1, <3>2, <3>3, GoesOnReading
    <3>5. Cat(Cat(begun, Cat(bracket, list)), One(Mark("]"))) =
            Cat(begun, Cat(Cat(bracket, list), One(Mark("]"))))
      BY <2>2, <2>5, <3>3, Cats
    <3>6. Current' = Cat(begun, Cat(Cat(bracket, list), One(Mark("]"))))
      <4>1. Current' = Cat(Begun(Base, verb, path), TablesTokens(elements'))
        BY <1>1, <2>7, <3>1 DEF Current, PastVector, PastPath
      <4> QED
        BY <4>1 DEF begun, bracket, list, TablesTokens
    <3>7. ReadsAre'
      BY <1>1, <1>2, <2>7, <3>1 DEF ReadsAre
    <3> QED
      BY <1>1, <3>1, <3>4, <3>5, <3>6, <3>7, TextKept
  <2>10. CASE ~Starts(",", v.rest) /\ ~Starts("]", v.rest)
    BY <1>1, <1>4, <2>10, TextFails
  <2> QED
    BY <2>8, <2>9, <2>10
<1> QED
  BY <1>3, <1>4 DEF ReadElement, ReadTables

LEMMA EndVectorText ==
  ASSUME IInv, ShapeInv, TextInv, IInv', EndVector
  PROVE  TextInv'
<1>1. /\ outcome = "reading" /\ pc = "vector" /\ pc' = "return"
      /\ path \in Seq(Nat)
      /\ operation' = [op |-> "put", path |-> path, payload |-> Tables(object, elements)]
      /\ UNCHANGED <<given, text, patches, outcome>>
  BY DEF EndVector, Complete, PutOperation, Tables, IInv, TypeOK
<1>2. object \in DOMAIN Objects /\ elements \in Seq(Payloads) /\ verb = "put"
  BY <1>1 DEF TextInv, ReadsAre
<1>3. Tables(object, elements) \in PutPayloads
      /\ PayloadTokens(Tables(object, elements)) = TablesTokens(elements)
  BY <1>2, PayloadForms
<1>4. /\ operation' \in Operations({})
      /\ OperationTokens(Base, operation', << >>) =
           Cat(Begun(Base, "put", path), PayloadTokens(Tables(object, elements)))
  BY <1>1, <1>3, PutForms
<1>5. Follows(OpenText(patches), Cat(Begun(Base, verb, path), TablesTokens(elements)), text)
  BY <1>1 DEF TextInv, Current, PastVector, PastPath
<1>6. Follows(OpenText(patches), OperationTokens(Base, operation', << >>), text')
  BY <1>1, <1>2, <1>3, <1>4, <1>5
<1> QED
  BY <1>1, <1>4, <1>6, ReturnText

\* A step after which the patches open are others.
LEMMA TextGoesOn ==
  ASSUME TextInv, UNCHANGED <<given, outcome>>, outcome = "reading",
         Follows(OpenText(patches'), Current', text'), ReadsAre',
         UpdatesWithin(patches', Len(given)),
         pc' = "return" => operation' \in Within(Len(given) - Len(patches'))
  PROVE  TextInv'
BY DEF TextInv, UpdatesWithin, NothingIsIgnored, Follows, HasRead

\* What has been read of an operation is a patch that is now open.
LEMMA AllOpen ==
  ASSUME NEW open, NEW current, NEW rest, Follows(open, current, rest)
  PROVE  Follows(Cat(open, current), << >>, rest)
<1> DEFINE E == Items(Every)
<1>1. open \in Seq(E) /\ current \in Seq(E)
  BY DEF Follows
<1> HIDE DEF E
<1>2. Cat(open, current) \in Seq(E) /\ << >> \in Seq(E)
  BY <1>1, Cats
<1>3. Cat(Cat(open, current), << >>) = Cat(open, current)
  BY <1>2, Cats
<1> QED
  BY <1>2, <1>3 DEF Follows, E

LEMMA PushWithin ==
  ASSUME NEW ps, IsStack(ps), NEW n, UpdatesWithin(ps, n),
         NEW p, p.updates \in Seq(Within(n - (Len(ps) + 1)))
  PROVE  UpdatesWithin(Append(ps, p), n)
<1> DEFINE more == Append(ps, p)
<1>1. PICK S : ps \in Seq(S)
  BY DEF IsStack
<1>2. /\ Len(ps) \in Nat /\ DOMAIN more = 1..(Len(ps) + 1) /\ DOMAIN ps = 1..Len(ps)
      /\ more[Len(ps) + 1] = p /\ \A i \in 1..Len(ps) : more[i] = ps[i]
  <2>1. ps \in Seq(S \cup {p})
    BY <1>1, SeqMonotonic
  <2>2. /\ Len(more) = Len(ps) + 1 /\ more \in Seq(S \cup {p})
        /\ more[Len(ps) + 1] = p /\ \A i \in 1..Len(ps) : more[i] = ps[i]
    BY <2>1, AppendProperties
  <2> HIDE DEF more
  <2>3. DOMAIN more = 1..Len(more) /\ DOMAIN ps = 1..Len(ps) /\ Len(ps) \in Nat
    BY <2>1, <2>2, LenProperties
  <2> QED
    BY <2>2, <2>3
<1> HIDE DEF more
<1>3. \A i \in 1..(Len(ps) + 1) : i = Len(ps) + 1 \/ i \in 1..Len(ps)
  BY <1>2
<1>4. \A i \in DOMAIN more : more[i].updates \in Seq(Within(n - i))
  BY <1>2, <1>3 DEF UpdatesWithin
<1> QED
  BY <1>4 DEF UpdatesWithin, more

\* A patch's list is opened, or the patch is closed at once.
LEMMA OpenListText ==
  ASSUME IInv, ShapeInv, TextInv, IInv', outcome = "reading", pc \in {"patch", "target"},
         UNCHANGED given, NEW p, IsPatch(p), p.updates = << >>,
         NEW s \in Seq(Token),
         Follows(OpenText(patches), Begun(Base, "patch", p.path), s),
         PatchTarget(Base, p.path) = p.target, OpenList(p, s)
  PROVE  TextInv'
<1> DEFINE begun == Begun(Base, "patch", p.path)
           body == Skip("sp", Tail(s))
           n == Len(given)
<1>1. /\ Base \in DOMAIN Objects /\ Base \in Defs /\ IsStack(patches)
      /\ p.path \in Seq(Nat) /\ p.target \in DOMAIN Objects
  BY BaseIsObject DEF Defs, IsPatch, IInv
<1>2. /\ n - Len(patches) \in Nat /\ n - Len(patches) > 0 /\ n \in Nat
      /\ Len(patches) \in Nat
  BY Depth
<1>3. CASE ~Starts("{", s)
  BY <1>3, TextFails DEF OpenList
<1>4. CASE Starts("{", s)
  <2>1. /\ Tail(s) \in Seq(Token) /\ Mark("{") \in Token
        /\ Squeezed(s) = Cat(One(Mark("{")), Squeezed(Tail(s)))
    BY <1>4, SqueezedMark DEF Marks
  <2>2. One(Mark("{")) \in Seq(Token)
    BY <2>1, Cats
  <2>3. Follows(OpenText(patches), Cat(begun, One(Mark("{"))), Tail(s))
    BY <2>1, <2>2, GoesOnReading
  <2>4. Cat(begun, One(Mark("{"))) = Opened(Base, p.path)
    BY DEF Begun, Opened
  <2>5. body \in Seq(Token) /\ Squeezed(Tail(s)) = Squeezed(body)
    BY <2>1, SkipReads, SqueezedSkip
  <2> HIDE DEF begun, body
  <2>6. Follows(OpenText(patches), Opened(Base, p.path), body)
    BY <2>3, <2>4, <2>5, GoesOnUnread
  <2>7. CASE Starts("}", body)
    <3>1. /\ operation' = PatchOperation(p) /\ pc' = "return" /\ text' = Tail(body)
          /\ UNCHANGED <<patches, outcome>>
      BY <1>4, <2>7 DEF OpenList, Complete, body
    <3>2. /\ Tail(body) \in Seq(Token) /\ Mark("}") \in Token
          /\ Squeezed(body) = Cat(One(Mark("}")), Squeezed(Tail(body)))
      BY <2>5, <2>7, SqueezedMark DEF Marks
    <3>3. One(Mark("}")) \in Seq(Token)
      BY <3>2, Cats
    <3>4. Follows(OpenText(patches), Cat(Opened(Base, p.path), One(Mark("}"))), text')
      BY <2>6, <3>1, <3>2, <3>3, GoesOnReading
    <3>5. /\ operation'.op = "patch" /\ operation'.path = p.path
          /\ operation'.updates = << >> /\ operation' \in Operations({})
      BY <1>1, <3>1 DEF PatchOperation, Operations
    <3>6. OperationTokens(Base, operation', << >>) = Cat(Opened(Base, p.path), One(Mark("}")))
      <4>1. OperationTokens(Base, operation', << >>) =
              Cat(Opened(Base, operation'.path),
                  Cat(Listed("updates", Target(Base, operation'.path), operation'.updates),
                      One(Mark("}"))))
        BY <3>5, OperationForms
      <4>2. Listed("updates", Target(Base, p.path), << >>) = << >>
        BY ListedNone
      <4>3. Cat(<< >>, One(Mark("}"))) = One(Mark("}"))
        BY <3>3, Cats
      <4> QED
        BY <3>5, <4>1, <4>2, <4>3
    <3>7. Follows(OpenText(patches), OperationTokens(Base, operation', << >>), text')
      BY <3>4, <3>6
    <3> QED
      BY <3>1, <3>5, <3>7, ReturnText
  <2>8. CASE ~Starts("}", body)
    <3>1. /\ patches' = Append(patches, p) /\ pc' = "update" /\ text' = body
          /\ UNCHANGED outcome
      BY <1>4, <2>8 DEF OpenList, body
    <3>2. AreOpen(patches)
      BY <1>1, AreOpenWithin DEF TextInv
    <3>3. IsOpen(p)
      <4>1. p.updates \in Seq(Every)
        BY EmptySeq
      <4> QED
        BY <4>1 DEF IsOpen
    <3>4. /\ OpenText(patches') = Cat(OpenText(patches), PatchText(Base, p))
          /\ PatchText(Base, p) = Opened(Base, p.path)
      <4>1. OpenText(Append(patches, p)) = Cat(OpenText(patches), PatchText(Tip(patches), p))
        BY <3>2, <3>3, OpenOn
      <4>2. Tip(patches) = Base
        BY DEF Tip, Base, Innermost
      <4>3. Followed("updates", p.target, p.updates) = << >>
        BY ListedNone
      <4>4. Opened(Base, p.path) \in Seq(Items(Every))
        BY <3>3, PatchTextType
      <4>5. PatchText(Base, p) = Cat(Opened(Base, p.path), << >>)
        BY <4>3 DEF PatchText
      <4>6. PatchText(Base, p) = Opened(Base, p.path)
        BY <4>4, <4>5, Cats
      <4> QED
        BY <3>1, <4>1, <4>2, <4>6
    <3>5. Follows(OpenText(patches'), << >>, text')
      BY <2>6, <3>1, <3>4, AllOpen
    <3>6. Current' = << >>
      BY <3>1 DEF Current, AtVerb
    <3>7. UpdatesWithin(patches', Len(given'))
      <4>1. UpdatesWithin(patches, Len(given))
        BY DEF TextInv
      <4>2. p.updates \in Seq(Within(n - (Len(patches) + 1)))
        BY EmptySeq
      <4> QED
        BY <1>1, <3>1, <4>1, <4>2, PushWithin
    <3>8. ReadsAre'
      BY <3>1 DEF ReadsAre
    <3> QED
      BY <3>1, <3>5, <3>6, <3>7, <3>8, TextGoesOn
  <2> QED
    BY <2>7, <2>8
<1> QED
  BY <1>3, <1>4

LEMMA BeginPatchText ==
  ASSUME IInv, ShapeInv, TextInv, IInv', BeginPatch
  PROVE  TextInv'
<1> DEFINE s == Skip("sp", text)
<1>1. /\ outcome = "reading" /\ pc = "patch" /\ verb = "patch" /\ text \in Seq(Token)
      /\ UNCHANGED <<given, verb>>
  BY DEF BeginPatch, IInv, TypeOK, TextInv, ReadsAre
<1>2. s \in Seq(Token) /\ Squeezed(text) = Squeezed(s)
  BY <1>1, SkipReads, SqueezedSkip
<1>3. Follows(OpenText(patches), One(Mark(verb)), text)
  BY <1>1 DEF TextInv, Current, AfterVerb
<1>4. Follows(OpenText(patches), One(Mark(verb)), s)
  BY <1>2, <1>3, GoesOnUnread
<1>5. CASE ~Starts("{", s)
  <2>1. text' = s /\ pc' = "path" /\ UNCHANGED <<patches, outcome>>
    BY <1>5 DEF BeginPatch
  <2>2. Current' = One(Mark(verb))
    BY <1>1, <2>1 DEF Current, AfterVerb
  <2>3. ReadsAre'
    BY <2>1 DEF ReadsAre
  <2> QED
    BY <1>1, <1>4, <2>1, <2>2, <2>3, TextKept
<1>6. CASE Starts("{", s)
  <2> DEFINE p == [target |-> Base, path |-> << >>, updates |-> << >>]
  <2>1. OpenList(p, s)
    BY <1>6 DEF BeginPatch
  <2>2. IsPatch(p)
    BY BaseIsObject, NoStep DEF IsPatch
  <2>3. PatchTarget(Base, << >>) = Base
    BY ReachedNone DEF PatchTarget, AtObject
  <2>4. p.updates = << >> /\ p.path = << >> /\ p.target = Base
    OBVIOUS
  <2>5. Begun(Base, "patch", p.path) = One(Mark(verb))
    <3>1. One(Mark("patch")) \in Seq(Token)
      BY TokenTypes, Cats DEF Verbs
    <3>2. Cat(One(Mark("patch")), << >>) = One(Mark("patch"))
      BY <3>1, Cats
    <3>3. PathTokens(Base, << >>) = << >>
      BY PathNone
    <3> QED
      BY <1>1, <2>4, <3>2, <3>3 DEF Begun
  <2> HIDE DEF p, s
  <2> QED
    BY <1>1, <1>2, <1>4, <2>1, <2>2, <2>3, <2>4, <2>5, OpenListText
<1> QED
  BY <1>5, <1>6

LEMMA EndTargetText ==
  ASSUME IInv, ShapeInv, TextInv, IInv', EndTarget
  PROVE  TextInv'
<1> DEFINE s == Skip("sp", text)
<1>1. /\ outcome = "reading" /\ pc = "target" /\ verb = "patch"
      /\ UNCHANGED given
  BY DEF EndTarget, IInv, TypeOK, TextInv, ReadsAre
<1>2. /\ Follows(OpenText(patches), Begun(Base, "patch", path), text)
      /\ text \in Seq(Token) /\ path \in Seq(Nat)
  BY <1>1, PastPathText
<1>3. s \in Seq(Token) /\ Squeezed(text) = Squeezed(s)
  BY <1>2, SkipReads, SqueezedSkip
<1>4. CASE ~Patchable
  BY <1>1, <1>4, TextFails DEF EndTarget
<1>5. CASE Patchable
  <2> DEFINE p == [target |-> object, path |-> path, updates |-> << >>]
  <2>1. OpenList(p, s)
    BY <1>5 DEF EndTarget
  <2>2. IsPatch(p)
    BY <1>5 DEF IsPatch, Patchable, IInv, TypeOK
  <2>3. PatchTarget(Base, path) = object
    BY <1>1, <1>5 DEF ShapeInv, PathLeads
  <2>4. p.updates = << >> /\ p.path = path /\ p.target = object
    OBVIOUS
  <2>5. Follows(OpenText(patches), Begun(Base, "patch", path), s)
    BY <1>2, <1>3, GoesOnUnread
  <2> HIDE DEF p, s
  <2> QED
    BY <1>1, <1>3, <2>1, <2>2, <2>3, <2>4, <2>5, OpenListText
<1> QED
  BY <1>4, <1>5

\* The stack is the patches around the innermost, and that patch.
LEMMA OuterAppends ==
  ASSUME IsStack(patches), patches # << >>
  PROVE  /\ patches = Append(Outer, Innermost)
         /\ Len(Outer) = Len(patches) - 1 /\ Len(patches) \in Nat
         /\ Innermost = patches[Len(patches)] /\ Len(patches) \in DOMAIN patches
         /\ \A i \in DOMAIN Outer : i \in DOMAIN patches /\ Outer[i] = patches[i]
<1>1. PICK S : patches \in Seq(S)
  BY DEF IsStack
<1> DEFINE n == Len(patches)
           outer == SubSeq(patches, 1, n - 1)
<1>2. n \in Nat /\ n > 0 /\ DOMAIN patches = 1..n /\ \A i \in 1..n : patches[i] \in S
  BY <1>1, EmptySeq
<1>3. /\ outer \in Seq(S) /\ Len(outer) = n - 1
      /\ \A i \in 1..(n - 1) : outer[i] = patches[i]
  <2>1. /\ 1 \in 1..(n + 1) /\ n - 1 \in (1 - 1)..n
        /\ n - 1 - 1 + 1 = n - 1
    BY <1>2
  <2> HIDE DEF n
  <2> QED
    BY <1>1, <1>2, <2>1, SubSeqProperties DEF n
<1>4. patches[n] \in S /\ n \in 1..n
  BY <1>2
<1> HIDE DEF n, outer
<1>5. DOMAIN outer = 1..(n - 1) /\ \A i \in 1..(n - 1) : i \in 1..n
  BY <1>2, <1>3, LenProperties
<1>6. patches = And(outer, patches[n])
  <2>1. patches = [i \in 1..(Len(outer) + 1) |-> patches[i]]
    <3>1. Len(outer) + 1 = n
      BY <1>2, <1>3
    <3>2. patches = [i \in 1..n |-> patches[i]]
      BY <1>1, SequenceIsAFunction DEF n
    <3> QED
      BY <3>1, <3>2
  <2>2. \A i \in 1..Len(outer) : patches[i] = outer[i]
    BY <1>3
  <2>3. patches[Len(outer) + 1] = patches[n]
    <3>1. Len(outer) + 1 = n
      BY <1>2, <1>3
    <3> QED
      BY <3>1
  <2>4. Lengthens(patches, outer, patches[n])
    BY <2>1, <2>2, <2>3, Zenon DEF Lengthens
  <2> QED
    BY <1>3, <1>4, <2>4, OneMore
<1>7. Outer = outer /\ Innermost = patches[n]
  BY DEF Outer, Innermost, outer, n
<1>8. patches = Append(Outer, Innermost)
  BY <1>6, <1>7, Zenon DEF And
<1>9. Len(Outer) = n - 1 /\ \A i \in DOMAIN Outer : i \in DOMAIN patches /\ Outer[i] = patches[i]
  BY <1>2, <1>3, <1>5, <1>7
<1> QED
  BY <1>2, <1>4, <1>7, <1>8, <1>9 DEF n

\* The innermost patch, with the operation read as its latest update.
Updated == [target |-> Innermost.target, path |-> Innermost.path,
            updates |-> Append(Innermost.updates, operation)]
UpdateList == Listed("updates", Updated.target, Updated.updates)

LEMMA UpdateJoins ==
  ASSUME IInv, ShapeInv, TextInv, pc = "return", patches # << >>
  PROVE  /\ AreOpen(Outer) /\ IsOpen(Updated) /\ UpdatesWithin(Outer, Len(given))
         /\ Updated.updates \in Seq(Within(Len(given) - Len(patches)))
         /\ PatchTarget(Tip(Outer), Updated.path) = Updated.target
         /\ Tip(Outer) \in DOMAIN Objects
         /\ OpenText(Outer) \in Seq(Items(Every))
         /\ Opened(Tip(Outer), Updated.path) \in Seq(Items(Every))
         /\ UpdateList \in Seq(Items(Every))
         /\ Follows(OpenText(Outer), Cat(Opened(Tip(Outer), Updated.path), UpdateList), text)
         /\ OpenText(Append(Outer, Updated)) =
              Cat(OpenText(Outer), PatchText(Tip(Outer), Updated))
         /\ PatchText(Tip(Outer), Updated) =
              Cat(Opened(Tip(Outer), Updated.path), Cat(UpdateList, One(Mark(";"))))
<1> DEFINE n == Len(given)
           m == Len(patches)
           E == Items(Every)
           open == OpenText(Outer)
           opened == Opened(Tip(Outer), Innermost.path)
           before == Followed("updates", Innermost.target, Innermost.updates)
           item == One(Unwritten(Innermost.target, operation))
<1>1. /\ patches = Append(Outer, Innermost) /\ Len(Outer) = m - 1 /\ m \in Nat
      /\ Innermost = patches[m] /\ m \in DOMAIN patches
      /\ \A i \in DOMAIN Outer : i \in DOMAIN patches /\ Outer[i] = patches[i]
      /\ IsStack(Outer) /\ IsPatch(Innermost) /\ IsStack(patches)
  BY OuterAppends, StackPop DEF IInv
<1>2. UpdatesWithin(patches, n) /\ operation \in Within(n - m) /\ outcome = "reading"
  BY DEF TextInv, IInv, TypeOK
<1>3. n - m \in Nat
  BY Depth
<1>4. UpdatesWithin(Outer, n) /\ Innermost.updates \in Seq(Within(n - m))
  BY <1>1, <1>2 DEF UpdatesWithin
<1>5. AreOpen(Outer)
  BY <1>1, <1>4, AreOpenWithin
<1>6. /\ Updated.target = Innermost.target /\ Updated.path = Innermost.path
      /\ Updated.updates = Append(Innermost.updates, operation)
  BY DEF Updated
<1>7. Within(n - m) \subseteq Every
  BY <1>3, EveryWrites
<1>8. Updated.updates \in Seq(Within(n - m))
  BY <1>2, <1>4, <1>6, AppendProperties
<1> HIDE DEF n, m
<1>9. /\ Innermost.updates \in Seq(Every) /\ operation \in Every
      /\ Updated.updates \in Seq(Every)
  BY <1>2, <1>4, <1>7, <1>8, SeqMonotonic
<1>10. IsOpen(Innermost) /\ IsOpen(Updated)
  BY <1>1, <1>6, <1>9 DEF IsOpen, IsPatch
<1>11. PatchTarget(Tip(Outer), Updated.path) = Updated.target
  BY OuterShaped DEF Tip, Updated
<1>12. Tip(Outer) \in DOMAIN Objects
  <2>1. CASE Outer = << >>
    BY <2>1, ParseAssumption DEF Tip
  <2>2. CASE Outer # << >>
    <3>1. Len(Outer) \in DOMAIN Outer
      <4>1. PICK S : Outer \in Seq(S)
        BY <1>1 DEF IsStack
      <4> QED
        BY <2>2, <4>1, EmptySeq, LenProperties
    <3>2. IsPatch(Outer[Len(Outer)])
      BY <1>1, <3>1, StackTypes
    <3> QED
      BY <2>2, <3>2 DEF Tip, IsPatch
  <2> QED
    BY <2>1, <2>2
<1>13. Innermost.target \in Defs
  BY <1>1 DEF IsPatch, Defs
<1>14. /\ open \in Seq(E) /\ opened \in Seq(E)
       /\ OpenText(Append(Outer, Updated)) = Cat(open, PatchText(Tip(Outer), Updated))
       /\ OpenText(Append(Outer, Innermost)) = Cat(open, PatchText(Tip(Outer), Innermost))
  BY <1>5, <1>10, OpenOn, PatchTextType
<1>15. /\ before \in Seq(E) /\ UpdateList = Cat(before, item)
       /\ Followed("updates", Updated.target, Updated.updates) = Cat(UpdateList, One(Mark(";")))
  <2>1. Lists("updates", Innermost.target, Every, Items(Every))
    BY <1>13, UpdatesList
  <2>2. Part("updates", Innermost.target, operation) = item /\ Between("updates") = One(Mark(";"))
    BY DEF Part, Between
  <2>3. /\ Followed("updates", Innermost.target, Innermost.updates) \in Seq(Items(Every))
        /\ Listed("updates", Innermost.target, Append(Innermost.updates, operation)) =
             Cat(Followed("updates", Innermost.target, Innermost.updates),
                 Part("updates", Innermost.target, operation))
        /\ Followed("updates", Innermost.target, Append(Innermost.updates, operation)) =
             Cat(Listed("updates", Innermost.target, Append(Innermost.updates, operation)),
                 Between("updates"))
    BY <1>9, <2>1, ListedOn
  <2> QED
    BY <1>6, <2>2, <2>3 DEF UpdateList
<1>16. item \in Seq(E)
  BY <1>9, <1>13, ItemForms, Cats
<1>17. PatchText(Tip(Outer), Innermost) = Cat(opened, before)
  BY DEF PatchText
<1>18. PatchText(Tip(Outer), Updated) =
         Cat(Opened(Tip(Outer), Updated.path), Cat(UpdateList, One(Mark(";"))))
  BY <1>15 DEF PatchText
<1>19. Follows(OpenText(patches), item, text)
  <2>1. Current = One(Unwritten(Base, operation))
    BY DEF Current, AtReturn
  <2>2. Base = Innermost.target
    BY DEF Base
  <2> QED
    BY <1>2, <2>1, <2>2 DEF TextInv
<1>20. OpenText(patches) = Cat(open, Cat(opened, before))
  BY <1>1, <1>14, <1>17
<1>21. Follows(open, Cat(opened, UpdateList), text) /\ UpdateList \in Seq(E)
  <2> HIDE DEF E, open, opened, before, item
  <2>1. Cat(Cat(open, Cat(opened, before)), item) = Cat(open, Cat(opened, Cat(before, item)))
    <3>1. /\ open \in Seq(E) /\ opened \in Seq(E) /\ before \in Seq(E) /\ item \in Seq(E)
      BY <1>14, <1>15, <1>16
    <3>2. Cat(opened, before) \in Seq(E)
      BY <3>1, Cats
    <3>3. Cat(Cat(open, Cat(opened, before)), item) = Cat(open, Cat(Cat(opened, before), item))
      BY <3>1, <3>2, CatAssociates
    <3>4. Cat(Cat(opened, before), item) = Cat(opened, Cat(before, item))
      BY <3>1, CatAssociates
    <3> QED
      BY <3>3, <3>4
  <2>2. Cat(before, item) \in Seq(E) /\ Cat(opened, Cat(before, item)) \in Seq(E)
    BY <1>14, <1>15, <1>16, Cats
  <2>3. text \in Seq(Token) /\ HasRead(Cat(OpenText(patches), item), text)
    BY <1>19 DEF Follows
  <2>4. HasRead(Cat(open, Cat(opened, UpdateList)), text)
    BY <1>15, <1>20, <2>1, <2>3
  <2> QED
    BY <1>14, <1>15, <2>2, <2>3, <2>4 DEF Follows, E
<1> QED
  BY <1>4, <1>5, <1>6, <1>8, <1>10, <1>11, <1>12, <1>14, <1>18, <1>21 DEF n, m

LEMMA EndUpdateText ==
  ASSUME IInv, ShapeInv, TextInv, IInv', EndUpdate
  PROVE  TextInv'
<1> DEFINE s == Skip("sp", text)
           closing == Skip("sp", s)
           n == Len(given)
           m == Len(patches)
           E == Items(Every)
           open == OpenText(Outer)
           opened == Opened(Tip(Outer), Updated.path)
<1>1. /\ outcome = "reading" /\ pc = "return" /\ patches # << >> /\ UNCHANGED given
      /\ text \in Seq(Token)
  BY DEF EndUpdate, IInv, TypeOK
<1>2. /\ AreOpen(Outer) /\ IsOpen(Updated) /\ UpdatesWithin(Outer, n)
      /\ Updated.updates \in Seq(Within(n - m))
      /\ PatchTarget(Tip(Outer), Updated.path) = Updated.target
      /\ Tip(Outer) \in DOMAIN Objects
      /\ open \in Seq(E) /\ opened \in Seq(E) /\ UpdateList \in Seq(E)
      /\ Follows(open, Cat(opened, UpdateList), text)
      /\ OpenText(Append(Outer, Updated)) = Cat(open, PatchText(Tip(Outer), Updated))
      /\ PatchText(Tip(Outer), Updated) = Cat(opened, Cat(UpdateList, One(Mark(";"))))
  BY <1>1, UpdateJoins
<1>3. s \in Seq(Token) /\ closing \in Seq(Token)
      /\ Squeezed(text) = Squeezed(s) /\ Squeezed(s) = Squeezed(closing)
  BY <1>1, SkipReads, SqueezedSkip
<1>4. Len(Outer) = m - 1 /\ m \in Nat /\ n - m \in Nat /\ n \in Nat
      /\ Len(Outer) + 1 = m /\ n - Len(Outer) = (n - m) + 1 /\ n - Len(Outer) <= n
  BY <1>1, OuterAppends, Depth DEF IInv
<1> HIDE DEF open, opened, E, n, m
<1>5. CASE Starts(";", s)
  <2>1. /\ text' = Tail(s) /\ patches' = Append(Outer, Updated) /\ pc' = "update"
        /\ UNCHANGED outcome
    BY <1>5 DEF EndUpdate, Updated
  <2> HIDE DEF s, closing
  <2>2. /\ Tail(s) \in Seq(Token) /\ Mark(";") \in Token
        /\ Squeezed(s) = Cat(One(Mark(";")), Squeezed(Tail(s)))
    BY <1>3, <1>5, SqueezedMark DEF Marks
  <2>3. One(Mark(";")) \in Seq(Token) /\ One(Mark(";")) \in Seq(E)
    BY <2>2, Cats, TokensAreItems DEF E
  <2>4. Follows(open, Cat(opened, UpdateList), s)
    BY <1>2, <1>3, GoesOnUnread
  <2>5. Follows(open, Cat(Cat(opened, UpdateList), One(Mark(";"))), text')
    BY <2>1, <2>2, <2>3, <2>4, GoesOnReading
  <2>6. Cat(Cat(opened, UpdateList), One(Mark(";"))) = Cat(opened, Cat(UpdateList, One(Mark(";"))))
    <3>1. opened \in Seq(E) /\ UpdateList \in Seq(E)
      BY <1>2
    <3> DEFINE mark == One(Mark(";"))
    <3>2. mark \in Seq(E)
      BY <2>3
    <3> HIDE DEF mark
    <3>3. Cat(Cat(opened, UpdateList), mark) = Cat(opened, Cat(UpdateList, mark))
      BY <3>1, <3>2, CatAssociates
    <3> QED
      BY <3>3 DEF mark
  <2>7. Follows(OpenText(patches'), << >>, text')
    BY <1>2, <2>1, <2>5, <2>6, AllOpen
  <2>8. Current' = << >>
    BY <2>1 DEF Current, AtVerb
  <2>9. UpdatesWithin(patches', n)
    <3>1. Updated.updates \in Seq(Within(n - (Len(Outer) + 1)))
      BY <1>2, <1>4
    <3>2. IsStack(Outer)
      BY <1>2 DEF AreOpen
    <3> QED
      BY <1>2, <2>1, <3>1, <3>2, PushWithin
  <2>10. ReadsAre'
    BY <2>1 DEF ReadsAre
  <2> QED
    BY <1>1, <2>1, <2>7, <2>8, <2>9, <2>10, TextGoesOn DEF n
<1>6. CASE ~Starts(";", s) /\ Starts("}", closing)
  <2>1. /\ text' = Tail(closing) /\ patches' = Outer /\ pc' = "return"
        /\ operation' = PatchOperation(Updated) /\ UNCHANGED outcome
    BY <1>6 DEF EndUpdate, Complete, Updated
  <2> HIDE DEF s, closing
  <2>2. /\ Tail(closing) \in Seq(Token) /\ Mark("}") \in Token
        /\ Squeezed(closing) = Cat(One(Mark("}")), Squeezed(Tail(closing)))
    BY <1>3, <1>6, SqueezedMark DEF Marks
  <2>3. One(Mark("}")) \in Seq(Token) /\ One(Mark("}")) \in Seq(E)
    BY <2>2, Cats, TokensAreItems DEF E
  <2>4. Follows(open, Cat(opened, UpdateList), closing)
    BY <1>2, <1>3, GoesOnUnread
  <2>5. Follows(open, Cat(Cat(opened, UpdateList), One(Mark("}"))), text')
    BY <2>1, <2>2, <2>3, <2>4, GoesOnReading
  <2>6. Cat(Cat(opened, UpdateList), One(Mark("}"))) = Cat(opened, Cat(UpdateList, One(Mark("}"))))
    <3>1. opened \in Seq(E) /\ UpdateList \in Seq(E)
      BY <1>2
    <3> DEFINE mark == One(Mark("}"))
    <3>2. mark \in Seq(E)
      BY <2>3
    <3> HIDE DEF mark
    <3>3. Cat(Cat(opened, UpdateList), mark) = Cat(opened, Cat(UpdateList, mark))
      BY <3>1, <3>2, CatAssociates
    <3> QED
      BY <3>3 DEF mark
  <2>7. /\ operation'.op = "patch" /\ operation'.path = Updated.path
        /\ operation'.updates = Updated.updates
        /\ operation' \in Operations(Within(n - m))
    <3>1. Updated.path \in Seq(Nat)
      BY <1>2 DEF IsOpen, IsPatch
    <3> QED
      BY <1>2, <2>1, <3>1 DEF PatchOperation, Operations
  <2>8. operation' \in Within(n - Len(Outer))
    BY <1>4, <2>7, WithinOn
  <2>9. Target(Tip(Outer), Updated.path) = Updated.target
    BY <1>2 DEF Target, IsOpen, IsPatch
  <2>10. OperationTokens(Tip(Outer), operation', << >>) =
           Cat(Cat(opened, UpdateList), One(Mark("}")))
    <3>1. OperationTokens(Tip(Outer), operation', << >>) =
            Cat(Opened(Tip(Outer), operation'.path),
                Cat(Listed("updates", Target(Tip(Outer), operation'.path),
                           operation'.updates), One(Mark("}"))))
      BY <2>7, OperationForms
    <3> QED
      BY <2>6, <2>7, <2>9, <3>1 DEF opened, UpdateList
  <2>11. Follows(open, One(Unwritten(Tip(Outer), operation')), text')
    <3>1. Tip(Outer) \in Defs /\ n - Len(Outer) \in Nat /\ n - Len(Outer) <= Len(given)
      <4>1. n - Len(Outer) \in Nat /\ n - Len(Outer) <= n
        BY <1>4
      <4> QED
        BY <1>2, <4>1 DEF Defs, n
    <3> QED
      BY <2>5, <2>8, <2>10, <3>1, Completes
  <2>12. Current' = One(Unwritten(Tip(Outer), operation'))
    <3>1. Base' = Tip(Outer)
      BY <2>1 DEF Base, Innermost, Tip
    <3> QED
      BY <2>1, <3>1 DEF Current, AtReturn
  <2>13. ReadsAre'
    BY <2>1 DEF ReadsAre
  <2>14. Follows(OpenText(patches'), Current', text')
    BY <2>1, <2>11, <2>12 DEF open
  <2> QED
    BY <1>1, <1>2, <2>1, <2>8, <2>13, <2>14, TextGoesOn DEF n
<1>7. CASE ~Starts(";", s) /\ ~Starts("}", closing)
  <2>1. Fail /\ UNCHANGED patches
    BY <1>7 DEF EndUpdate
  <2> QED
    BY <1>1, <2>1, TextFails
<1> QED
  BY <1>5, <1>6, <1>7

LEMMA EndRequestText ==
  ASSUME IInv, ShapeInv, TextInv, IInv', EndRequest
  PROVE  TextInv'
<1>1. /\ outcome = "reading" /\ pc = "return" /\ patches = << >> /\ pc' = "ended"
      /\ text \in Seq(Token) /\ outcome' # "reading"
      /\ outcome' = "parsed" => NothingLeft(text)
      /\ UNCHANGED <<given, patches, operation>>
  BY DEF EndRequest, IInv, TypeOK
<1>2. ASSUME outcome' = "parsed"
      PROVE  Squeezed(given) = Written(Root, operation, << >>, Len(given))
  <2> DEFINE item == One(Unwritten(Root, operation))
             n == Len(given)
  <2>1. Follows(OpenText(patches), Current, text) /\ Current = item
    BY <1>1 DEF TextInv, Current, AtReturn, Base
  <2>2. Squeezed(text) = << >>
    BY <1>1, <1>2, SqueezedSpaces
  <2>3. n \in Nat
    BY LenProperties DEF IInv, TypeOK
  <2>4. item \in Seq(Items(Every)) /\ OpenText(patches) = << >>
        /\ Squeezed(given) = Cat(Out(Cat(OpenText(patches), item), n), Squeezed(text))
    BY <1>1, <2>1, OpenNone DEF Follows, HasRead
  <2>5. << >> \in Seq(Items(Every)) /\ Cat(<< >>, item) = item
    BY <2>4, Cats
  <2> HIDE DEF item, n
  <2>6. Out(item, n) \in Seq(Items(Every))
    BY <2>3, <2>4, OutApart
  <2>7. Squeezed(given) = Out(item, n)
    BY <2>2, <2>4, <2>5, <2>6, Cats
  <2>8. Out(item, n) = Written(Root, operation, << >>, Len(given))
    BY DEF Out, Written, item, n, One
  <2> QED
    BY <2>7, <2>8
<1>3. NothingIsIgnored'
  BY <1>1, <1>2 DEF NothingIsIgnored
<1> QED
  BY <1>1, <1>3 DEF TextInv, UpdatesWithin, ReadsAre

LEMMA InitText == Init => TextInv
<1> SUFFICES ASSUME Init PROVE TextInv
  OBVIOUS
<1>1. /\ given \in Seq(Token) /\ text = given /\ patches = << >> /\ pc = "verb"
      /\ outcome = "reading"
  BY ParseAssumption DEF Init
<1>2. OpenText(patches) = << >> /\ Current = << >>
  BY <1>1, OpenNone DEF Current, AtVerb
<1>3. << >> \in Seq(Token) /\ << >> \in Seq(Items(Every)) /\ Cat(<< >>, << >>) = << >>
  BY Cats
<1>4. Out(<< >>, Len(given)) = << >>
  BY <1>1, <1>3, LenProperties, OutTokens
<1>5. Squeezed(given) = Cat(<< >>, Squeezed(given))
  BY <1>1, SqueezedReads, Cats
<1>6. Follows(OpenText(patches), Current, text)
  BY <1>1, <1>2, <1>3, <1>4, <1>5 DEF Follows, HasRead
<1>7. DOMAIN patches = {}
  BY <1>1
<1> QED
  BY <1>1, <1>6, <1>7 DEF TextInv, UpdatesWithin, ReadsAre, NothingIsIgnored

LEMMA NextText == IInv /\ ShapeInv /\ TextInv /\ [Next]_vars => TextInv'
<1>1. IInv /\ ShapeInv /\ TextInv /\ Next => TextInv'
  BY NextReads, ReadVerbText, BeginPathText, ReadSegmentText, BeginVectorText,
     ReadElementText, EndVectorText, ReadPayloadText, EndDeleteText, BeginPatchText,
     EndTargetText, EndUpdateText, EndRequestText DEF Next
<1>2. TextInv /\ UNCHANGED vars => TextInv'
  <2> SUFFICES ASSUME TextInv, UNCHANGED vars PROVE TextInv'
    OBVIOUS
  <2>1. UNCHANGED <<given, text, pc, verb, patches, path, object, elements, operation,
                    outcome>>
    BY DEF vars
  <2>2. Base' = Base
    BY <2>1, BaseKept
  <2>3. Current' = Current
    BY <2>1, <2>2 DEF Current, AtVerb, AfterVerb, InPath, PastPath, AtElement, PastVector,
       AtReturn
  <2>4. ReadsAre'
    BY <2>1, <2>2 DEF TextInv, ReadsAre
  <2> QED
    BY <2>1, <2>3, <2>4 DEF TextInv, UpdatesWithin, NothingIsIgnored, Follows, HasRead
<1> QED
  BY <1>1, <1>2

\* Whatever the schema and the text, a request that is parsed is all of the text:
\* written out from its operations, updates and payloads it is, but for the
\* spaces, every token that was given, in the order they were given.
THEOREM AllOfTheTextIsParsed == Spec => []NothingIsIgnored
<1>1. TextInv => NothingIsIgnored
  BY DEF TextInv
<1>2. Spec => []ShapeInv
  BY InitShape, NextShape, Invariance, PTL DEF Spec
<1> QED
  BY <1>1, <1>2, InitText, NextText, Invariance, PTL DEF Spec
=============================================================================
