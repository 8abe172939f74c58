------------------------------ MODULE RequestParse ------------------------------
(***************************************************************************)
(* parseFlatbufferRequest (FlatbufferRequestParse.cpp): a request's text   *)
(* read once from the left, against the schema.                            *)
(*                                                                         *)
(* A text is a sequence of tokens, as RequestText has them.  A space is    *)
(* one, for the parser takes one in some places, any number in others and  *)
(* none elsewhere.                                                         *)
(*                                                                         *)
(* An operation is [op, path] with a put's payload or a patch's updates.   *)
(* Patches being read stand on a stack, the innermost last.                *)
(***************************************************************************)
EXTENDS RequestText

CONSTANTS
  Root,           \* The schema's root table.
  Structs,        \* Which of the objects are structs.
  Texts,          \* The texts considered.
  Payloads,       \* What a value may spell.
  Largest,        \* kLargestGrownVectorBytes.
  IndexWord,      \* 2^32.
  FlexFits(_, _, _),  \* payloadFits: a field, whether of an element, a payload.
  TableReads(_, _)    \* Whether the JSON parser reads a payload as a table.

Verbs == {"put", "patch", "delete"}
Marks == {".", "[", "]", "{", "}", ";", ",", "sp"}
Token ==
  [kind : Verbs \cup Marks]
    \cup [kind : {"name"}, name : Nat] \cup [kind : {"index"}, index : Nat]
    \cup [kind : {"value"}, payload : Payloads]

ASSUME ParseAssumption ==
  /\ Root \in DOMAIN Objects /\ Root \notin Structs
  /\ Null \notin DOMAIN Objects /\ "" \notin DOMAIN Objects
  /\ \A p \in Payloads : p.kind = "list" => p.of = ""
  /\ \A text \in Texts : text \in Seq(Token)
  /\ Largest \in Nat /\ IndexWord \in Nat
  /\ \A def \in DOMAIN Objects : \A f \in Objects[def] :
       /\ f.offset \in Nat
       /\ f # Null
       /\ f.base = "Array" => f.element \notin {"Table", "Union"}
       /\ f.base \in {"Table", "Struct"}
            \/ (f.base \in {"Vector", "Array"} /\ f.element \in {"Table", "Struct"}) =>
            f.of \in DOMAIN Objects
       /\ f.base = "Union" \/ f.element = "Union" =>
            \A n \in DOMAIN Enums[f.of] :
              IsTableMember(f.of, n) => MemberDef(f.of, n) \in DOMAIN Objects

VARIABLES
  given,      \* History: the whole text.
  text,       \* What of it is left to read.
  pc,         \* What is read next.
  verb,       \* The operation being read.
  patches,    \* Those around it: [target, path, updates].
  path,       \* The offsets of its path so far.
  object,     \* outObject
  field,      \* The field outType is of.
  inVector,   \* outElementInVector
  inStruct,   \* outInsideStruct
  elements,   \* The tables of a vector's payload so far.
  operation,  \* The operation read last, while it is not part of a patch.
  outcome     \* "reading", "parsed" or "malformed".

vars == <<given, text, pc, verb, patches, path, object, field, inVector,
          inStruct, elements, operation, outcome>>

target == <<path, object, field, inVector, inStruct>>

Init ==
  /\ given \in Texts
  /\ text = given
  /\ pc = "verb"
  /\ verb = "put"
  /\ patches = << >>
  /\ path = << >>
  /\ object = Root
  /\ field = Null
  /\ inVector = FALSE
  /\ inStruct = FALSE
  /\ elements = << >>
  /\ operation = Null
  /\ outcome = "reading"

-----------------------------------------------------------------------------
(* Reading.  What may not be read is a set of readings that is empty.        *)

Starts(kind, s) == s # << >> /\ s[1].kind = kind
\* advanceOver, where what it answers is not looked at.
Skip(kind, s) == IF Starts(kind, s) THEN Tail(s) ELSE s
\* A name runs up to a mark of the path, a space or the end: any other mark is
\* taken for a part of it, which then names nothing.
NameAt(s) ==
  IF Starts("name", s) /\ (Len(s) = 1 \/ s[2].kind \in {".", "[", "sp"})
    THEN {[name |-> s[1].name, rest |-> Tail(s)]} ELSE {}

\* advanceOverIndex, up to the bracket that closes it.
IndexAt(s) ==
  IF Starts("index", s) /\ s[1].index < IndexWord /\ Starts("]", Tail(s))
    THEN {[index |-> s[1].index, rest |-> Tail(Tail(s))]} ELSE {}

\* parseFlatbufferOffsetPath_ParseUnionName
UnionName(f, s, writing) ==
  IF Starts(".", s)
    THEN {[steps |-> <<n.name>>, object |-> MemberDef(f.of, n.name),
           rest |-> n.rest] :
            n \in {n \in NameAt(Tail(s)) : IsTableMember(f.of, n.name)}}
    ELSE IF writing THEN {}
    ELSE {[steps |-> << >>, object |-> Null, rest |-> s]}

ReachableByAny(f, index, writing) == TRUE                  \* mutant
\* A put's vector may not outgrow a flatbuffer; an array does not grow.
ElementReachable(f, index, writing) ==
  IF f.base = "Array" THEN index < f.length
  ELSE writing => GrownBytes(f, index) <= Largest

ElementAfter(f, i, writing) ==
  CASE f.element = "Table" ->
         {[steps |-> <<i.index>>, object |-> f.of, rest |-> i.rest]}
    [] f.element = "Struct" ->
         IF writing /\ f.base = "Array" THEN {}
         ELSE {[steps |-> <<i.index>>, object |-> f.of, rest |-> i.rest]}
    [] f.element = "Union" ->
         {[u EXCEPT !.steps = <<i.index>> \o @] :
            u \in UnionName(f, i.rest, writing)}
    [] OTHER -> {[steps |-> <<i.index>>, object |-> Null, rest |-> i.rest]}

ElementReading(f, s, writing) ==
  UNION {ElementAfter(f, i, writing) :
           i \in {i \in IndexAt(s) : ElementReachable(f, i.index, writing)}}

\* The type of a whole vector's elements is what its payload is read as, and
\* nothing a path goes on from.
WholeVectorReading(f, s, writing) ==
  LET arrayOfStructs == f.base = "Array" /\ f.element = "Struct"
  IN  IF (writing /\ (f.element = "Union" \/ arrayOfStructs)) \/ Starts(".", s)
        THEN {}
        ELSE {[steps |-> << >>, rest |-> s,
               object |-> IF f.element \in {"Table", "Struct"} THEN f.of ELSE Null]}

NamesElement(f, s) == f.base \in {"Vector", "Array"} /\ Starts("[", s)
FieldReading(f, s, writing) ==
  CASE f.base \in {"Vector", "Array"} ->
         IF Starts("[", s) THEN ElementReading(f, Tail(s), writing)
                           ELSE WholeVectorReading(f, s, writing)
    [] f.base \in {"Table", "Struct"} ->
         {[steps |-> << >>, object |-> f.of, rest |-> s]}
    [] f.base = "Union" -> UnionName(f, s, writing)
    [] OTHER -> {[steps |-> << >>, object |-> Null, rest |-> s]}

-----------------------------------------------------------------------------

Forget == pc' = pc /\ UNCHANGED outcome                    \* mutant
Fail == pc' = "ended" /\ outcome' = "malformed"

\* The parse goes on to `next` with the operation complete.
Complete(op) == operation' = op /\ pc' = "return" /\ UNCHANGED outcome

PastVerb(s) == Tail(s)

\* parseFlatbufferOperationEnum; an update skips a space first.
ReadVerb ==
  /\ pc \in {"verb", "update"}
  /\ LET s == IF pc = "update" THEN Skip("sp", text) ELSE text
     IN  IF s # << >> /\ s[1].kind \in Verbs
           THEN /\ verb' = s[1].kind
                /\ text' = PastVerb(s)
                /\ pc' = IF verb' = "patch" THEN "patch" ELSE "path"
                /\ UNCHANGED outcome
           ELSE Fail /\ UNCHANGED <<text, verb>>
  /\ UNCHANGED <<given, patches, target, elements, operation>>

Innermost == patches[Len(patches)]
Outer == SubSeq(patches, 1, Len(patches) - 1)
\* What the paths of the operation being read start from.
Base == IF patches = << >> THEN Root ELSE Innermost.target

\* The start of parseFlatbufferOffsetPath.
BeginPath ==
  /\ pc = "path"
  /\ text' = Skip("sp", text)
  /\ path' = << >>
  /\ object' = Base
  /\ field' = Null
  /\ inVector' = FALSE
  /\ inStruct' = FALSE
  /\ IF text' = << >> THEN Fail ELSE pc' = "segment" /\ UNCHANGED outcome
  /\ UNCHANGED <<given, verb, patches, elements, operation>>

Writing == verb # "delete"
FieldsNamed ==
  {n \in NameAt(text) :
     /\ object # Null
     /\ n.name \in Offsets(object)
     /\ ~IsDiscriminant(FieldAt(object, n.name))}
SegmentReadings ==
  UNION {{[steps |-> <<n.name>> \o r.steps, object |-> r.object,
           rest |-> r.rest, field |-> FieldAt(object, n.name),
           inVector |-> NamesElement(FieldAt(object, n.name), n.rest)] :
            r \in FieldReading(FieldAt(object, n.name), n.rest, Writing)} :
           n \in FieldsNamed}

\* Where a path that ended goes on, by the operation it is of.
AfterPath ==
  CASE verb = "put" -> "payload"
    [] verb = "patch" -> "target"
    [] verb = "delete" -> "delete"

\* One turn of parseFlatbufferOffsetPath's loop.
ReadSegment ==
  /\ pc = "segment"
  /\ \/ /\ SegmentReadings = {}
        /\ Fail
        /\ UNCHANGED <<text, target>>
     \/ \E r \in SegmentReadings :
          /\ path' = path \o r.steps
          /\ field' = r.field
          /\ object' = r.object
          /\ inVector' = r.inVector
          /\ inStruct' = (inStruct \/ object \in Structs)
          /\ text' = Skip(".", r.rest)
          /\ IF Starts(".", r.rest) THEN pc' = "segment" /\ UNCHANGED outcome
             ELSE IF Starts("[", r.rest) THEN Fail
             ELSE pc' = AfterPath /\ UNCHANGED outcome
  /\ UNCHANGED <<given, verb, patches, elements, operation>>

-----------------------------------------------------------------------------
(* Puts and deletes.                                                         *)

IsTableObject == object # Null /\ object \notin Structs
PutOperation(payload) ==
  [op |-> "put", path |-> path, payload |-> payload]

\* parseFlatbufferPut_ParseVector, up to its bracket.
BeginVector ==
  /\ pc = "payload"
  /\ IsTableObject /\ field.base = "Vector" /\ ~inVector
  /\ elements' = << >>
  /\ LET s == Skip("sp", text)
     IN  IF Starts("sp", text) /\ Starts("[", s)
           THEN IF Starts("]", Tail(s))
                  THEN text' = Tail(Tail(s)) /\ pc' = "vector" /\ UNCHANGED outcome
                  ELSE text' = Tail(s) /\ pc' = "element" /\ UNCHANGED outcome
           ELSE Fail /\ UNCHANGED text
  /\ UNCHANGED <<given, verb, patches, target, operation>>

\* The value that follows any number of spaces.
ValuesAt(s) ==
  {[payload |-> s[n].payload, rest |-> SubSeq(s, n + 1, Len(s))] :
     n \in {n \in DOMAIN s : /\ s[n].kind = "value"
                            /\ \A i \in 1..(n - 1) : s[i].kind = "sp"}}
ReadTables == {v \in ValuesAt(text) : TableReads(object, v.payload)}
ReadFlexes == {v \in ValuesAt(text) : FlexFits(field, inVector, v.payload)}

ReadElement ==
  /\ pc = "element"
  /\ \/ ReadTables = {} /\ Fail /\ UNCHANGED <<text, elements>>
     \/ \E v \in ReadTables :
          /\ elements' = Append(elements, v.payload)
          /\ IF Starts(",", v.rest)
               THEN text' = Tail(v.rest) /\ UNCHANGED <<pc, outcome>>
             ELSE IF Starts("]", v.rest)
               THEN text' = Tail(v.rest) /\ pc' = "vector" /\ UNCHANGED outcome
             ELSE Fail /\ UNCHANGED text
  /\ UNCHANGED <<given, verb, patches, target, operation>>

EndVector ==
  /\ pc = "vector"
  /\ Complete(PutOperation([kind |-> "list", of |-> object, value |-> elements]))
  /\ UNCHANGED <<given, text, verb, patches, target, elements>>

\* parseFlatbufferPut_ParseTable and parseFlatbufferPut_ParsePrimitive.
ReadPayload ==
  /\ pc = "payload"
  /\ ~(IsTableObject /\ field.base = "Vector" /\ ~inVector)
  /\ LET values == IF IsTableObject THEN ReadTables ELSE ReadFlexes
     IN  \/ values = {} /\ Fail /\ UNCHANGED <<text, operation>>
         \/ \E v \in values : text' = v.rest /\ Complete(PutOperation(v.payload))
  /\ UNCHANGED <<given, verb, patches, target, elements>>

DeleteAnywhere == TRUE                                     \* mutant
\* A struct's members are all always stored.
Deletable == ~inStruct
EndDelete ==
  /\ pc = "delete"
  /\ IF Deletable THEN Complete([op |-> "delete", path |-> path])
                  ELSE Fail /\ UNCHANGED operation
  /\ UNCHANGED <<given, text, verb, patches, target, elements>>

-----------------------------------------------------------------------------
(* Patches.                                                                  *)

PatchOperation(patch) ==
  [op |-> "patch", path |-> patch.path, updates |-> patch.updates]

\* The list of a patch of `patch.target`, from its brace; one of no operation
\* is closed at once.
OpenList(patch, s) ==
  LET body == Skip("sp", Tail(s))
  IN  IF ~Starts("{", s) THEN Fail /\ UNCHANGED <<text, patches, operation>>
      ELSE IF Starts("}", body)
        THEN /\ Complete(PatchOperation(patch))
             /\ text' = Tail(body)
             /\ UNCHANGED patches
        ELSE /\ patches' = Append(patches, patch)
             /\ text' = body
             /\ pc' = "update"
             /\ UNCHANGED <<operation, outcome>>

\* A patch that names no path patches what its own is relative to.
BeginPatch ==
  /\ pc = "patch"
  /\ LET s == Skip("sp", text)
     IN  IF Starts("{", s)
           THEN OpenList([target |-> Base, path |-> << >>, updates |-> << >>], s)
           ELSE /\ text' = s
                /\ pc' = "path"
                /\ UNCHANGED <<patches, operation, outcome>>
  /\ UNCHANGED <<given, verb, target, elements>>

PatchesAny == object # Null                                \* mutant
\* A whole vector names the type of its elements, which no patch steps into.
Patchable == object # Null /\ ~(field.base = "Vector" /\ ~inVector)
EndTarget ==
  /\ pc = "target"
  /\ IF Patchable
       THEN OpenList([target |-> object, path |-> path, updates |-> << >>],
                     Skip("sp", text))
       ELSE Fail /\ UNCHANGED <<text, patches, operation>>
  /\ UNCHANGED <<given, verb, target, elements>>

\* The operation read joins the patch around it, which goes on or closes.
EndUpdate ==
  /\ pc = "return" /\ patches # << >>
  /\ LET patch == [target |-> Innermost.target, path |-> Innermost.path,
                   updates |-> Append(Innermost.updates, operation)]
         s == Skip("sp", text)
         closing == Skip("sp", s)
     IN  IF Starts(";", s)
           THEN /\ text' = Tail(s)
                /\ patches' = Append(Outer, patch)
                /\ operation' = Null
                /\ pc' = "update"
                /\ UNCHANGED outcome
         ELSE IF Starts("}", closing)
           THEN /\ text' = Tail(closing)
                /\ patches' = Outer
                /\ Complete(PatchOperation(patch))
         ELSE Fail /\ UNCHANGED <<text, patches, operation>>
  /\ UNCHANGED <<given, verb, target, elements>>

-----------------------------------------------------------------------------

EndsAnyhow(s) == TRUE                                      \* mutant
\* Text after the operation would name an edit nobody makes.
NothingLeft(s) == \A i \in DOMAIN s : s[i].kind = "sp"
EndRequest ==
  /\ pc = "return" /\ patches = << >>
  /\ pc' = "ended"
  /\ outcome' = IF NothingLeft(text) THEN "parsed" ELSE "malformed"
  /\ UNCHANGED <<given, text, verb, patches, target, elements, operation>>

Next ==
  \/ ReadVerb \/ BeginPath \/ ReadSegment
  \/ BeginVector \/ ReadElement \/ EndVector \/ ReadPayload \/ EndDelete
  \/ BeginPatch \/ EndTarget \/ EndUpdate \/ EndRequest

\* A call runs until it returns.
Spec == Init /\ [][Next]_vars /\ WF_vars(Next)

-----------------------------------------------------------------------------

TypeOK ==
  /\ given \in Seq(Token)
  /\ text \in Seq(Token)
  /\ pc \in {"verb", "update", "path", "segment", "payload", "element", "vector",
             "delete", "patch", "target", "return", "ended"}
  /\ verb \in Verbs
  /\ \A i \in DOMAIN patches :
       /\ patches[i].target \in DOMAIN Objects
       /\ patches[i].path \in Seq(Nat)
  /\ path \in Seq(Nat)
  /\ object \in DOMAIN Objects \cup {Null}
  /\ inVector \in BOOLEAN
  /\ inStruct \in BOOLEAN
  /\ outcome \in {"reading", "parsed", "malformed"}
  /\ outcome = "reading" <=> pc # "ended"

\* The apply's own test of a request's shape passes every request parsed: each
\* patch, at whatever depth, stops at a table or a struct of the schema, and each
\* of its operations is there; and none is deeper than the text is long.
ParsedIsWellFormed ==
  outcome = "parsed" => WellFormed(Root, operation, Len(given))

\* A request that is parsed is all of the text that was given: written out, it
\* is that text again, to the last mark; a second operation, an index after an
\* element, a value after a value are never left out of it.
NothingIsIgnored ==
  outcome = "parsed" =>
    Squeezed(given) = Written(Root, operation, << >>, Len(given))

\* How many steps may be taken at a place before one reads, or the parse ends.
Unread(at) ==
  CASE at = "ended" -> 0
    [] at \in {"path", "vector", "delete"} -> 2
    [] at = "patch" -> 3
    [] OTHER -> 1

\* No turn of a loop leaves the text as it was, and nothing read is read again:
\* of three steps in a row one has read, so that a text is answered in as many
\* steps as its length allows, however its operations nest.
EveryTurnReads ==
  [][\/ Len(text') < Len(text)
     \/ text' = text /\ Unread(pc') < Unread(pc)]_vars

\* Every text is answered, whatever it holds.
Answers == <>(outcome # "reading")
=============================================================================
