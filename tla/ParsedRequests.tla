----------------------------- MODULE ParsedRequests -----------------------------
(***************************************************************************)
(* What the requests a text is parsed to should be: how a request is       *)
(* written, which requests name an edit, and what the apply answers for    *)
(* them.  The parser and the apply test a request in code of their own.    *)
(***************************************************************************)
EXTENDS RequestParse, RequestEdit

CONSTANTS
  Lost,      \* Documents' constant.
  Deepest,   \* How many operations deep those requests go.
  Requests,  \* The requests whose texts are among the texts considered.
  Sources    \* The buffers they may be applied to, each copied faithfully.

-----------------------------------------------------------------------------
(* How a request is written, with one space wherever one may stand.          *)

RequestTokens(def, r) == Written(def, r, <<Space>>, Deepest)
WrittenRequests == {[request |-> r, text |-> RequestTokens(Root, r)] : r \in Requests}

-----------------------------------------------------------------------------
(* Which requests name an edit, whatever the buffer stores.                  *)

Edits == INSTANCE Documents

\* The puts and deletes of a request, each at its path from the root.
RECURSIVE EditsOf(_, _)
EditsOf(prefix, r) ==
  IF r.op = "patch"
    THEN UNION {EditsOf(prefix \o r.path, r.updates[i]) : i \in DOMAIN r.updates}
    ELSE {[r EXCEPT !.path = prefix \o @]}

\* Its path resolves, a put's to what its payload is.
Resolves(edit) ==
  /\ edit.path # << >>
  /\ IF edit.op = "put" THEN Edits!PutResolves(Root, edit.path, edit.payload)
                        ELSE Edits!DeleteResolves(Root, edit.path)
\* The vectors that it grows and the one that it writes fit a flatbuffer together.
Fits(edit) ==
  edit.op = "put" => Edits!Growth(Root, edit.path, edit.payload) <= Largest

\* The elements a path names on its way, each with the vector it is of.
RECURSIVE Elements(_, _)
MemberElements(enum, steps) ==
  IF steps = << >> \/ ~IsTableMember(enum, steps[1]) THEN {}
  ELSE Elements(MemberDef(enum, steps[1]), Tail(steps))
Elements(def, steps) ==
  IF steps = << >> \/ steps[1] \notin Offsets(def) THEN {}
  ELSE LET f == FieldAt(def, steps[1])
           rest == Tail(steps)
       IN  CASE f.base = "Table" -> Elements(f.of, rest)
             [] f.base = "Union" -> MemberElements(f.of, rest)
             [] IsVector(f) /\ rest # << >> ->
                  {[vector |-> f, index |-> rest[1]]}
                    \cup (CASE f.element = "Table" -> Elements(f.of, Tail(rest))
                            [] f.element = "Union" -> MemberElements(f.of, Tail(rest))
                            [] OTHER -> {})
             [] OTHER -> {}
EachGrows(def, steps) ==
  \A e \in Elements(def, steps) : GrownBytes(e.vector, e.index) <= Largest

\* No operation is without a path, an index is one a flatbuffer has, and what is
\* patched is a table or a struct that could be put to.
RECURSIVE Stands(_, _)
Stands(def, r) ==
  /\ \A i \in DOMAIN r.path : r.path[i] < IndexWord
  /\ r.op # "patch" => r.path # << >>
  /\ r.op = "patch" =>
       LET patched == PatchTarget(def, r.path)
       IN  /\ patched # Null /\ EachGrows(def, r.path)
           /\ \A i \in DOMAIN r.updates : Stands(patched, r.updates[i])

NamesAnEdit(r) ==
  /\ Stands(Root, r)
  /\ \A edit \in EditsOf(<< >>, r) : Resolves(edit) /\ Fits(edit)

-----------------------------------------------------------------------------
(* What the parser takes that is no edit.  grammar.md ("The parser refuses   *)
(* each request of the first kind") and FlatbufferRequest.hpp, of Refused,   *)
(* say that it takes neither; the apply alone refuses them.                  *)

\* The schema as the parser reads it: not how wide an offset or a length is.
Narrowed == [def \in DOMAIN Objects |-> {[f EXCEPT !.wide = FALSE] : f \in Objects[def]}]
Narrow == INSTANCE Documents WITH Objects <- Narrowed

\* It names an element of a vector held through 64 bits.
OfWideElement(edit) ==
  /\ \E e \in Elements(Root, edit.path) : IsWide(e.vector)
  /\ IF edit.op = "put"
       THEN /\ Narrow!PutResolves(Root, edit.path, edit.payload)
            /\ EachGrows(Root, edit.path)
       ELSE Narrow!DeleteResolves(Root, edit.path)
\* What the put grows and writes whole is more than a flatbuffer holds, though no
\* vector it grows is by itself, nor a list of structs: all the parser bounds.
StructsFit(payload) ==
  payload.kind = "list" /\ (\E i \in DOMAIN payload.value : payload.value[i].kind = "map")
    => Len(payload.value) * ElementBytes["Struct"] <= Largest
TooLargeInAll(edit) ==
  /\ edit.op = "put" /\ ~Fits(edit)
  /\ EachGrows(Root, edit.path) /\ StructsFit(edit.payload)

-----------------------------------------------------------------------------

\* Applied or not, the edit could be made.
Served(edit, source) ==
  IF edit.op = "put"
    THEN PutApplies(Root, source, edit.payload, edit.path, Largest)
    ELSE ClassifyDelete(Root, source, edit.path) # Refused

ToBeParsed ==
  {r \in Requests :
     /\ Stands(Root, r)
     /\ \A edit \in EditsOf(<< >>, r) :
          \/ Resolves(edit) /\ (Fits(edit) \/ TooLargeInAll(edit))
          \/ OfWideElement(edit)}

\* A request written as grammar.md has it is parsed exactly where it names an
\* edit: its paths resolve, in a patch from what that patches; no path is of a
\* discriminant, a union's member is a table, a delete stays out of structs, a
\* payload is of its field's type, no vectors outgrow a flatbuffer.  But for two
\* kinds of edit, which the documents say are not parsed and which are: of an
\* element of a 64-bit vector (OfWideElement), and a put too large only in all.
ParsedIffItNamesAnEdit ==
  outcome # "reading" =>
    \A w \in {w \in WrittenRequests : w.text = given} :
      outcome = "parsed" <=> w.request \in ToBeParsed

\* The apply serves what the parser passes, in a patch or alone: no put or
\* delete that was parsed is Refused for what the schema or the payload is,
\* except for the two limits that the apply alone knows of.
ParsedIsServed ==
  outcome = "parsed" =>
    \A edit \in EditsOf(<< >>, operation) :
      \/ OfWideElement(edit)
      \/ Resolves(edit) /\ TooLargeInAll(edit)
      \/ \A source \in Sources : Served(edit, source)

-----------------------------------------------------------------------------
(* What the documentation says, and the code does not do.                    *)

\* grammar.md: a vector is written as a list "with an optional trailing comma".
TrailingCommaIsTaken ==
  outcome = "malformed" =>
    ~\E r \in Requests :
       /\ r.op = "put" /\ r.payload.kind = "list" /\ r.payload.value # << >>
       /\ given = Front(RequestTokens(Root, r)) \o <<Mark(","), Mark("]")>>
       /\ NamesAnEdit(r)
=============================================================================
