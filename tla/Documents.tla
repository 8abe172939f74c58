------------------------------- MODULE Documents -------------------------------
(***************************************************************************)
(* What a buffer means, and what an edit of it should come to.             *)
(*                                                                         *)
(* A document is a table without the encoding: a union is one value, the   *)
(* member together with what it holds, and so is each element of a vector  *)
(* of unions; no discriminant stands alone.  What a copy cannot keep is    *)
(* Lost: a document that would still hold it after an edit is not built.   *)
(***************************************************************************)
EXTENDS TableValues

LOCAL INSTANCE SequencesExt

CONSTANT Lost  \* What no copy keeps as it was.

IsTable(type) == type # Null /\ type.base = "Table"

-----------------------------------------------------------------------------
(* The document a stored table is.                                           *)

RECURSIVE Document(_, _)
UnionDocument(enum, member, value) ==
  LET type == MemberType(enum, member)
  IN  IF type = Null THEN Lost
      ELSE [member |-> member,
            value |-> IF IsTable(type) THEN Document(type.of, value) ELSE value]

FieldDocument(t, f) ==
  LET value == t[f.offset]
  IN  CASE f.base = "Table" -> Document(f.of, value)
        [] f.base = "Union" -> UnionDocument(f.of, Get(t, f.pair, 0), value)
        [] IsVector(f) /\ f.element = "Table" ->
             [i \in DOMAIN value |-> Document(f.of, value[i])]
        [] IsVector(f) /\ f.element = "Union" ->
             IF Len(Get(t, f.pair, << >>)) # Len(value) THEN Lost
             ELSE [i \in DOMAIN value |->
                     UnionDocument(f.of, t[f.pair][i], value[i])]
        [] f.base \in {"Scalar", "String", "Struct"} -> value
        [] IsVector(f) /\ f.element \in {"Scalar", "String", "Struct"} -> value

\* A discriminant is part of its union; one that says something without it is
\* lost, as a field the schema does not declare is.
Document(def, t) ==
  LET lost == {o \in DOMAIN t :
                 \/ o \notin Offsets(def)
                 \/ /\ IsDiscriminant(FieldAt(def, o))
                    /\ ~DiscriminantCopiesFaithfully(t, FieldAt(def, o))}
      values == {o \in DOMAIN t \cap Offsets(def) :
                   ~IsDiscriminant(FieldAt(def, o))}
  IN  [o \in lost \cup values |->
         IF o \in lost THEN Lost ELSE FieldDocument(t, FieldAt(def, o))]

RECURSIVE HoldsLost(_, _)
UnionHoldsLost(enum, u) ==
  u = Lost \/ (IsTable(Enums[enum][u.member])
                /\ HoldsLost(Enums[enum][u.member].of, u.value))
FieldHoldsLost(f, value) ==
  \/ value = Lost
  \/ f.base = "Table" /\ HoldsLost(f.of, value)
  \/ f.base = "Union" /\ UnionHoldsLost(f.of, value)
  \/ /\ IsVector(f)
     /\ \/ /\ f.element = "Table"
           /\ \E i \in DOMAIN value : HoldsLost(f.of, value[i])
        \/ /\ f.element = "Union"
           /\ \E i \in DOMAIN value : UnionHoldsLost(f.of, value[i])
HoldsLost(def, doc) ==
  \E o \in DOMAIN doc : doc[o] = Lost \/ FieldHoldsLost(FieldAt(def, o), doc[o])

-----------------------------------------------------------------------------
(* The schema's say: which requests name an edit at all.                     *)

Field(def, path) ==
  IF path = << >> \/ path[1] \notin Offsets(def) THEN Null
  ELSE IF IsDiscriminant(FieldAt(def, path[1])) THEN Null
  ELSE FieldAt(def, path[1])

\* A value of a struct's member: of a struct, of some members it declares; of
\* an array, of its first elements.  `whole` is of every one, each once.
RECURSIVE MemberTakes(_, _, _)
MemberTakes(f, whole, payload) ==
  LET entries == payload.value
      keys == {entries[i].key : i \in DOMAIN entries}
  IN  CASE f.base = "Scalar" -> payload.kind = "scalar"
        [] f.base = "Array" ->
             /\ f.element = "Scalar" /\ payload.kind = "list"
             /\ Len(entries) \in (IF whole THEN f.length ELSE 1)..f.length
             /\ \A i \in DOMAIN entries : entries[i].kind = "scalar"
        [] f.base = "Struct" ->
             /\ payload.kind = "map"
             /\ keys # {} /\ keys \subseteq Offsets(f.of)
             /\ \A i \in DOMAIN entries :
                  MemberTakes(FieldAt(f.of, entries[i].key), whole,
                              entries[i].value)
             /\ whole => /\ keys = Offsets(f.of)
                         /\ Len(entries) = Cardinality(keys)

\* What a path names of a struct: a member of it, or of one nested, or an
\* element of an array of scalars.
RECURSIVE MemberAt(_, _)
MemberAt(f, path) ==
  CASE path = << >> -> f
    [] path # << >> /\ f.base = "Struct" ->
         IF path[1] \in Offsets(f.of)
           THEN MemberAt(FieldAt(f.of, path[1]), Tail(path)) ELSE Null
    [] path # << >> /\ f.base = "Array" ->
         IF f.element = "Scalar" /\ Len(path) = 1 /\ path[1] < f.length
           THEN [f EXCEPT !.base = "Scalar"] ELSE Null
    [] path # << >> /\ f.base = "Scalar" -> Null

StructField(of) == [base |-> "Struct", of |-> of, element |-> "", length |-> 0]

ValueFits(kind, of, payload) ==
  CASE kind = "Scalar" -> payload.kind = "scalar"
    [] kind = "String" -> payload.kind = "string"
    [] kind = "Struct" -> MemberTakes(StructField(of), TRUE, payload)
    [] kind = "Table" ->
         /\ payload.kind = "table" /\ payload.of = of
         /\ Verifies(of, payload.value)
         /\ ~HoldsLost(of, Document(of, payload.value))
    [] kind = "Union" -> FALSE

\* A member of a struct, or some of them; of a vector's element, even none.
StructPutFits(of, rest, payload, element) ==
  \/ element /\ rest = << >> /\ payload.kind = "map" /\ payload.value = << >>
  \/ LET member == MemberAt(StructField(of), rest)
     IN  member # Null /\ MemberTakes(member, FALSE, payload)

RECURSIVE PutResolves(_, _, _)
UnionPutResolves(enum, rest, payload) ==
  /\ rest # << >> /\ IsTable(MemberType(enum, rest[1]))
  /\ PutResolves(MemberType(enum, rest[1]).of, Tail(rest), payload)

\* A vector whole, or what is in one of its elements.
VectorPutResolves(f, rest, payload) ==
  IF rest = << >>
    THEN /\ f.element # "Union" /\ payload.kind = "list"
         /\ \A i \in DOMAIN payload.value :
              ValueFits(f.element, f.of, payload.value[i])
    ELSE /\ ~IsWide(f)
         /\ LET deeper == Tail(rest)
            IN  CASE f.element = "Struct" ->
                       StructPutFits(f.of, deeper, payload, TRUE)
                  [] f.element = "Table" -> PutResolves(f.of, deeper, payload)
                  [] f.element = "Union" ->
                       UnionPutResolves(f.of, deeper, payload)
                  [] f.element \in {"Scalar", "String"} ->
                       deeper = << >> /\ ValueFits(f.element, f.of, payload)

PutResolves(def, path, payload) ==
  LET f == Field(def, path)
  IN  IF path = << >> THEN ValueFits("Table", def, payload)
      ELSE /\ f # Null
           /\ LET rest == Tail(path)
              IN  CASE f.base = "Struct" ->
                         StructPutFits(f.of, rest, payload, FALSE)
                    [] f.base = "Table" -> PutResolves(f.of, rest, payload)
                    [] f.base = "Union" -> UnionPutResolves(f.of, rest, payload)
                    [] f.base = "Vector64" -> FALSE
                    [] f.base = "Vector" -> VectorPutResolves(f, rest, payload)
                    [] f.base \in {"Scalar", "String"} ->
                         rest = << >> /\ ValueFits(f.base, f.of, payload)

RECURSIVE DeleteResolves(_, _)
UnionDeleteResolves(enum, rest) ==
  /\ IsTable(MemberType(enum, rest[1]))
  /\ Len(rest) > 1 => DeleteResolves(MemberType(enum, rest[1]).of, Tail(rest))
DeleteResolves(def, path) ==
  LET f == Field(def, path)
      rest == Tail(path)
      deeper == Tail(rest)
  IN  /\ f # Null
      /\ rest # << >> =>
           \/ f.base = "Table" /\ DeleteResolves(f.of, rest)
           \/ f.base = "Union" /\ UnionDeleteResolves(f.of, rest)
           \/ /\ IsVector(f) /\ ~IsWide(f)
              /\ deeper # << >> =>
                   \/ f.element = "Table" /\ DeleteResolves(f.of, deeper)
                   \/ f.element = "Union" /\ UnionDeleteResolves(f.of, deeper)

\* The bytes of every vector a put at `path` grows, and of one it writes whole.
RECURSIVE Growth(_, _, _)
Growth(def, path, payload) ==
  LET f == Field(def, path)
      rest == Tail(path)
      listBytes == FoldSeq(LAMBDA e, sum : sum + ElementBytes[f.element]
                             + (IF e.kind \in {"string", "table"}
                                  THEN PayloadBytes(e) ELSE 0),
                           0, payload.value)
  IN  CASE path = << >> -> 0
        [] path # << >> /\ f.base = "Table" -> Growth(f.of, rest, payload)
        [] path # << >> /\ f.base = "Union" ->
             Growth(MemberType(f.of, rest[1]).of, Tail(rest), payload)
        [] path # << >> /\ IsVector(f) ->
             IF rest = << >> THEN listBytes
             ELSE (rest[1] + 1) * ElementBytes[f.element]
                    + (CASE f.element = "Table" ->
                              Growth(f.of, Tail(rest), payload)
                         [] f.element = "Union" ->
                              Growth(MemberType(f.of, rest[2]).of,
                                     SubSeq(rest, 3, Len(rest)), payload)
                         [] OTHER -> 0)
        [] path # << >> /\ f.base \in {"Scalar", "String", "Struct"} -> 0

-----------------------------------------------------------------------------
(* The edits.                                                                *)

With(doc, f, value) ==
  [o \in (DOMAIN doc \ {f.pair}) \cup {f.offset} |->
     IF o = f.offset THEN value ELSE doc[o]]

\* The values a payload gives to what `leaf` names of it, the last one kept.
RECURSIVE Given(_, _)
Given(payload, leaf) ==
  CASE payload.kind = "scalar" /\ leaf = << >> -> <<payload.value>>
    [] payload.kind = "list" /\ leaf # << >> ->
         IF leaf[1] < Len(payload.value)
           THEN Given(payload.value[leaf[1] + 1], Tail(leaf)) ELSE << >>
    [] payload.kind = "map" /\ leaf # << >> ->
         FlattenSeq([i \in DOMAIN payload.value |->
           IF payload.value[i].key = leaf[1]
             THEN Given(payload.value[i].value, Tail(leaf)) ELSE << >>])

\* The image of a struct, leaf by leaf: what the payload at `path` gives it, or
\* what it was.  `leaf` is where `old` is in it.
RECURSIVE Overlaid(_, _, _, _, _)
Overlaid(f, leaf, old, path, payload) ==
  LET given == IF IsPrefix(path, leaf)
                 THEN Given(payload, SubSeq(leaf, Len(path) + 1, Len(leaf)))
                 ELSE << >>
  IN  CASE f.base = "Scalar" -> IF given = << >> THEN old ELSE Last(given)
        [] f.base = "Struct" ->
             [m \in DOMAIN old |->
                Overlaid(FieldAt(f.of, m), Append(leaf, m), old[m], path, payload)]
        [] f.base = "Array" ->
             [i \in DOMAIN old |->
                Overlaid([f EXCEPT !.base = f.element], Append(leaf, i - 1),
                         old[i], path, payload)]
NewStruct(of, old, path, payload) ==
  Overlaid(StructField(of), << >>, old, path, payload)

\* The image of which nothing is given: every leaf is zero.
RECURSIVE Zeroes(_)
Zeroes(f) ==
  CASE f.base = "Scalar" -> 0
    [] f.base = "Struct" ->
         [m \in Offsets(f.of) |-> Zeroes(FieldAt(f.of, m))]
    [] f.base = "Array" ->
         [i \in 1..f.length |-> Zeroes([f EXCEPT !.base = f.element])]

\* What pads a vector grown past its end.
Padding(f) ==
  CASE f.element = "Scalar" -> 0
    [] f.element = "String" -> << >>
    [] f.element = "Struct" -> Zeroes(StructField(f.of))
    [] f.element = "Table" -> EmptyTable
    [] f.element = "Union" ->
         LET tables == {m \in DOMAIN Enums[f.of] : IsTable(Enums[f.of][m])}
         IN  [member |-> CHOOSE m \in tables : \A n \in tables : m <= n,
              value |-> EmptyTable]

RECURSIVE PutDocument(_, _, _, _)
PutUnion(enum, old, path, payload) ==
  LET kept == IF old # Lost THEN old ELSE [member |-> -1, value |-> EmptyTable]
  IN  [member |-> path[1],
       value |-> PutDocument(MemberType(enum, path[1]).of,
                   IF kept.member = path[1] THEN kept.value ELSE EmptyTable,
                   Tail(path), payload)]

PutElement(f, old, path, payload) ==
  CASE f.element \in {"Scalar", "String"} -> payload.value
    [] f.element = "Struct" -> NewStruct(f.of, old, path, payload)
    [] f.element = "Table" -> PutDocument(f.of, old, path, payload)
    [] f.element = "Union" -> PutUnion(f.of, old, path, payload)

PutVector(f, old, path, payload) ==
  LET padded == old \o [i \in 1..(path[1] + 1 - Len(old)) |-> Padding(f)]
  IN  IF path = << >>
        THEN [i \in DOMAIN payload.value |->
                CASE f.element = "Table" ->
                       Document(f.of, payload.value[i].value)
                  [] f.element = "Struct" ->
                       NewStruct(f.of, Padding(f), << >>, payload.value[i])
                  [] OTHER -> payload.value[i].value]
        ELSE [padded EXCEPT ![path[1] + 1] =
                PutElement(f, @, Tail(path), payload)]

PutDocument(def, doc, path, payload) ==
  LET f == Field(def, path)
      rest == Tail(path)
      Old(default) == Get(doc, path[1], default)
  IN  IF path = << >> THEN Document(def, payload.value)
      ELSE With(doc, f,
        CASE f.base \in {"Scalar", "String"} -> payload.value
          [] f.base = "Struct" ->
               NewStruct(f.of, Old(Zeroes(StructField(f.of))), rest, payload)
          [] f.base = "Table" ->
               PutDocument(f.of, Old(EmptyTable), rest, payload)
          [] f.base = "Union" -> PutUnion(f.of, Old(Lost), rest, payload)
          [] f.base = "Vector" -> PutVector(f, Old(<< >>), rest, payload))

\* Whether the document stores what a path names.
RECURSIVE Holds(_, _, _)
UnionHolds(enum, u, path) ==
  /\ u # Lost /\ u.member = path[1]
  /\ Len(path) > 1 => Holds(MemberType(enum, path[1]).of, u.value, Tail(path))
Holds(def, doc, path) ==
  LET f == Field(def, path)
      rest == Tail(path)
      deeper == Tail(rest)
  IN  /\ f.offset \in DOMAIN doc
      /\ rest # << >> =>
           \/ f.base = "Table" /\ Holds(f.of, doc[f.offset], rest)
           \/ f.base = "Union" /\ UnionHolds(f.of, doc[f.offset], rest)
           \/ /\ IsVector(f) /\ rest[1] < Len(doc[f.offset])
              /\ deeper # << >> =>
                   LET element == doc[f.offset][rest[1] + 1]
                   IN  \/ f.element = "Table" /\ Holds(f.of, element, deeper)
                       \/ f.element = "Union" /\ UnionHolds(f.of, element, deeper)

\* The document without what the path names, which it holds.
RECURSIVE DeleteDocument(_, _, _)
DeleteInUnionDocument(enum, u, path) ==
  [u EXCEPT !.value =
     DeleteDocument(MemberType(enum, path[1]).of, @, Tail(path))]
DeleteDocument(def, doc, path) ==
  LET f == Field(def, path)
      rest == Tail(path)
      whole == rest = << >> \/ (f.base = "Union" /\ Len(rest) = 1)
      old == doc[f.offset]
      wholeElement ==
        Len(rest) = 1 \/ (f.element = "Union" /\ Len(rest) = 2)
  IN  IF whole THEN [o \in DOMAIN doc \ {f.offset} |-> doc[o]]
      ELSE With(doc, f,
        CASE f.base = "Table" -> DeleteDocument(f.of, old, rest)
          [] f.base = "Union" -> DeleteInUnionDocument(f.of, old, rest)
          [] IsVector(f) ->
               IF wholeElement THEN RemoveAt(old, rest[1] + 1)
               ELSE [old EXCEPT ![rest[1] + 1] =
                       IF f.element = "Table"
                         THEN DeleteDocument(f.of, @, Tail(rest))
                         ELSE DeleteInUnionDocument(f.of, @, Tail(rest))])
=============================================================================
