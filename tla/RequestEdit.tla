------------------------------ MODULE RequestEdit ------------------------------
(***************************************************************************)
(* One put and one delete: what the classify pass answers for it, and the  *)
(* table the builders make of it.                                          *)
(*                                                                         *)
(* A path is a sequence of vtable offsets, vector indices (from 0) and     *)
(* union members.  A payload is a table, [kind |-> "table", of, value], or *)
(* what StructValues writes.  The order of a table's offsets is            *)
(* TwoPassPut's and TwoPassDelete's matter: here each field reads its own. *)
(***************************************************************************)
EXTENDS TableValues, StructValues

LOCAL INSTANCE SequencesExt

Applied == "Applied"
NotStored == "NotStored"
Refused == "Refused"

StoredOrNull(t, f) == IF Stores(t, f) THEN t[f.offset] ELSE Null
StoredOrNone(t, f) == IF Stores(t, f) THEN t[f.offset] ELSE << >>

\* What a put or delete of `member` edits: the union's value, while it is one.
StoredMember(t, f, member) ==
  IF Stores(t, f) /\ Get(t, f.pair, 0) = member THEN t[f.offset] ELSE Null

ElementAt(vector, index) ==
  IF index < Len(vector) THEN vector[index + 1] ELSE Null

\* The discriminants of a vector of unions, and the elements they pair with.
StoredTypes(t, f) == IF t = Null THEN << >> ELSE Get(t, f.pair, << >>)
PairedSize(t, f) == Shorter(Len(StoredOrNone(t, f)), Len(StoredTypes(t, f)))
StoredElement(t, f, index, member) ==
  IF index < PairedSize(t, f) /\ StoredTypes(t, f)[index + 1] = member
    THEN t[f.offset][index + 1] ELSE Null

-----------------------------------------------------------------------------
(* What payloads fit.                                                        *)

TableFits(def, payload) ==
  /\ payload.kind = "table" /\ payload.of = def
  /\ Verifies(def, payload.value) /\ CopiesFaithfully(def, payload.value, Null)

\* tableListFits
TableListFits(def, payload) ==
  /\ payload.kind = "list"
  /\ \A i \in DOMAIN payload.value : TableFits(def, payload.value[i])

\* What a list builds: a string's or table's own bytes count beside its slot.
WholeVectorBytes(f, payload) ==
  LET Bytes(element) ==
        IF f.element \in {"String", "Table"}
          THEN PayloadBytes(element) + ElementBytes[f.element]
          ELSE ElementBytes[f.element]
  IN  FoldSeq(LAMBDA element, sum : sum + Bytes(element), 0, payload.value)

-----------------------------------------------------------------------------
(* The classify pass.                                                        *)

AnyOthersCopy(t, f, index) == TRUE                         \* mutant
OthersCopyFaithfully(t, f, index) ==
  LET vector == t[f.offset]
      types == Get(t, f.pair, Null)
  IN  t # Null =>
        /\ f.element = "Table" => \A i \in DOMAIN vector :
             i = index + 1 \/ CopiesFaithfully(f.of, vector[i], Null)
        /\ f.element = "Union" =>
             /\ types # Null /\ Len(types) = Len(vector)
             /\ \A i \in DOMAIN vector :
                  \/ i = index + 1
                  \/ UnionValueCopiesFaithfully(f.of, types[i], vector[i])

RefusedUnlessFaithful(outcome, faithful) ==
  IF outcome = Applied /\ ~faithful THEN Refused ELSE outcome
StoredIf(stored) == IF stored THEN Applied ELSE NotStored

\* A put creates what it reaches through: it applies or is Refused.
RECURSIVE PutApplies(_, _, _, _, _)

DeeperBudget(f, index, budget) == budget - GrownBytes(f, index)

WholeVectorFits(f, payload) ==
  CASE f.element = "Union" -> FALSE
    [] f.element = "Table" -> TableListFits(f.of, payload)
    [] OTHER -> PayloadFits(f, payload)

PutInVectorApplies(f, t, payload, rest, budget) ==
  IF f.base = "Vector64" \/ (IsWide(f) /\ rest # << >>) THEN FALSE
  ELSE IF rest = << >>
    THEN WholeVectorFits(f, payload) /\ WholeVectorBytes(f, payload) <= budget
    ELSE
  LET index == rest[1]
      deeper == Tail(rest)
      left == DeeperBudget(f, index, budget)
  IN  /\ GrownBytes(f, index) <= budget
      /\ CASE f.element = "Struct" ->
                WriteStructElement(f.of, ZeroStruct(f.of), deeper, payload) # Null
           [] f.element = "Table" ->
                /\ PutApplies(f.of, ElementAt(StoredOrNone(t, f), index),
                              payload, deeper, left)
                /\ OthersCopyFaithfully(t, f, index)
           [] f.element = "Union" ->
                /\ deeper # << >> /\ IsTableMember(f.of, deeper[1])
                /\ PutApplies(MemberDef(f.of, deeper[1]),
                              StoredElement(t, f, index, deeper[1]),
                              payload, Tail(deeper), left)
                /\ OthersCopyFaithfully(t, f, index)
           [] f.element \in {"Scalar", "String"} ->
                deeper = << >> /\ ElementFits(f, payload)

PutFieldApplies(f, t, payload, rest, budget) ==
  CASE f.base = "Struct" ->
         WriteStructPayload(f.of, ZeroStruct(f.of), rest, payload) # Null
    [] f.base = "Table" ->
         PutApplies(f.of, StoredOrNull(t, f), payload, rest, budget)
    [] f.base = "Union" ->
         /\ rest # << >> /\ IsTableMember(f.of, rest[1])
         /\ PutApplies(MemberDef(f.of, rest[1]), StoredMember(t, f, rest[1]),
                       payload, Tail(rest), budget)
    [] IsVector(f) ->
         PutInVectorApplies(f, IF Stores(t, f) THEN t ELSE Null, payload, rest,
                            budget)
    [] f.base \in {"Scalar", "String"} ->
         rest = << >> /\ PayloadFits(f, payload)

PutApplies(def, t, payload, path, budget) ==
  IF path = << >>
    THEN TableFits(def, payload)
    ELSE \E f \in Objects[def] :
           /\ f.offset = path[1] /\ ~IsDiscriminant(f)
           /\ PutFieldApplies(f, t, payload, Tail(path), budget)
           /\ CopiesFaithfully(def, t, f)

ClassifyPut(def, t, payload, path, budget) ==
  IF PutApplies(def, t, payload, path, budget) THEN Applied ELSE Refused

RECURSIVE ClassifyDelete(_, _, _)
DeleteInVectorOutcome(f, t, rest) ==
  IF rest = << >> THEN StoredIf(t # Null)
  ELSE IF IsWide(f) THEN Refused
  ELSE
  LET index == rest[1]
      deeper == Tail(rest)
      element == ElementAt(StoredOrNone(t, f), index)
      held == IF f.element = "Union" THEN index < PairedSize(t, f)
                                     ELSE element # Null
      Faithful(outcome) ==
        RefusedUnlessFaithful(outcome, OthersCopyFaithfully(t, f, index))
  IN  CASE f.element \in {"Struct", "Scalar", "String"} ->
             IF deeper # << >> THEN Refused ELSE StoredIf(held)
        [] f.element = "Table" ->
             Faithful(IF deeper = << >> THEN StoredIf(held)
                      ELSE ClassifyDelete(f.of, element, deeper))
        [] f.element = "Union" ->
             IF deeper = << >> THEN Faithful(StoredIf(held))
             ELSE IF ~IsTableMember(f.of, deeper[1]) THEN Refused
             ELSE LET stored == StoredElement(t, f, index, deeper[1])
                  IN  Faithful(
                        IF Len(deeper) = 1 THEN StoredIf(stored # Null)
                        ELSE ClassifyDelete(MemberDef(f.of, deeper[1]), stored,
                                            Tail(deeper)))

DeleteFieldOutcome(f, t, rest) ==
  CASE IsVector(f) ->
         DeleteInVectorOutcome(f, IF Stores(t, f) THEN t ELSE Null, rest)
    [] ~IsVector(f) /\ rest = << >> -> StoredIf(Stores(t, f))
    [] f.base = "Table" /\ rest # << >> ->
         ClassifyDelete(f.of, StoredOrNull(t, f), rest)
    [] f.base = "Union" /\ rest # << >> ->
         IF ~IsTableMember(f.of, rest[1]) THEN Refused
         ELSE LET stored == StoredMember(t, f, rest[1])
              IN  IF Len(rest) = 1 THEN StoredIf(stored # Null)
                  ELSE ClassifyDelete(MemberDef(f.of, rest[1]), stored,
                                      Tail(rest))
    [] f.base \in {"Struct", "Scalar", "String"} /\ rest # << >> -> Refused

ClassifyDelete(def, t, path) ==
  IF path = << >> \/ path[1] \notin Offsets(def) THEN Refused
  ELSE LET f == FieldAt(def, path[1])
       IN  IF IsDiscriminant(f) THEN Refused
           ELSE RefusedUnlessFaithful(DeleteFieldOutcome(f, t, Tail(path)),
                                      CopiesFaithfully(def, t, f))

-----------------------------------------------------------------------------
(* The put builder.  Null where it builds nothing.                           *)

RECURSIVE PutTable(_, _, _, _)

\* The first member that holds a table, which an empty table may pad.
FirstTableMember(enum) ==
  LET members == {m \in DOMAIN Enums[enum] : IsTableMember(enum, m)}
  IN  IF members = {} THEN 0 ELSE CHOOSE m \in members : \A n \in members : m <= n

OverlayOrAppend(vector, index, padding, element) ==        \* mutant
  IF index < Len(vector) THEN [vector EXCEPT ![index + 1] = element]
                         ELSE Append(vector, element)
\* `vector` with `element` at `index`, grown there by `padding` if it is short.
Overlay(vector, index, padding, element) ==
  [i \in 1..Longer(Len(vector), index + 1) |->
     IF i = index + 1 THEN element
       ELSE IF i <= Len(vector) THEN vector[i] ELSE padding]

CopyPayload(f, payload, path) ==
  CASE f.base = "String" -> payload.value
    [] f.base = "Table" -> CopyTable(f.of, payload.value)
    [] f.base = "Union" ->
         IF IsTableMember(f.of, path[2])
           THEN CopyTable(MemberDef(f.of, path[2]), payload.value) ELSE Null
    [] f.base = "Vector" ->
         [i \in DOMAIN payload.value |->
            CASE f.element = "Table" -> CopyTable(f.of, payload.value[i].value)
              [] f.element = "Struct" -> WholeStruct(f.of, payload.value[i])
              [] OTHER -> payload.value[i].value]

\* The vector `f` with the payload written at `path`, its index first.
RebuildUnionVector(t, f, payload, path) ==
  LET types == StoredTypes(t, f)
      kept == [i \in 1..PairedSize(t, f) |->
                 CopyUnionValue(f.of, types[i], t[f.offset][i])]
  IN  IF Len(path) < 2 \/ ~IsTableMember(f.of, path[2]) THEN Null
      ELSE Overlay(kept, path[1], EmptyTable,
             PutTable(MemberDef(f.of, path[2]),
                      StoredElement(t, f, path[1], path[2]),
                      payload, SubSeq(path, 3, Len(path))))

RebuildVector(t, f, payload, path) ==
  LET vector == StoredOrNone(t, f)
      stored == ElementAt(vector, path[1])
  IN  CASE f.element = "Scalar" -> Overlay(vector, path[1], 0, payload.value)
        [] f.element = "String" -> Overlay(vector, path[1], << >>, payload.value)
        [] f.element = "Struct" ->
             LET image == IF stored = Null THEN ZeroStruct(f.of) ELSE stored
                 written == WriteStructElement(f.of, image, Tail(path), payload)
             IN  IF written = Null THEN Null
                 ELSE Overlay(vector, path[1], ZeroStruct(f.of), written)
        [] f.element = "Table" ->
             Overlay([i \in DOMAIN vector |-> CopyTable(f.of, vector[i])],
               path[1], EmptyTable,
               PutTable(f.of, stored, payload, Tail(path)))
        [] f.element = "Union" -> RebuildUnionVector(t, f, payload, path)

RebuildUnionOverAny(t, f, payload, path) ==                \* mutant
  IF Len(path) < 1 \/ ~IsTableMember(f.of, path[1]) THEN Null
  ELSE PutTable(MemberDef(f.of, path[1]), StoredOrNull(t, f), payload, Tail(path))
\* The old value of another member must not show through the new one.
RebuildUnion(t, f, payload, path) ==
  IF Len(path) < 1 \/ ~IsTableMember(f.of, path[1]) THEN Null
  ELSE PutTable(MemberDef(f.of, path[1]), StoredMember(t, f, path[1]), payload,
                Tail(path))

GenerateFieldOffset(t, f, payload, path) ==
  LET inPath == path[1] = f.offset
      terminal == inPath /\ Len(path) = (IF f.base = "Union" THEN 2 ELSE 1)
  IN  CASE ~inPath -> CopyField(t, f)
        [] terminal -> CopyPayload(f, payload, path)
        [] inPath /\ ~terminal /\ f.base = "Table" ->
             PutTable(f.of, StoredOrNull(t, f), payload, Tail(path))
        [] inPath /\ ~terminal /\ f.base = "Union" ->
             RebuildUnion(t, f, payload, Tail(path))
        [] inPath /\ ~terminal /\ f.base = "Vector" ->
             RebuildVector(t, f, payload, Tail(path))

\* The offset of `f`: what the put built, or the stored field where it could not.
FieldOffset(t, f, payload, path) ==
  LET built == GenerateFieldOffset(t, f, payload, path)
  IN  IF built = Null THEN CopyField(t, f) ELSE built

KeptTypesOffset(t, types, f, payload, path) == CopyField(t, types)   \* mutant
\* The discriminants that go with the vector of unions `f`.
TypesOffset(t, types, f, payload, path) ==
  IF path[1] = f.offset /\ GenerateFieldOffset(t, f, payload, path) # Null
    THEN Overlay(StoredOrNone(t, types), path[2], FirstTableMember(f.of), path[3])
    ELSE IF FieldOffset(t, f, payload, path) # Null THEN CopyField(t, types)
    ELSE Null

\* The discriminant that goes with the union `f`.
UnionType(t, f, path) ==
  CASE path[1] = f.offset /\ Len(path) >= 2 /\ IsTableMember(f.of, path[2]) ->
         path[2] % 256
    [] OTHER -> IF Stores(t, f) THEN Get(t, f.pair, 0) ELSE Null

\* buildStructImage, and the stored struct where the payload does not fit.
BuiltStruct(t, f, payload, path) ==
  LET image == IF Stores(t, f) THEN t[f.offset] ELSE ZeroStruct(f.of)
      written == WriteStructPayload(f.of, image, Tail(path), payload)
  IN  IF path[1] = f.offset /\ written # Null THEN written ELSE StoredOrNull(t, f)

BuiltField(def, t, f, payload, path) ==
  CASE f.base = "UType" -> UnionType(t, FieldAt(def, f.pair), path)
    [] f.base = "Vector" /\ f.element = "UType" ->
         TypesOffset(t, f, FieldAt(def, f.pair), payload, path)
    [] f.base = "Scalar" ->
         IF path[1] = f.offset THEN payload.value ELSE StoredOrNull(t, f)
    [] f.base = "Struct" -> BuiltStruct(t, f, payload, path)
    [] OTHER -> FieldOffset(t, f, payload, path)

\* applyRequestPut
PutTable(def, t, payload, path) ==
  IF path = << >> THEN CopyTable(def, payload.value)
  ELSE Present([o \in Offsets(def) |->
                  BuiltField(def, t, FieldAt(def, o), payload, path)])

-----------------------------------------------------------------------------
(* The delete builder.                                                       *)

RECURSIVE DeleteTable(_, _, _)

DeletesWholeUnion(t, f, path) ==
  Len(path) = 1 \/ (Len(path) = 2 /\ Get(t, f.pair, 0) = path[2])

DeletesWholeElement(t, f, index, deeper) ==
  /\ index < PairedSize(t, f) /\ Len(deeper) <= 1
  /\ deeper # << >> => StoredTypes(t, f)[index + 1] = deeper[1]

Without(vector, index) ==
  IF index < Len(vector) THEN RemoveAt(vector, index + 1) ELSE vector

DeleteInTableVector(t, f, index, deeper) ==
  LET vector == t[f.offset]
      kept == [i \in DOMAIN vector |->
                 IF i = index + 1 /\ deeper # << >>
                   THEN DeleteTable(f.of, vector[i], deeper)
                   ELSE CopyTable(f.of, vector[i])]
  IN  IF deeper = << >> THEN Without(kept, index) ELSE kept

DeleteInUnionVector(t, f, index, deeper) ==
  LET types == StoredTypes(t, f)
      Edits(i) == /\ i = index + 1 /\ Len(deeper) > 1
                  /\ IsTableMember(f.of, types[i]) /\ types[i] = deeper[1]
      kept == [i \in 1..PairedSize(t, f) |->
                 IF Edits(i)
                   THEN DeleteTable(MemberDef(f.of, types[i]), t[f.offset][i],
                                    Tail(deeper))
                   ELSE CopyUnionValue(f.of, types[i], t[f.offset][i])]
  IN  IF DeletesWholeElement(t, f, index, deeper) THEN Without(kept, index)
                                                  ELSE kept

DeleteInVector(t, f, index, deeper) ==
  CASE f.element \in {"Scalar", "String"} -> Without(t[f.offset], index)
    [] f.element = "Struct" ->
         IF deeper = << >> THEN Without(t[f.offset], index) ELSE CopyField(t, f)
    [] f.element = "Table" -> DeleteInTableVector(t, f, index, deeper)
    [] f.element = "Union" -> DeleteInUnionVector(t, f, index, deeper)

\* What a delete inside the union `f` leaves of it.
DeleteInUnion(t, f, path) ==
  IF ~IsTableMember(f.of, path[2]) \/ Get(t, f.pair, 0) # path[2]
    THEN CopyField(t, f)
    ELSE DeleteTable(MemberDef(f.of, path[2]), t[f.offset],
                     SubSeq(path, 3, Len(path)))

\* Whether a delete removes the field `f` whole.
DeletedWhole(t, f, path) ==
  /\ path[1] = f.offset
  /\ CASE f.base \in {"Table", "Struct", "Vector", "Vector64"} -> Len(path) = 1
       [] f.base = "Union" -> DeletesWholeUnion(t, f, path)
       [] f.base \in {"Scalar", "String"} -> TRUE

Kept(t, f, path) == Stores(t, f) /\ ~DeletedWhole(t, f, path)

LeftField(t, f, path) ==
  CASE ~Kept(t, f, path) -> Null
    [] Kept(t, f, path) /\ path[1] # f.offset -> CopyField(t, f)
    [] Kept(t, f, path) /\ path[1] = f.offset /\ f.base = "Struct" -> t[f.offset]
    [] Kept(t, f, path) /\ path[1] = f.offset /\ f.base = "Table" ->
         DeleteTable(f.of, t[f.offset], Tail(path))
    [] Kept(t, f, path) /\ path[1] = f.offset /\ f.base = "Union" ->
         DeleteInUnion(t, f, path)
    [] Kept(t, f, path) /\ path[1] = f.offset /\ IsVector(f) ->
         DeleteInVector(t, f, path[2], SubSeq(path, 3, Len(path)))

LeftTypes(t, types, f, path) ==
  IF ~Kept(t, f, path) THEN Null
  ELSE IF path[1] = f.offset
            /\ DeletesWholeElement(t, f, path[2], SubSeq(path, 3, Len(path)))
    THEN Without(t[types.offset], path[2])
    ELSE CopyField(t, types)

\* applyRequestDelete
DeleteTable(def, t, path) ==
  Present([o \in Offsets(def) |->
    LET f == FieldAt(def, o)
    IN  CASE f.base = "UType" ->
               IF Kept(t, FieldAt(def, f.pair), path) THEN Get(t, o, 0) ELSE Null
          [] f.base = "Vector" /\ f.element = "UType" ->
               LeftTypes(t, f, FieldAt(def, f.pair), path)
          [] OTHER -> LeftField(t, f, path)])
=============================================================================
