----------------------------- MODULE StructValues -----------------------------
(***************************************************************************)
(* Payloads written into structs (PayloadValue.cpp).                       *)
(*                                                                         *)
(* A struct's image is a function of its members' offsets: a number, the   *)
(* image of a nested struct, an array as a sequence.  A payload is [kind,  *)
(* of, value]: a scalar, a string, a list of payloads, or a map, which is  *)
(* the sequence of its entries [key, value] and may name a key twice.      *)
(***************************************************************************)
EXTENDS Schemas

LOCAL INSTANCE SequencesExt

RECURSIVE ZeroStruct(_)
ZeroMember(f) ==
  CASE f.base = "Scalar" -> 0
    [] f.base = "Struct" -> ZeroStruct(f.of)
    [] f.base = "Array" ->
         [i \in 1..f.length |->
            IF f.element = "Scalar" THEN 0 ELSE ZeroStruct(f.of)]
ZeroStruct(def) == [m \in Offsets(def) |-> ZeroMember(FieldAt(def, m))]

ScalarFits(payload) == payload.kind = "scalar"
ScalarListFits(payload, longest) ==
  /\ payload.kind = "list"
  /\ Len(payload.value) \in 1..longest
  /\ \A i \in DOMAIN payload.value : ScalarFits(payload.value[i])
Numbers(payload) == [i \in DOMAIN payload.value |-> payload.value[i].value]

\* writeStructPayload: the image with the payload written at `path`, relative
\* to it; Null where it does not fit.
RECURSIVE WriteStructPayload(_, _, _, _)

\* A shorter list leaves the elements it does not reach.
WriteArrayPayload(f, array, path, payload) ==
  IF f.element # "Scalar" THEN Null
  ELSE IF path = << >>
    THEN IF ScalarListFits(payload, f.length)
           THEN Numbers(payload)
                  \o SubSeq(array, Len(payload.value) + 1, f.length)
           ELSE Null
  ELSE IF path[1] < f.length /\ Len(path) = 1 /\ ScalarFits(payload)
    THEN [array EXCEPT ![path[1] + 1] = payload.value]
  ELSE Null

WriteMemberPayload(f, member, path, payload) ==
  CASE f.base = "Struct" -> WriteStructPayload(f.of, member, path, payload)
    [] f.base = "Array" -> WriteArrayPayload(f, member, path, payload)
    [] f.base = "Scalar" ->
         IF path = << >> /\ ScalarFits(payload) THEN payload.value ELSE Null

\* writeStructMap: an entry at a time, the last of two that name one member
\* written over the other.
WriteStructMap(def, image, payload) ==
  IF payload.kind # "map" \/ payload.value = << >> THEN Null
  ELSE FoldLeft(
         LAMBDA written, entry :
           IF written = Null \/ entry.key \notin Offsets(def) THEN Null
           ELSE WriteStructPayload(def, written, <<entry.key>>, entry.value),
         image, payload.value)

WriteStructPayload(def, image, path, payload) ==
  IF path = << >> THEN WriteStructMap(def, image, payload)
  ELSE IF path[1] \notin Offsets(def) THEN Null
  ELSE LET written == WriteMemberPayload(FieldAt(def, path[1]), image[path[1]],
                                         Tail(path), payload)
       IN  IF written = Null THEN Null ELSE [image EXCEPT ![path[1]] = written]

\* writeStructElementPayload: a map of no member names the element alone.
WriteStructElement(def, image, path, payload) ==
  IF path = << >> /\ payload.kind = "map" /\ payload.value = << >> THEN image
  ELSE WriteStructPayload(def, image, path, payload)

\* writeWholeStruct: a map of every member, each once and each whole.
RECURSIVE WholeStruct(_, _)
WholeMember(f, payload) ==
  CASE f.base = "Struct" -> WholeStruct(f.of, payload)
    [] f.base = "Array" ->
         IF f.element = "Scalar" /\ ScalarListFits(payload, f.length)
              /\ Len(payload.value) = f.length
           THEN Numbers(payload) ELSE Null
    [] f.base = "Scalar" -> IF ScalarFits(payload) THEN payload.value ELSE Null

WholeStruct(def, payload) ==
  LET entries == payload.value
      keys == {entries[i].key : i \in DOMAIN entries}
      Member(m) ==
        WholeMember(FieldAt(def, m),
          (CHOOSE e \in {entries[i] : i \in DOMAIN entries} : e.key = m).value)
  IN  IF payload.kind = "map" /\ keys = Offsets(def)
           /\ \A i, j \in DOMAIN entries :
                entries[i].key = entries[j].key => i = j
           /\ \A m \in keys : Member(m) # Null
        THEN [m \in Offsets(def) |-> Member(m)]
        ELSE Null

\* How many there may be is bounded where the bytes a put may grow are.
StructListFits(def, payload) ==
  /\ payload.kind = "list"
  /\ \A i \in DOMAIN payload.value : WholeStruct(def, payload.value[i]) # Null

\* payloadFits, of a value of a field's own type, and of its elements'.
BaseFits(base, of, payload) ==
  CASE base = "Scalar" -> ScalarFits(payload)
    [] base = "String" -> payload.kind = "string"
    [] base = "Struct" ->
         WriteStructPayload(of, ZeroStruct(of), << >>, payload) # Null
    [] OTHER -> FALSE
ElementFits(f, payload) ==
  IF f.element = "Struct"
    THEN WriteStructElement(f.of, ZeroStruct(f.of), << >>, payload) # Null
    ELSE BaseFits(f.element, f.of, payload)

FlexVectorFits(f, payload) ==
  IF f.element = "Struct" THEN StructListFits(f.of, payload)
  ELSE /\ f.element \in {"Scalar", "String"} /\ payload.kind = "list"
       /\ \A i \in DOMAIN payload.value :
            BaseFits(f.element, f.of, payload.value[i])

PayloadFits(f, payload) ==
  CASE f.base = "Vector" -> FlexVectorFits(f, payload)
    [] f.base = "Array" ->
         f.element = "Scalar" /\ ScalarListFits(payload, f.length)
    [] OTHER -> BaseFits(f.base, f.of, payload)
=============================================================================
