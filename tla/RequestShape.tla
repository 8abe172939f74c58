------------------------------ MODULE RequestShape ------------------------------
(***************************************************************************)
(* What the apply asks of a request before it classifies any operation     *)
(* (FlatbufferRequestApply.cpp, "Request shape"): the shape the parser     *)
(* writes, whoever built the request.  An operation is the record of the   *)
(* members written in it; one that is not there has none.                  *)
(***************************************************************************)
EXTENDS Schemas

\* Where a path of a patch has come to, by what its next step is to name.
AtObject(def) == [awaits |-> "field", of |-> def]
AtUnion(enum) == [awaits |-> "member", of |-> enum]
AtVector(f) == [awaits |-> "element", of |-> f]
Nowhere == [awaits |-> "nothing", of |-> Null]

IntoField(def, step) ==
  LET f == FieldAt(def, step)
  IN  IF step \notin Offsets(def) \/ IsDiscriminant(f) THEN Nowhere
      ELSE CASE f.base \in {"Table", "Struct"} -> AtObject(f.of)
             [] f.base = "Union" -> AtUnion(f.of)
             [] f.base = "Vector" -> AtVector(f)
             [] OTHER -> Nowhere

IntoElement(f) ==
  CASE f.element \in {"Table", "Struct"} -> AtObject(f.of)
    [] f.element = "Union" -> AtUnion(f.of)
    [] OTHER -> Nowhere

IntoMember(enum, step) ==
  IF IsTableMember(enum, step) THEN AtObject(MemberDef(enum, step)) ELSE Nowhere

PatchStep(at, step) ==
  CASE at.awaits = "field" -> IntoField(at.of, step)
    [] at.awaits = "element" -> IntoElement(at.of)
    [] at.awaits = "member" -> IntoMember(at.of, step)
    [] at.awaits = "nothing" -> at

Reached(def, path) ==
  LET at[n \in 0..Len(path)] ==
        IF n = 0 THEN AtObject(def) ELSE PatchStep(at[n - 1], path[n])
  IN  at[Len(path)]

\* The table or struct a patch along `path` patches; Null where it stops, or
\* goes through, anything else.
PatchTarget(def, path) ==
  IF Reached(def, path).awaits = "field" THEN Reached(def, path).of ELSE Null

Members == [put |-> {"path", "payload"}, delete |-> {"path"},
            patch |-> {"path", "updates"}]
HasShape(def, operation) ==
  /\ "op" \in DOMAIN operation /\ operation.op \in DOMAIN Members
  /\ Members[operation.op] \subseteq DOMAIN operation
  /\ operation.op = "patch" => PatchTarget(def, operation.path) # Null

\* What a patch patches is what its updates' paths are relative to.
Updates(def, operation) ==
  IF HasShape(def, operation) /\ operation.op = "patch"
    THEN {[def |-> PatchTarget(def, operation.path),
           operation |-> operation.updates[i]] : i \in DOMAIN operation.updates}
    ELSE {}

\* The operations each number of patches deep in one.
OneDeeper(operations) == UNION {Updates(x.def, x.operation) : x \in operations}
Inside(def, operation, depth) ==
  LET inside[n \in 0..depth] ==
        IF n = 0 THEN {[def |-> def, operation |-> operation]}
        ELSE OneDeeper(inside[n - 1])
  IN  inside

\* Everything in an operation is of the shape, and no more than `depth` patches
\* deep: how far wellFormed goes down.
WellFormed(def, operation, depth) ==
  \A n \in 0..depth : \A x \in Inside(def, operation, depth)[n] :
    /\ HasShape(x.def, x.operation)
    /\ n = depth => Updates(x.def, x.operation) = {}
=============================================================================
