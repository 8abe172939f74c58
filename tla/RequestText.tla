------------------------------- MODULE RequestText -------------------------------
(***************************************************************************)
(* How a request is written (docs/grammar.md), as a sequence of tokens: a  *)
(* verb, a name, an index, a value, a mark, or a space.  A name is [kind,  *)
(* name], the offset of the field or the union member it spells; an index  *)
(* is [kind, index]; a value is [kind, payload].  A vector of tables is    *)
(* written bracket by bracket, any other list is one value.                *)
(*                                                                         *)
(* `gap` is what is written where spaces may stand.                        *)
(***************************************************************************)
EXTENDS RequestShape, SequencesExt

Mark(kind) == [kind |-> kind]
Space == Mark("sp")
Name(n) == [kind |-> "name", name |-> n]
Index(i) == [kind |-> "index", index |-> i]
Value(payload) == [kind |-> "value", payload |-> payload]

Joined(parts, separator) ==
  FlattenSeq([i \in DOMAIN parts |->
                IF i = 1 THEN parts[i] ELSE separator \o parts[i]])

-----------------------------------------------------------------------------
(* Paths.                                                                    *)

\* A path of a put or a delete goes into arrays and wide vectors as well.
IsIndexed(f) == f.base \in {"Vector", "Vector64", "Array"}
PathStep(at, step) ==
  IF /\ at.awaits = "field" /\ step \in Offsets(at.of)
     /\ IsIndexed(FieldAt(at.of, step))
    THEN AtVector(FieldAt(at.of, step))
    ELSE PatchStep(at, step)

\* Where each step of a path starts from.
Places(def, path) ==
  LET at[n \in 0..Len(path)] ==
        IF n = 0 THEN IF def \in DOMAIN Objects THEN AtObject(def) ELSE Nowhere
        ELSE PathStep(at[n - 1], path[n])
  IN  at

StepTokens(at, n, step) ==
  IF at.awaits = "element" THEN <<Mark("["), Index(step), Mark("]")>>
  ELSE (IF n = 1 THEN << >> ELSE <<Mark(".")>>) \o <<Name(step)>>
PathTokens(def, path) ==
  LET at == Places(def, path)
  IN  FlattenSeq([n \in DOMAIN path |-> StepTokens(at[n - 1], n, path[n])])

-----------------------------------------------------------------------------
(* Operations.                                                               *)

PayloadTokens(payload) ==
  IF payload.kind = "list" /\ payload.of # ""
    THEN <<Mark("[")>>
           \o Joined([i \in DOMAIN payload.value |-> <<Value(payload.value[i])>>],
                     <<Mark(",")>>)
           \o <<Mark("]")>>
    ELSE <<Value(payload)>>

\* An operation on a `def` that is still to be written, among tokens that are.
Unwritten(def, operation) ==
  [kind |-> "operation", def |-> def, operation |-> operation]

\* What a patch's updates are on, if it patches anything that is declared.
Target(def, path) ==
  IF def \in DOMAIN Objects /\ PatchTarget(def, path) \in DOMAIN Objects
    THEN PatchTarget(def, path) ELSE Null
UpdateTokens(def, updates, gap) ==
  Joined([i \in DOMAIN updates |-> <<Unwritten(def, updates[i])>>],
         gap \o <<Mark(";")>> \o gap)
    \o (IF updates = << >> THEN << >> ELSE gap)
OperationTokens(def, r, gap) ==
  <<Mark(r.op)>> \o gap \o PathTokens(def, r.path)
    \o (CASE r.op = "put" -> gap \o PayloadTokens(r.payload)
          [] r.op = "delete" -> << >>
          [] r.op = "patch" ->
               (IF r.path = << >> THEN << >> ELSE gap)
                 \o <<Mark("{")>> \o gap
                 \o UpdateTokens(Target(def, r.path), r.updates, gap)
                 \o <<Mark("}")>>)

\* Each operation in `items` written, and the updates of each patch among them
\* left to write.
WrittenOnce(items, gap) ==
  FlattenSeq([i \in DOMAIN items |->
                IF items[i].kind = "operation"
                  THEN OperationTokens(items[i].def, items[i].operation, gap)
                  ELSE <<items[i]>>])

WrittenOut(items, gap, depth) ==
  LET out[n \in 0..depth] ==
        IF n = 0 THEN items ELSE WrittenOnce(out[n - 1], gap)
  IN  out[depth]

\* An operation no more than `depth` operations deep, written to the last.
Written(def, operation, gap, depth) ==
  WrittenOut(<<Unwritten(def, operation)>>, gap, depth)

\* A text but for its spaces, none of which means anything.
Squeezed(s) ==
  FlattenSeq([i \in DOMAIN s |-> IF s[i].kind = "sp" THEN << >> ELSE <<s[i]>>])
=============================================================================
