------------------------------ MODULE PatchEdits ------------------------------
(***************************************************************************)
(* What a request is made of, and what classifying and building one put or *)
(* one delete comes to: the constants of PatchApply and of PatchSpec.      *)
(* TwoPassPut and TwoPassDelete look inside a build.                       *)
(***************************************************************************)
EXTENDS Naturals, Sequences

CONSTANTS
  Tables,                  \* What a buffer of the schema may hold.
  Path,                    \* The paths from the root, and from one to another.
  ConcatPath(_, _),        \* The path that goes on from the first as the second.
  NoBuffer,                \* What stands where no buffer has been built.
  Operations,              \* The operations a request may hold.
  Nesting(_),              \* How many patches deep an operation nests.
  Requests,                \* Those of them considered as whole requests.
  HeldSizes,               \* What the caller's builder may hold on entry.
  Largest,                 \* kLargestGrownVectorBytes.
  WellFormed(_),           \* The schema accepts the request's shape.
  ClassifyPut(_, _, _, _), \* The outcome of (table, path, payload, budget).
  Put(_, _, _),            \* What that put makes of the table.
  ClassifyDelete(_, _),    \* The outcome of (table, path).
  Delete(_, _),            \* What that delete makes of the table.
  Faithful(_),             \* copiesFaithfully of the whole table.
  Copy(_),                 \* copyTableDeep of the table.
  Size(_)                  \* The bytes of the buffer built for a table.

Applied == "Applied"
NotStored == "NotStored"
Refused == "Refused"
Outcomes == {Applied, NotStored, Refused}

\* A put, a delete, and a patch of operations; all relative to what holds them.
ASSUME OperationAssumption ==
  /\ Requests \subseteq Operations
  /\ \A p, q \in Path : ConcatPath(p, q) \in Path
  /\ \A op \in Operations :
       /\ op.type \in {"put", "delete", "patch"}
       /\ op.offsets \in Path
       /\ Nesting(op) \in Nat
       /\ op.type = "patch" =>
            /\ op.updates \in Seq(Operations)
            /\ \A i \in DOMAIN op.updates : Nesting(op.updates[i]) < Nesting(op)

\* A put creates what it reaches through, so it never misses it.  An edit is
\* Applied only where the rest of the table copies faithfully, and makes a table
\* that does: BufferEdit's AppliedCopiesExactly.  That leaves out of Tables any
\* that stores the discriminants of a vector of unions without the vector.
ASSUME EditAssumption ==
  /\ NoBuffer \notin Tables
  /\ Largest \in Nat /\ HeldSizes \subseteq Nat
  /\ \A t \in Tables : Size(t) \in Nat /\ Copy(t) \in Tables
  /\ \A t \in Tables : Faithful(t) => Copy(t) = t
  /\ \A t \in Tables : \A p \in Path :
       /\ ClassifyDelete(t, p) \in Outcomes
       /\ ClassifyDelete(t, p) = Applied =>
            Delete(t, p) \in Tables /\ Faithful(Delete(t, p))
  /\ \A op \in Operations : op.type = "put" =>
       \A t \in Tables : \A p \in Path : \A b \in 0..Largest :
         /\ ClassifyPut(t, p, op.payload, b) \in {Applied, Refused}
         /\ ClassifyPut(t, p, op.payload, b) = Applied =>
              /\ Put(t, p, op.payload) \in Tables
              /\ Faithful(Put(t, p, op.payload))

\* The bytes a put may grow vectors to in a builder that holds `bytesBuilt`.
VectorGrowthBudget(bytesBuilt) ==
  IF bytesBuilt < Largest THEN Largest - bytesBuilt ELSE 0

\* An operation at its whole path.  A patch of none comes to a copy.
Copying == [type |-> "copy"]
ItemSet == [op : Operations \cup {Copying}, path : Path]

\* What a patch at `prefix` has to do.
Items(updates, prefix) ==
  IF updates = << >>
    THEN <<[op |-> Copying, path |-> prefix]>>
    ELSE [i \in DOMAIN updates |->
            [op |-> updates[i], path |-> ConcatPath(prefix, updates[i].offsets)]]

\* What an item that is no patch can be answered, a put with at most the bytes to
\* grow that it would have alone, and what it makes of the table.
CanAnswer(table, item, bytesHeld) ==
  CASE item.op.type = "put" ->
         {ClassifyPut(table, item.path, item.op.payload, budget) :
            budget \in 0..VectorGrowthBudget(bytesHeld)}
    [] item.op.type = "delete" -> {ClassifyDelete(table, item.path)}
    [] item.op.type = "copy" -> {IF Faithful(table) THEN Applied ELSE Refused}
Made(table, item) ==
  CASE item.op.type = "put" -> Put(table, item.path, item.op.payload)
    [] item.op.type = "delete" -> Delete(table, item.path)
    [] item.op.type = "copy" -> table
=============================================================================
