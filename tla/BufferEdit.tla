------------------------------ MODULE BufferEdit ------------------------------
(***************************************************************************)
(* A buffer and the puts and deletes applied to it one after another, each *)
(* to the buffer the last one built: what tryApplyRequest does of a        *)
(* request that is no patch.  A request is [path, payload], or [path].     *)
(***************************************************************************)
EXTENDS RequestEdit

CONSTANTS
  Root,          \* The schema's root table.
  Sources,       \* The buffers considered at first.
  Puts(_),       \* The puts considered of a buffer.
  Deletes(_),    \* The deletes considered of a buffer.
  Largest,       \* kLargestGrownVectorBytes.
  MostRequests,  \* How many requests follow one another.
  NoRequest      \* What stands for the request where none is being answered.

VARIABLES
  buffer,   \* The source, and once a request is Applied what it built.
  request,  \* The request answered.
  outcome,  \* What it came to.
  count     \* How many edits were made.

vars == <<buffer, request, outcome, count>>

Init ==
  /\ buffer \in Sources
  /\ request = NoRequest
  /\ outcome = NoRequest
  /\ count = 0

Answer(r, answer, built) ==
  /\ request = NoRequest
  /\ count < MostRequests
  /\ request' = r
  /\ outcome' = answer
  /\ buffer' = IF answer = Applied THEN built ELSE buffer
  /\ UNCHANGED count

ApplyPut(r) ==
  Answer(r, ClassifyPut(Root, buffer, r.payload, r.path, Largest),
         PutTable(Root, buffer, r.payload, r.path))
ApplyDelete(r) ==
  Answer(r, ClassifyDelete(Root, buffer, r.path),
         DeleteTable(Root, buffer, r.path))

\* The caller keeps what it has as the source of its next request.
KeepResult ==
  /\ request # NoRequest
  /\ request' = NoRequest
  /\ outcome' = NoRequest
  /\ count' = IF outcome = Applied THEN count + 1 ELSE count
  /\ UNCHANGED buffer

Next ==
  \/ \E r \in Puts(buffer) : ApplyPut(r)
  \/ \E r \in Deletes(buffer) : ApplyDelete(r)
  \/ KeepResult
Spec == Init /\ [][Next]_vars

-----------------------------------------------------------------------------

RECURSIVE HasShape(_, _), ShapedAs(_, _, _)
ShapedAs(base, of, value) ==
  CASE base = "Scalar" -> value \in Int
    [] base = "UType" -> value \in 0..255
    [] base = "String" -> value \in Seq(Int)
    [] base = "Struct" ->
         /\ DOMAIN value = Offsets(of)
         /\ \A f \in Objects[of] :
              IF f.base = "Array"
                THEN /\ Len(value[f.offset]) = f.length
                     /\ \A i \in 1..f.length :
                          ShapedAs(f.element, f.of, value[f.offset][i])
                ELSE ShapedAs(f.base, f.of, value[f.offset])
    [] base = "Table" -> HasShape(of, value)
HasShape(def, t) ==
  \A f \in Objects[def] : f.offset \in DOMAIN t =>
    CASE f.base = "Union" ->
           LET type == MemberType(f.of, Get(t, f.pair, 0))
           IN  type # Null => ShapedAs(type.base, type.of, t[f.offset])
      [] IsVector(f) ->
           \A i \in DOMAIN t[f.offset] :
             f.element # "Union" =>
               ShapedAs(f.element, f.of, t[f.offset][i])
      [] OTHER -> ShapedAs(f.base, f.of, t[f.offset])

\* Every field built holds a value of its type: a struct all of its members.
TypeOK ==
  /\ HasShape(Root, buffer)
  /\ request = NoRequest <=> outcome = NoRequest
  /\ outcome \in {Applied, NotStored, Refused, NoRequest}
  /\ count \in 0..MostRequests

\* An Applied request builds a buffer the library's own verifier accepts
\* (fuzz/fuzz_apply.cpp), however odd the source: every union's value under a
\* member the schema declares, as many discriminants as elements.
BufferVerifies == outcome = Applied => Verifies(Root, buffer)

\* A table built by an Applied request has nothing a copy would lose, and its
\* copy is itself: what the classify pass refuses keeps every later request,
\* and a patch's fold into the caller's builder, from losing anything.
AppliedCopiesExactly ==
  outcome = Applied =>
    CopiesFaithfully(Root, buffer, Null) /\ CopyTable(Root, buffer) = buffer

IsPut(r) == "payload" \in DOMAIN r

\* A put applied again is Applied again and changes nothing: an element it
\* grew the vector to is written over, never appended; the union it switched
\* is its own member's now; a struct's other members stay.
PutIsIdempotent ==
  outcome = Applied /\ IsPut(request) =>
    /\ ClassifyPut(Root, buffer, request.payload, request.path, Largest) = Applied
    /\ PutTable(Root, buffer, request.payload, request.path) = buffer
=============================================================================
