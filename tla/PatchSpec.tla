------------------------------- MODULE PatchSpec -------------------------------
(***************************************************************************)
(* What applying a request promises: in one step, it answers what its puts *)
(* and deletes come to one after another, each at its whole path, and the  *)
(* caller's builder gains the table they leave, or nothing.                *)
(***************************************************************************)
EXTENDS PatchEdits, SequencesExt

VARIABLES request, source, held, answer, root

vars == <<request, source, held, answer, root>>

\* The puts, deletes and copies an item comes to, in the order they are written.
Flatten[item \in ItemSet] ==
  IF item.op.type # "patch"
    THEN <<item>>
    ELSE LET inner == Items(item.op.updates, item.path)
         IN  FlattenSeq([i \in DOMAIN inner |-> Flatten[inner[i]]])
Edits == Flatten[[op |-> request, path |-> request.offsets]]

\* Where an edit that is not Refused can leave the table, and whether it or one
\* before it was NotStored.
Edited(state, edit, bytesHeld) ==
  {[table |-> IF result = Applied THEN Made(state.table, edit) ELSE state.table,
    missed |-> state.missed \/ result = NotStored] :
     result \in CanAnswer(state.table, edit, bytesHeld) \ {Refused}}

\* Where the first n of `edits` can leave `table`, for each n.
After(edits, table, bytesHeld) ==
  LET after[n \in 0..Len(edits)] ==
        IF n = 0
          THEN {[table |-> table, missed |-> FALSE]}
          ELSE UNION {Edited(state, edits[n], bytesHeld) : state \in after[n - 1]}
  IN  after

\* Some edit can be Refused, where those before it can leave the table.
CanBeRefused(edits, table, bytesHeld) ==
  \E n \in DOMAIN edits : \E state \in After(edits, table, bytesHeld)[n - 1] :
    Refused \in CanAnswer(state.table, edits[n], bytesHeld)

Init ==
  /\ request \in Requests /\ source \in Tables /\ held \in HeldSizes
  /\ answer = "none" /\ root = NoBuffer

Refuse ==
  /\ WellFormed(request) => CanBeRefused(Edits, source, held)
  /\ answer' = Refused /\ root' = NoBuffer

Serve ==
  /\ WellFormed(request)
  /\ \E last \in After(Edits, source, held)[Len(Edits)] :
       /\ answer' = IF last.missed THEN NotStored ELSE Applied
       /\ root' = IF last.missed THEN NoBuffer ELSE last.table

Respond ==
  /\ answer = "none"
  /\ Refuse \/ Serve
  /\ UNCHANGED <<request, source, held>>

Spec == Init /\ [][Respond]_vars
=============================================================================
