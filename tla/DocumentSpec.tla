----------------------------- MODULE DocumentSpec -----------------------------
(***************************************************************************)
(* What tryApplyRequest promises of a put and of a delete: a document and  *)
(* the edits made of it, without passes, offsets, discriminants or         *)
(* classification.  An edit whose result would still hold what no copy     *)
(* keeps is Refused, and so is one whose grown vectors pass the bound.     *)
(***************************************************************************)
EXTENDS Documents

CONSTANTS Root, Sources, PutRequests, DeleteRequests, Largest, NoRequest

VARIABLES document, request, outcome

vars == <<document, request, outcome>>

Init ==
  /\ document \in {Document(Root, t) : t \in Sources}
  /\ request = NoRequest
  /\ outcome = NoRequest

Answer(r, answer, edited) ==
  /\ request = NoRequest
  /\ request' = r
  /\ outcome' = answer
  /\ document' = IF answer = "Applied" THEN edited ELSE document

PutRefused(r) ==
  \/ ~PutResolves(Root, r.path, r.payload)
  \/ Growth(Root, r.path, r.payload) > Largest
  \/ HoldsLost(Root, PutDocument(Root, document, r.path, r.payload))
PutEdit(r) ==
  Answer(r, IF PutRefused(r) THEN "Refused" ELSE "Applied",
         PutDocument(Root, document, r.path, r.payload))

\* What is not stored is said so, whatever the rest of the document holds.
DeleteEdit(r) ==
  LET resolves == DeleteResolves(Root, r.path)
      held == resolves /\ Holds(Root, document, r.path)
      edited == DeleteDocument(Root, document, r.path)
  IN  Answer(r, IF ~resolves THEN "Refused"
                ELSE IF ~held THEN "NotStored"
                ELSE IF HoldsLost(Root, edited) THEN "Refused" ELSE "Applied",
             edited)

KeepResult ==
  /\ request # NoRequest
  /\ request' = NoRequest
  /\ outcome' = NoRequest
  /\ UNCHANGED document

Next ==
  \/ \E r \in PutRequests : PutEdit(r)
  \/ \E r \in DeleteRequests : DeleteEdit(r)
  \/ KeepResult
Spec == Init /\ [][Next]_vars
=============================================================================
