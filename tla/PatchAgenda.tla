------------------------------ MODULE PatchAgenda ------------------------------
(***************************************************************************)
(* A request as it would be carried out by hand: one running table, edited *)
(* by one operation after another, in the order they are written, each at  *)
(* its whole path.  Of the lists a request nests, only what is left to do  *)
(* of each is kept: no list has a table, a buffer or an outcome of its own *)
(* (PatchApply has them, and implements this).                             *)
(***************************************************************************)
EXTENDS PatchEdits

VARIABLES
  request,  \* The request being applied.
  source,   \* The table it is applied to.
  held,     \* The bytes in the caller's builder on entry.
  agenda,   \* What is left of each list begun, outermost first.
  table,    \* The running table.
  outcome,  \* Applied, or NotStored once an operation was.
  answer,   \* The outcome answered, or "none" so far.
  root      \* What the caller's builder gained, or NoBuffer.

vars == <<request, source, held, agenda, table, outcome, answer, root>>

\* The answer, and what goes into the caller's builder with it.
Answer(result, built) ==
  /\ answer' = result
  /\ root' = IF result = Applied THEN built ELSE NoBuffer
  /\ agenda' = << >> /\ table' = source /\ outcome' = Applied
  /\ UNCHANGED <<request, source, held>>

-----------------------------------------------------------------------------

NotBegun == answer = "none" /\ agenda = << >>

RefuseIllFormed ==
  NotBegun /\ ~WellFormed(request) /\ Answer(Refused, NoBuffer)

LoneItem ==
  [op |-> IF request.type = "patch" THEN Copying ELSE request,
   path |-> request.offsets]

\* A request that is a single operation, or a patch of none.
LoneEdit ==
  /\ NotBegun /\ WellFormed(request)
  /\ request.type = "patch" => request.updates = << >>
  /\ \E result \in CanAnswer(table, LoneItem, held) :
       Answer(result, Made(table, LoneItem))

Start ==
  /\ NotBegun /\ WellFormed(request) /\ request.type = "patch"
  /\ request.updates # << >>
  /\ agenda' = <<Items(request.updates, request.offsets)>>
  /\ UNCHANGED <<request, source, held, table, outcome, answer, root>>

-----------------------------------------------------------------------------

Begun == answer = "none" /\ agenda # << >>
Remaining == agenda[Len(agenda)]
Item == Remaining[1]
ItemDone == [agenda EXCEPT ![Len(agenda)] = Tail(@)]

Edit ==
  /\ Begun /\ Remaining # << >> /\ Item.op.type # "patch"
  /\ \E result \in CanAnswer(table, Item, held) :
       \/ result = Refused /\ Answer(Refused, NoBuffer)
       \/ /\ result # Refused
          /\ agenda' = ItemDone
          /\ table' = IF result = Applied THEN Made(table, Item) ELSE table
          /\ outcome' = IF result = NotStored THEN NotStored ELSE outcome
          /\ UNCHANGED <<request, source, held, answer, root>>

Enter ==
  /\ Begun /\ Remaining # << >> /\ Item.op.type = "patch"
  /\ agenda' = Append(ItemDone, Items(Item.op.updates, Item.path))
  /\ UNCHANGED <<request, source, held, table, outcome, answer, root>>

Return ==
  /\ Begun /\ Remaining = << >> /\ Len(agenda) > 1
  /\ agenda' = SubSeq(agenda, 1, Len(agenda) - 1)
  /\ UNCHANGED <<request, source, held, table, outcome, answer, root>>

\* The caller's builder gains the running table itself.
Finish ==
  /\ Begun /\ Remaining = << >> /\ Len(agenda) = 1
  /\ Answer(outcome, table)

Init ==
  /\ request \in Requests /\ source \in Tables /\ held \in HeldSizes
  /\ agenda = << >> /\ table = source /\ outcome = Applied
  /\ answer = "none" /\ root = NoBuffer

Next ==
  \/ RefuseIllFormed \/ LoneEdit \/ Start
  \/ Edit \/ Enter \/ Return \/ Finish

Spec == Init /\ [][Next]_vars

\* The promise, of which the agenda is one way to keep it.
Abstract == INSTANCE PatchSpec
=============================================================================
