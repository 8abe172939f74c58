------------------------------ MODULE PatchApply ------------------------------
(***************************************************************************)
(* The application of one request (tryApplyRequestGrowingWithin), and      *)
(* within it of a patch: a list of operations, some of them patches        *)
(* themselves (applyOperationList).                                        *)
(*                                                                         *)
(* Each operation is classified against the running table, the one the     *)
(* operations before it left, and builds the next running table in a       *)
(* buffer of its own.  The recursion through nested patches is a stack of  *)
(* frames here, the innermost last; a step is one operation, one call or   *)
(* one return.                                                             *)
(***************************************************************************)
EXTENDS PatchEdits

VARIABLES
  request,  \* The request being applied.
  source,   \* The table it is applied to.
  held,     \* The bytes in the caller's builder on entry.
  stack,    \* The operation lists being applied, outermost first.
  answer,   \* The outcome answered, or "none" so far.
  root      \* What was built into the caller's builder, or NoBuffer.

vars == <<request, source, held, stack, answer, root>>

-----------------------------------------------------------------------------
(* One frame of applyOperationList: where the list is, the running table,    *)
(* the buffer that holds it where the list built one, the outcome so far,    *)
(* and the bytes held beside the list.                                       *)

Frames ==
  [updates : Seq(Operations), prefix : Path, next : Nat \ {0},
   source : Tables, result : Tables \cup {NoBuffer},
   outcome : {Applied, NotStored}, bytesHeld : Nat]

NewFrame(updates, prefix, table, bytesHeld) ==
  [updates |-> updates, prefix |-> prefix, next |-> 1, source |-> table,
   result |-> NoBuffer, outcome |-> Applied, bytesHeld |-> bytesHeld]

Top == stack[Len(stack)]
Replace(frame) == [stack EXCEPT ![Len(stack)] = frame]

AdvanceResult(frame, table) == [frame EXCEPT !.result = table]  \* mutant
\* `result` takes the buffer built, and the running table is its root.
Advance(frame, table) == [frame EXCEPT !.result = table, !.source = table]

BufferSize(buffer) == IF buffer = NoBuffer THEN 0 ELSE Size(buffer)

Answer(outcome) == answer' = outcome /\ stack' = << >>

-----------------------------------------------------------------------------
(* A request that is a single operation, or a patch of none.                 *)

Begin == answer = "none" /\ stack = << >>

RefuseIllFormed ==
  /\ Begin /\ ~WellFormed(request)
  /\ Answer(Refused)
  /\ UNCHANGED <<request, source, held, root>>

LonePut ==
  /\ Begin /\ WellFormed(request) /\ request.type = "put"
  /\ LET outcome == ClassifyPut(source, request.offsets, request.payload,
                                VectorGrowthBudget(held))
     IN  /\ Answer(outcome)
         /\ root' = IF outcome = Applied
                      THEN Put(source, request.offsets, request.payload)
                      ELSE root
  /\ UNCHANGED <<request, source, held>>

LoneDelete ==
  /\ Begin /\ WellFormed(request) /\ request.type = "delete"
  /\ LET outcome == ClassifyDelete(source, request.offsets)
     IN  /\ Answer(outcome)
         /\ root' = IF outcome = Applied THEN Delete(source, request.offsets)
                                         ELSE root
  /\ UNCHANGED <<request, source, held>>

EmptyPatch ==
  /\ Begin /\ WellFormed(request) /\ request.type = "patch"
  /\ request.updates = << >>
  /\ Answer(IF Faithful(source) THEN Applied ELSE Refused)
  /\ root' = IF Faithful(source) THEN Copy(source) ELSE root
  /\ UNCHANGED <<request, source, held>>

StartPatch ==
  /\ Begin /\ WellFormed(request) /\ request.type = "patch"
  /\ request.updates # << >>
  /\ stack' = <<NewFrame(request.updates, request.offsets, source, held)>>
  /\ UNCHANGED <<request, source, held, answer, root>>

-----------------------------------------------------------------------------
(* A patch's list.  An operation that is Refused ends the request there, and *)
(* one that is NotStored leaves the running table as it was.                 *)

Running == answer = "none" /\ stack # << >>

\* The list is at an operation, and this is it.
AtOperation(type) ==
  /\ Running /\ Top.next <= Len(Top.updates)
  /\ Top.updates[Top.next].type = type
Operation == Top.updates[Top.next]
TargetInTheList == Operation.offsets                         \* mutant
Target == ConcatPath(Top.prefix, Operation.offsets)

\* What is held beside the table the next operation builds.
BytesBesideCaller == Top.bytesHeld                         \* mutant
BytesBeside == Top.bytesHeld + BufferSize(Top.result)

Stay(frame) == frame                                       \* mutant
Past(frame) == [frame EXCEPT !.next = @ + 1]

NestedPut ==
  /\ AtOperation("put")
  /\ IF ClassifyPut(Top.source, Target, Operation.payload,
                    VectorGrowthBudget(BytesBeside)) = Applied
       THEN /\ stack' = Replace(Past(
                 Advance(Top, Put(Top.source, Target, Operation.payload))))
            /\ UNCHANGED answer
       ELSE Answer(Refused)
  /\ UNCHANGED <<request, source, held, root>>

NestedDelete ==
  /\ AtOperation("delete")
  /\ LET outcome == ClassifyDelete(Top.source, Target)
     IN  CASE outcome = Refused -> Answer(Refused)
           [] outcome = NotStored ->
                /\ stack' = Replace(Past([Top EXCEPT !.outcome = NotStored]))
                /\ UNCHANGED answer
           [] outcome = Applied ->
                /\ stack' = Replace(Past(
                     Advance(Top, Delete(Top.source, Target))))
                /\ UNCHANGED answer
  /\ UNCHANGED <<request, source, held, root>>

\* The nested list starts from the running table, beside what is held here.
EnterPatch ==
  /\ AtOperation("patch")
  /\ stack' = Append(Replace(Past(Top)),
       NewFrame(Operation.updates, Target, Top.source, BytesBeside))
  /\ UNCHANGED <<request, source, held, answer, root>>

\* An empty list answers a copy, for its caller to thread onward.
CopyForEmptyList ==
  /\ Running /\ Top.updates = << >> /\ Top.result = NoBuffer
  /\ IF Faithful(Top.source)
       THEN stack' = Replace(Advance(Top, Copy(Top.source))) /\ UNCHANGED answer
       ELSE Answer(Refused)
  /\ UNCHANGED <<request, source, held, root>>

ListEndsEmpty == Running /\ Top.next > Len(Top.updates)    \* mutant
ListEnds ==
  /\ Running /\ Top.next > Len(Top.updates)
  /\ Top.updates = << >> => Top.result # NoBuffer

ReturnAsApplied ==                                         \* mutant
  /\ ListEnds /\ Len(stack) > 1
  /\ LET caller == stack[Len(stack) - 1]
     IN  stack' = SubSeq(stack, 1, Len(stack) - 2) \o
                    <<IF Top.result # NoBuffer THEN Advance(caller, Top.result)
                                               ELSE caller>>
  /\ UNCHANGED <<request, source, held, answer, root>>
\* The caller takes what the nested list built, if it built anything, though
\* one of its operations was NotStored.
ReturnToCaller ==
  /\ ListEnds /\ Len(stack) > 1
  /\ LET caller == stack[Len(stack) - 1]
         advanced == IF Top.result # NoBuffer THEN Advance(caller, Top.result)
                                              ELSE caller
         returned == IF Top.outcome = NotStored
                       THEN [advanced EXCEPT !.outcome = NotStored]
                       ELSE advanced
     IN  stack' = SubSeq(stack, 1, Len(stack) - 2) \o <<returned>>
  /\ UNCHANGED <<request, source, held, answer, root>>

FoldWhatWasBuilt ==                                        \* mutant
  /\ ListEnds /\ Len(stack) = 1
  /\ Answer(Top.outcome)
  /\ root' = IF Top.result # NoBuffer THEN Copy(Top.result) ELSE root
  /\ UNCHANGED <<request, source, held>>
\* The result is folded into the caller's builder, or dropped.
FoldResult ==
  /\ ListEnds /\ Len(stack) = 1
  /\ Answer(Top.outcome)
  /\ root' = IF Top.outcome = Applied THEN Copy(Top.result) ELSE root
  /\ UNCHANGED <<request, source, held>>

Init ==
  /\ request \in Requests /\ source \in Tables /\ held \in HeldSizes
  /\ stack = << >> /\ answer = "none" /\ root = NoBuffer

Next ==
  \/ RefuseIllFormed \/ LonePut \/ LoneDelete \/ EmptyPatch \/ StartPatch
  \/ NestedPut \/ NestedDelete \/ EnterPatch \/ CopyForEmptyList
  \/ ReturnToCaller \/ FoldResult

\* The call runs on until it returns.
Spec == Init /\ [][Next]_vars /\ WF_vars(Next)

-----------------------------------------------------------------------------
(* Properties.                                                               *)

TypeOK ==
  /\ request \in Requests /\ source \in Tables /\ held \in HeldSizes
  /\ stack \in Seq(Frames)
  /\ answer \in Outcomes \cup {"none"}
  /\ root \in Tables \cup {NoBuffer}

\* All or nothing: the caller's builder gains a root exactly when the request
\* is answered Applied, whatever its operations built on the way.
BuiltOnlyIfApplied == root # NoBuffer <=> answer = Applied

\* Every list runs on what its own operations built last or, until they build
\* something, on its caller's running table: no operation reads a table an
\* earlier one has replaced.
ListsShareTheRunningTable ==
  \A k \in DOMAIN stack :
    stack[k].source =
      IF stack[k].result # NoBuffer THEN stack[k].result
        ELSE IF k = 1 THEN source
        ELSE stack[k - 1].source

\* The bytes alive while the operations of the first `k` lists run: the caller's
\* builder, and the running table each of these lists has built.
LiveBytes[k \in 0..Len(stack)] ==
  IF k = 0 THEN held ELSE LiveBytes[k - 1] + BufferSize(stack[k].result)

\* A put in a patch, however deep, is made exactly where it would be with all
\* that is alive while it builds in the caller's builder: that builder, the
\* running table of its own list, and that of each list it is nested in.
BudgetCountsLiveBuffers ==
  [][AtOperation("put") =>
       (answer' # Refused <=>
          ClassifyPut(Top.source, Target, Operation.payload,
                      VectorGrowthBudget(LiveBytes[Len(stack)])) = Applied)]_vars

\* A list that ends Applied has built a buffer, which is read without asking
\* whether it is there, and which the fold copies as it is.
FoldsAFaithfulBuffer ==
  ListEnds /\ Top.outcome = Applied =>
    Top.result # NoBuffer /\ Faithful(Top.result)

\* The call returns.
Returns == <>(answer # "none")

\* What a list has left to do, each operation with its whole path; a list of
\* nothing is done once it has copied.
Left(frame) ==
  IF frame.updates = << >>
    THEN IF frame.result = NoBuffer THEN Items(<< >>, frame.prefix) ELSE << >>
    ELSE [i \in 1..(Len(frame.updates) + 1 - frame.next) |->
            LET op == frame.updates[frame.next - 1 + i]
            IN  [op |-> op, path |-> ConcatPath(frame.prefix, op.offsets)]]
AgendaLeft == [k \in DOMAIN stack |-> Left(stack[k])]
RunningTable == IF stack = << >> THEN source ELSE Top.source
OutcomeSoFar ==
  IF \E k \in DOMAIN stack : stack[k].outcome = NotStored THEN NotStored ELSE Applied
Agenda == INSTANCE PatchAgenda WITH
  agenda <- AgendaLeft, table <- RunningTable, outcome <- OutcomeSoFar

\* The lists of a request and the buffers they build do not show: each operation
\* edits the one table the operations written before it left, wherever they are
\* nested, and the caller's builder gains the last one, or nothing.
ImplementsAgenda == Agenda!Spec

\* A request is answered as if its puts and deletes had been applied one after
\* another at their whole paths, in one step: nested patches, the buffers their
\* lists build and the order outcomes come back in do not show.
ImplementsPatchSpec == Agenda!Abstract!Spec
=============================================================================
