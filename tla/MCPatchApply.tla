----------------------------- MODULE MCPatchApply -----------------------------
(* Tables of two vectors, one of them inside a subtable "s", of which only    *)
(* the lengths are kept, and perhaps something no copy keeps.  Requests nest  *)
(* patches two deep, the sums of vectors they grow reach past Largest, and    *)
(* they hold edits that are not stored and edits that no table takes.         *)
EXTENDS PatchApply, FiniteSets, SequencesExt

CONSTANTS MostLength, MostUpdates

Vectors == {<<"v">>, <<"s", "v">>}

MCTables == [lengths : [Vectors -> 0..MostLength], odd : BOOLEAN]

\* The paths the schema resolves, and <<"x">> for every other.
MCPath == {<< >>, <<"s">>, <<"x">>} \cup Vectors
MCConcatPath(p, q) == IF p \o q \in MCPath THEN p \o q ELSE <<"x">>
MCFaithful(t) == ~t.odd
MCCopy(t) == [t EXCEPT !.odd = FALSE]
MCSize(t) == 1 + t.lengths[<<"v">>] + t.lengths[<<"s", "v">>]

\* A put at index `payload` grows the vector to reach it.
MCClassifyPut(t, path, payload, budget) ==
  IF path \in Vectors /\ payload + 1 <= budget /\ ~t.odd THEN Applied
                                                           ELSE Refused
MCPut(t, path, payload) ==
  [t EXCEPT !.lengths[path] = IF @ > payload THEN @ ELSE payload + 1]
MCClassifyDelete(t, path) ==
  IF path \notin Vectors THEN Refused
    ELSE IF t.lengths[path] = 0 THEN NotStored
    ELSE IF t.odd THEN Refused ELSE Applied
MCDelete(t, path) == [t EXCEPT !.lengths[path] = 0]

PutAt(path, index) == [type |-> "put", offsets |-> path, payload |-> index]
DeleteAt(path) == [type |-> "delete", offsets |-> path]
PatchOf(path, updates) ==
  [type |-> "patch", offsets |-> path, updates |-> updates]

Edits ==
  {PutAt(<<"v">>, MostLength - 1), PutAt(<<"s", "v">>, 0), DeleteAt(<<"v">>),
   DeleteAt(<<"x">>)}
Inner ==
  {PatchOf(path, updates) : path \in {<< >>, <<"s">>},
                            updates \in SeqOf(Edits, MostUpdates)}
Outer ==
  {PatchOf(<< >>, <<e, p>>) : e \in Edits, p \in Inner}
    \cup {PatchOf(<< >>, <<p, e>>) : e \in Edits, p \in Inner}
Deep == {PatchOf(<< >>, <<p, DeleteAt(<<"s", "v">>)>>) :
           p \in {PatchOf(<<"s">>, <<q, q>>) :
                    q \in {PatchOf(<< >>, u) : u \in SeqOf(Edits, MostUpdates)}}}
MCRequests ==
  {r \in Edits \cup Inner \cup Outer \cup Deep \cup {PatchOf(<<"v">>, << >>)} :
     TRUE}
MCOperations ==
  {op \in MCRequests \cup {p.updates[1] : p \in Deep}
             \cup {p.updates[1].updates[1] : p \in Deep}
             \cup {DeleteAt(<<"s", "v">>)} : TRUE}

\* patchTarget: a patch stops at the root or at the subtable.
RECURSIVE WellFormedAt(_, _)
WellFormedAt(at, op) ==
  op.type = "patch" =>
    /\ MCConcatPath(at, op.offsets) \in {<< >>, <<"s">>}
    /\ \A i \in DOMAIN op.updates :
         WellFormedAt(MCConcatPath(at, op.offsets), op.updates[i])
MCWellFormed(op) == WellFormedAt(<< >>, op)

RECURSIVE MCNesting(_)
MCNesting(op) ==
  IF op.type # "patch" THEN 0
    ELSE 1 + Max({0} \cup {MCNesting(op.updates[i]) : i \in DOMAIN op.updates})

\* The elements a request's puts grow the vector at `path` to.
GrownTo(path, op) ==
  Max({0} \cup {edit.op.payload + 1 :
    edit \in {e \in ToSet(Agenda!Abstract!Flatten[[op |-> op, path |-> op.offsets]]) :
               e.op.type = "put" /\ e.path = path}})

\* The promise tryApplyRequest documents (FlatbufferRequest.hpp:115): what the
\* builder holds on entry and every vector the request grows fit the bound
\* together, or the request is Refused.  A vector grown and then deleted is no
\* longer in the running table, so the code does not count it.
GrownVectorsFitTogether ==
  answer = Applied =>
    held + GrownTo(<<"v">>, request) + GrownTo(<<"s", "v">>, request) <= Largest
=============================================================================
