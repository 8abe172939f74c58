----------------------------- MODULE MCBufferEdit -----------------------------
(* Sources of the sample schema hold what no copy keeps too: a union's value   *)
(* under no discriminant, a discriminant without its union, a NONE element, a  *)
(* field not declared.                                                         *)
EXTENDS BufferEdit, Documents, SampleSchema

CONSTANTS UnpairedTypes  \* Whether a source may hold the types of no vector.

MCPayloadBytes(payload) == IF payload.kind = "string" THEN 1 ELSE 2

-----------------------------------------------------------------------------
(* The sources: one of each family of fields beside what the others leave.   *)

Leaf(n) == 4 :> n
LeafOf(list) == 6 :> list
PairImage == 0 :> 1 @@ 4 :> 1
NestImage == 0 :> 1 @@ 4 :> PairImage @@ 12 :> <<1, 1>>
OneChoices ==
  {EmptyTable, 4 :> 1 @@ 6 :> <<7>>, 4 :> 2 @@ 6 :> Leaf(1),
   4 :> 3 @@ 6 :> Leaf(1), 4 :> 3 @@ 6 :> EmptyTable,
   4 :> 4 @@ 6 :> PairImage, 6 :> EmptyTable, 4 :> 9 @@ 6 :> EmptyTable, 4 :> 2}
ManyChoices ==
  {EmptyTable, 8 :> << >> @@ 10 :> << >>, 8 :> <<1>> @@ 10 :> <<<<7>>>>,
   8 :> <<3, 2>> @@ 10 :> <<Leaf(1), LeafOf(<<1>>)>>,
   8 :> <<0, 2>> @@ 10 :> <<EmptyTable, Leaf(1)>>}
    \cup (IF UnpairedTypes THEN {8 :> <<2, 3>>} ELSE {})
VectorChoices ==
  {EmptyTable, 12 :> <<EmptyTable>>, 12 :> <<Leaf(1), LeafOf(<<1, 2>>)>>,
   12 :> <<8 :> 1, Leaf(1)>>}
OtherChoices ==
  {EmptyTable, 14 :> NestImage @@ 16 :> <<NestImage>>,
   18 :> <<7>> @@ 20 :> <<1, 2>> @@ 22 :> LeafOf(<<1>>), 99 :> 1}
TableSources ==
  {t \in {o @@ m : o \in OneChoices, m \in {EmptyTable, 12 :> <<EmptyTable>>}}
     \cup {m @@ o : m \in ManyChoices, o \in {EmptyTable, 4 :> 2 @@ 6 :> Leaf(1)}}
     \cup VectorChoices \cup OtherChoices :
   Verifies("Doc", t)}

-----------------------------------------------------------------------------
(* The requests.                                                             *)

PutOf(paths, payloads) ==
  {[path |-> p, payload |-> x] : p \in paths, x \in payloads}

TablePuts == {r \in
  PutOf({<< >>}, {TableOf("Doc", 4 :> 2 @@ 6 :> Leaf(2)), TableOf("Doc", 4 :> 2)})
    \cup PutOf({<<6, 2>>, <<10, 0, 2>>, <<12, 1>>, <<12, 3>>, <<22>>},
               {TableOf("Leaf", Leaf(2)), TableOf("Leaf", 8 :> 1)})
    \cup PutOf({<<6, 3>>, <<10, 1, 3>>, <<12, 0>>, <<6, 1>>, <<6, 9>>, <<6>>,
                <<10, 0>>}, {TableOf("Other", Leaf(2))})
    \cup PutOf({<<6, 2, 4>>, <<6, 2, 6, 0>>, <<6, 3, 4>>, <<10, 0, 3, 4>>, <<10, 2, 2, 4>>,
                <<10, 1, 2, 6, 1>>, <<10, 0, 1>>, <<12, 1, 4>>, <<12, 1, 6, 0>>,
                <<12, 1, 6, 2>>, <<14, 0>>, <<16, 1, 0>>, <<20, 0>>, <<6, 4>>,
                <<22, 6, 2>>, <<22, 8>>, <<4>>, <<99>>}, {Scalar(2)})
    \cup PutOf({<<18>>, <<22>>}, {String(<<2>>)})
    \cup PutOf({<<20>>, <<6>>, <<10>>}, {List(<<Scalar(2), Scalar(3)>>)})
    \cup PutOf({<<12>>},
               {List(<< >>), List(<<TableOf("Leaf", Leaf(2))>>),
                List(<<TableOf("Leaf", Leaf(2)), TableOf("Leaf", Leaf(3))>>)}) :
  TRUE}

TableDeletes == {r \in
  {[path |-> p] : p \in
    {<< >>, <<4>>, <<8>>, <<99>>, <<6>>, <<6, 1>>, <<6, 2>>, <<6, 3>>, <<6, 9>>,
     <<6, 2, 4>>, <<6, 3, 6>>, <<10>>, <<10, 0>>, <<10, 0, 2>>, <<10, 0, 3>>,
     <<10, 1, 2>>, <<10, 1, 2, 6, 0>>, <<10, 0, 3, 4>>, <<10, 2>>, <<10, 0, 1>>,
     <<12>>, <<12, 0>>, <<12, 1, 4>>, <<12, 1, 6, 0>>, <<12, 2>>, <<14>>,
     <<16, 0>>, <<18>>, <<18, 0>>, <<20>>, <<20, 0>>,
     <<22>>, <<22, 4>>, <<22, 6>>, <<22, 6, 1>>}} : TRUE}

-----------------------------------------------------------------------------
(* Structs, and what is held through 64 bits.                                *)

StructSources == {
  EmptyTable, 14 :> NestImage, 16 :> <<NestImage, NestImage>>,
  14 :> NestImage @@ 16 :> <<NestImage>>, 4 :> 4 @@ 6 :> PairImage,
  24 :> (0 :> <<PairImage>> @@ 8 :> 1), 20 :> <<1, 2>> @@ 26 :> <<1>>}

StructPuts == {r \in
  PutOf({<<14>>, <<16, 0>>, <<16, 2>>}, NestMaps)
    \cup PutOf({<<14, 0>>, <<14, 4, 4>>, <<14, 8>>, <<14, 12, 1>>, <<14, 12, 2>>,
                <<14, 12, 1, 0>>, <<14, 0, 0>>, <<14, 4>>, <<16, 1, 12, 0>>,
                <<16, 3, 0>>, <<16, 4, 0>>, <<24, 8>>, <<24, 0, 0>>,
                <<24, 0, 0, 4>>, <<20, 0>>, <<26, 0>>, <<6, 4>>, <<6, 4, 0>>},
               {Scalar(2)})
    \cup PutOf({<<14, 12>>, <<16, 0, 12>>, <<24, 0>>, <<20>>, <<26>>},
               {List(<<Scalar(2)>>), List(<< >>)})
    \cup PutOf({<<14, 4>>, <<16, 1, 4>>, <<24>>, <<6, 4>>},
               {Map(<<Entry(0, Scalar(2))>>), Map(<< >>)})
    \cup PutOf({<<16>>},
               {List(<<NestMap(2)>>), List(<<NestMap(2), NotWholeNestMap>>),
                List(<<TwiceNamedNestMap>>), List(<< >>)})
    \cup PutOf({<<24>>}, {Map(<<Entry(8, Scalar(2)), Entry(0, List(<<PairMap(2)>>))>>)}) :
  TRUE}

StructDeletes == {r \in
  {[path |-> p] : p \in
    {<<14>>, <<14, 4>>, <<14, 12, 0>>, <<16>>, <<16, 0>>, <<16, 1>>, <<16, 0, 4>>,
     <<24>>, <<24, 0, 0>>, <<20>>, <<20, 0>>, <<26>>, <<26, 0>>, <<6>>, <<6, 4>>}} :
  TRUE}

-----------------------------------------------------------------------------

\* Each family of requests is made of the buffers it has something to edit in.
HoldsStruct(t) ==
  DOMAIN t \cap {14, 16, 24, 26} # {} \/ Get(t, 4, 0) = 4
MCSources == TableSources \cup StructSources
MCPuts(t) ==
  (IF t = EmptyTable \/ HoldsStruct(t) THEN StructPuts ELSE {})
    \cup (IF HoldsStruct(t) THEN {} ELSE TablePuts)
MCDeletes(t) == IF HoldsStruct(t) THEN StructDeletes ELSE TableDeletes

Abstract == INSTANCE DocumentSpec WITH
  document <- Document(Root, buffer),
  PutRequests <- TablePuts \cup StructPuts,
  DeleteRequests <- TableDeletes \cup StructDeletes

\* The classify pass and the builders, which never share a line, come to the
\* edit the request names of what the buffer means: each outcome is the one
\* that edit calls for, and an Applied one is that edit and no other.
ImplementsDocumentSpec == Abstract!Spec
=============================================================================
