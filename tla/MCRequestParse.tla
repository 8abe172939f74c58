---------------------------- MODULE MCRequestParse ----------------------------
(* Requests of the sample schema, each written as the grammar has it, and with *)
(* a token left out, a space, a repeated token or a mark put in.               *)
EXTENDS ParsedRequests, SampleSchema

CONSTANT TrailingCommas  \* Whether lists of tables also end in a comma.

MCPayloadBytes(payload) == IF payload.kind = "string" THEN 1 ELSE 2
MCStructs == {"Pair", "Nest", "Rig"}
\* A list of structs is no longer than a vector of them may be (structListFits).
MCFlexFits(f, ofElement, payload) ==
  IF ofElement THEN ElementFits(f, payload)
  ELSE /\ PayloadFits(f, payload)
       /\ f.base = "Vector" /\ f.element = "Struct" =>
            Len(payload.value) * ElementBytes["Struct"] <= Largest
MCTableReads(def, payload) == payload.kind = "table" /\ payload.of = def

-----------------------------------------------------------------------------
(* The requests.                                                             *)

Put(steps, payload) == [op |-> "put", path |-> steps, payload |-> payload]
Delete(steps) == [op |-> "delete", path |-> steps]
Patch(steps, updates) == [op |-> "patch", path |-> steps, updates |-> updates]

Leaf(n) == TableOf("Leaf", 4 :> n)
Other(n) == TableOf("Other", 4 :> n)
ListOf(of, payloads) == [kind |-> "list", of |-> of, value |-> payloads]

SamplePuts ==
  {Put(p, x) :
     p \in {<<6, 2>>, <<6, 3>>, <<6, 1>>, <<6, 4>>, <<6>>, <<10, 0, 2>>,
            <<10, 1, 3>>, <<10, 0>>, <<10>>, <<12, 0>>, <<12, 4>>, <<22>>},
     x \in {Leaf(2), Other(2)}}
  \cup {Put(p, x) :
     p \in {<<6, 2, 4>>, <<10, 0, 2, 6, 1>>, <<12, 1, 6, 1>>, <<12, 2, 6, 2>>,
            <<12, 0, 6, 4>>, <<14, 0>>, <<14, 12, 1>>, <<14, 12, 2>>,
            <<14, 4, 4>>, <<16, 1, 0>>, <<20, 0>>, <<24, 0, 0, 4>>, <<26, 0>>,
            <<4>>, <<8, 0>>, <<18>>, <<18, 0>>, <<22, 8>>},
     x \in {Scalar(2), String(<<2>>)}}
  \cup {Put(p, x) :
     p \in {<<20>>, <<26>>, <<14, 12>>, <<24, 0>>, <<22, 6>>},
     x \in {List(<<Scalar(2)>>), List(<<Scalar(2), String(<<2>>)>>)}}
  \cup {Put(<<12>>, ListOf("Leaf", x)) :
     x \in {<< >>, <<Leaf(2)>>, <<Leaf(2), Leaf(3)>>, <<Leaf(2), Other(3)>>}}
  \cup {Put(<<14>>, NestMap(2)), Put(<<16, 0>>, Map(<< >>)),
        Put(<<14>>, Map(<< >>)), Put(<<16>>, List(<<NestMap(2)>>)),
        Put(<<16>>, List(<<NotWholeNestMap>>))}
  \cup {Put(p, List(SubSeq(<<x, x, x, x, x>>, 1, n))) :
     <<p, x>> \in {<< <<16>>, NestMap(2) >>, << <<20>>, Scalar(2) >>},
     n \in {Largest, Largest + 1}}

SampleDeletes ==
  {Delete(p) :
     p \in {<<6>>, <<6, 2>>, <<6, 1>>, <<6, 4>>, <<6, 2, 4>>, <<10>>, <<10, 1>>,
            <<10, 1, 3>>, <<10, 0, 2, 6, 0>>, <<12, 9>>, <<12, 128>>, <<12, 127>>, <<12, 0, 4>>, <<14>>,
            <<14, 0>>, <<14, 12, 0>>, <<16, 0>>, <<16, 0, 4>>, <<18>>, <<20, 0>>,
            <<22, 6, 1>>, <<24, 0>>, <<26>>, <<26, 0>>, <<4>>, <<8, 0>>, <<99>>}}

SamplePatches ==
  {Patch(<< >>, << >>), Patch(<<22>>, << >>), Patch(<<12>>, << >>), Patch(<<6>>, << >>),
   Patch(<<18>>, << >>), Patch(<<24, 0, 0>>, << >>), Patch(<<12, 4>>, << >>),
   Patch(<< >>, <<Put(<<18>>, String(<<2>>)), Delete(<<20>>)>>),
   Patch(<<22>>, <<Put(<<4>>, Scalar(2)), Delete(<<6, 0>>)>>),
   Patch(<<22>>, <<Delete(<<18>>)>>),
   Patch(<<6, 2>>, <<Put(<<6, 3>>, Scalar(2))>>),
   Patch(<<12, 1>>, <<Put(<<6, 1>>, Scalar(2)), Put(<<6, 3>>, Scalar(2))>>),
   Patch(<<10, 0, 3>>, <<Delete(<<4>>)>>),
   Patch(<<14>>, <<Put(<<4, 0>>, Scalar(2))>>),
   Patch(<<16, 0>>, <<Delete(<<0>>)>>),
   Patch(<< >>, <<Patch(<<14>>, <<Patch(<<4>>, <<Put(<<4>>, Scalar(2))>>),
                                  Put(<<0>>, Scalar(2))>>),
                  Put(<<12>>, ListOf("Leaf", <<Leaf(2)>>)),
                  Patch(<< >>, <<Delete(<<6>>)>>)>>)}

MCRequests == {r \in SamplePuts \cup SampleDeletes \cup SamplePatches : TRUE}

-----------------------------------------------------------------------------
(* Their texts.                                                              *)

Dropped(s) == {SubSeq(s, 1, i - 1) \o SubSeq(s, i + 1, Len(s)) : i \in DOMAIN s}
Inserted(s, token) ==
  {SubSeq(s, 1, i) \o <<token>> \o SubSeq(s, i + 1, Len(s)) : i \in DOMAIN s}
Repeated(s) == {SubSeq(s, 1, i) \o SubSeq(s, i, Len(s)) : i \in DOMAIN s}
Variants(s) ==
  {s} \cup Dropped(s) \cup Repeated(s) \cup Inserted(s, Space)
    \cup Inserted(s, Mark("}")) \cup Inserted(s, Mark("["))
    \cup {s \o <<Index(2)>>}
EndingInCommas(r) ==
  IF TrailingCommas /\ r.op = "put" /\ r.payload.kind = "list" /\ r.payload.of # ""
    THEN Inserted(RequestTokens(Root, r), Mark(",")) ELSE {}

MCTexts ==
  {s \in UNION {Variants(RequestTokens(Root, r)) \cup EndingInCommas(r) :
                  r \in Requests} : TRUE}

RECURSIVE PayloadsIn(_)
PayloadsIn(r) ==
  CASE r.op = "put" ->
         IF r.payload.kind = "list" /\ r.payload.of # ""
           THEN {r.payload.value[i] : i \in DOMAIN r.payload.value} ELSE {r.payload}
    [] r.op = "delete" -> {}
    [] r.op = "patch" -> UNION {PayloadsIn(r.updates[i]) : i \in DOMAIN r.updates}
MCPayloads == {x \in UNION {PayloadsIn(r) : r \in Requests} : TRUE}

\* Everything the paths reach, stored; nothing; and all but what they name.
MCSources == {
  << >>,
  4 :> 2 @@ 6 :> (4 :> 1 @@ 6 :> <<1, 2>>) @@ 8 :> <<2, 3>>
    @@ 10 :> <<6 :> <<1>>, 4 :> 1>> @@ 12 :> <<4 :> 1, 6 :> <<1>>>>
    @@ 18 :> <<7>> @@ 20 :> <<1>> @@ 22 :> (6 :> <<1, 2>>) @@ 26 :> <<1>>,
  4 :> 1 @@ 6 :> <<7>> @@ 8 :> <<1>> @@ 10 :> <<<<7>>>> @@ 22 :> (4 :> 1)}
=============================================================================
