----------------------------- MODULE TwoPassPut -----------------------------
(***************************************************************************)
(* The put builder at one table (applyRequestPut).  A FlatBuffers table    *)
(* can only be started once every child it points at is finished, so the   *)
(* builder makes two passes over the schema's fields:                      *)
(*                                                                         *)
(*   generate  builds each child and pushes its offset on `offsets`;       *)
(*   build     writes the table, reading `offsets` front to back.          *)
(*                                                                         *)
(* Nothing ties an offset to its field but the order: a field one pass     *)
(* counts and the other does not hands every later field its neighbour's   *)
(* child.  One step below is one field of one pass.  A nested put is one   *)
(* step of its field, since it is this same machine on the child.          *)
(***************************************************************************)
EXTENDS TableFields

VARIABLES
  source,       \* The stored table: which fields, and each union's member.
  path,         \* The put: first step, length, and the member it names.
  pass,         \* "generate", "build" or "done".
  field,        \* The field the pass is at.
  offsets,      \* The children built, in the order they were pushed.
  offsetIndex,  \* How many of them the build pass has read.
  table,        \* What the new table holds at each field.
  member        \* The discriminant written beside each union.

vars == <<source, path, pass, field, offsets, offsetIndex, table, member>>

-----------------------------------------------------------------------------
(* The put, and the fields it names.                                         *)

Paths == [head : Field, size : 1..MaxPathSize, member : Members]

InPath(f) == path.head = f
InSource(f) == f \in source.stored

\* The put's own field and its discriminant, which the rest of the table does
\* not depend on.
Named(f) ==
  \/ InPath(f)
  \/ path.head \in Unions \cup UnionVectors /\ TypeField[path.head] = f

\* The paths classifyPut accepts at a field of each kind.
PathFits(p) ==
  CASE Kind[p.head] \in {"scalar", "string", "wideVector"} -> p.size = 1
    [] Kind[p.head] \in {"struct", "table", "vector"} -> TRUE
    [] Kind[p.head] = "union" -> p.size >= 2 /\ p.member \in TableMembers
    [] Kind[p.head] = "unionVector" -> p.size >= 3 /\ p.member \in TableMembers
    [] OTHER -> FALSE

Classified(s, p) == PathFits(p) /\ OthersCopyFaithfully(s, p)

-----------------------------------------------------------------------------
(* The generate pass.                                                        *)

\* The base an edit inside `f` is built on: what the buffer stores there.
OverStored(stored) == IF stored THEN "overlaid" ELSE "fresh"

WritesMember(f) ==
  InPath(f) /\ path.size >= 2 /\ path.member \in TableMembers

\* Only the member being written is a base for it: the bytes of another member
\* are never read as this one's.
StoresAnyMember(f) == InSource(f)                        \* mutant
StoresNamedMember(f) == InSource(f) /\ source.member[f] = path.member

CopyStored(f) ==
  IF /\ InSource(f)
     /\ Kind[f] \in OffsetKinds \cup {"utypeVector"}
     /\ f \in Unions => source.member[f] # NONE
  THEN "copied" ELSE "null"

\* A put that ends at `f` builds it from the payload; a struct or a scalar has
\* no offset, and a vector of unions no payload.
CopyPayload(f) ==
  IF \/ Kind[f] \in {"string", "table", "vector", "wideVector"}
     \/ Kind[f] = "union" /\ path.member \in TableMembers
  THEN "fresh" ELSE "null"

\* A put that goes through `f` rebuilds it around what it names.
Rebuild(f) ==
  CASE Kind[f] \in {"table", "vector"} -> OverStored(InSource(f))
    [] Kind[f] = "unionVector" /\ path.size >= 3 /\ path.member \in TableMembers
         -> OverStored(InSource(f) /\ InSource(TypeField[f]))
    [] Kind[f] = "union" /\ WritesMember(f) -> OverStored(StoresNamedMember(f))
    [] OTHER -> "null"

TerminalAtItself(f) == InPath(f) /\ path.size = 1          \* mutant
Terminal(f) ==
  InPath(f) /\ path.size = (IF Kind[f] = "union" THEN 2 ELSE 1)

GenerateFieldOffset(f) ==
  IF Kind[f] = "utypeVector" THEN "null"
    ELSE IF Terminal(f) THEN CopyPayload(f)
    ELSE IF InPath(f) THEN Rebuild(f)
    ELSE CopyStored(f)

\* Both passes decide here which fields an offset is pushed and read for.
TakesOnlyNamed(f) == InPath(f) /\ Kind[f] \in OffsetKinds      \* mutant
TakesOffset(f) == (InPath(f) \/ InSource(f)) /\ Kind[f] \in OffsetKinds

\* A put that could build nothing leaves the field as the buffer stores it.
FieldOffset(f) ==
  IF GenerateFieldOffset(f) # "null" THEN GenerateFieldOffset(f)
                                     ELSE CopyStored(f)

TypesOffset(f) ==
  IF InPath(f) /\ GenerateFieldOffset(f) # "null"
    THEN OverStored(InSource(TypeField[f]))
    ELSE IF FieldOffset(f) # "null" THEN CopyStored(TypeField[f]) ELSE "null"

PushedValueFirst(f) ==                                    \* mutant
  IF ~TakesOffset(f)
    THEN << >>
    ELSE IF Kind[f] = "unionVector"
           THEN <<Held(f, 1, FieldOffset(f)), Held(f, 0, TypesOffset(f))>>
           ELSE <<Held(f, 1, FieldOffset(f))>>
PushedTypesTwice(f) ==                                    \* mutant
  IF Kind[f] = "utypeVector" /\ InSource(f)
    THEN <<Held(f, 1, CopyStored(f))>>
    ELSE IF ~TakesOffset(f)
    THEN << >>
    ELSE IF Kind[f] = "unionVector"
           THEN <<Held(f, 0, TypesOffset(f)), Held(f, 1, FieldOffset(f))>>
           ELSE <<Held(f, 1, FieldOffset(f))>>
Pushed(f) ==
  IF ~TakesOffset(f)
    THEN << >>
    ELSE IF Kind[f] = "unionVector"
           THEN <<Held(f, 0, TypesOffset(f)), Held(f, 1, FieldOffset(f))>>
           ELSE <<Held(f, 1, FieldOffset(f))>>

GenerateField ==
  /\ pass = "generate" /\ field \in Field
  /\ offsets' = offsets \o Pushed(field)
  /\ field' = field + 1
  /\ UNCHANGED <<source, path, pass, offsetIndex, table, member>>

StartTableAtZero ==                                       \* mutant
  /\ pass = "generate" /\ field = NumFields + 1
  /\ pass' = "build" /\ field' = 0
  /\ UNCHANGED <<source, path, offsets, offsetIndex, table, member>>
StartTable ==
  /\ pass = "generate" /\ field = NumFields + 1
  /\ pass' = "build" /\ field' = 1
  /\ UNCHANGED <<source, path, offsets, offsetIndex, table, member>>

-----------------------------------------------------------------------------
(* The build pass.                                                           *)

\* The offset `n` places past the last one read.
Ahead(n) ==
  IF offsetIndex + n \in DOMAIN offsets THEN offsets[offsetIndex + n]
                                        ELSE Garbage

\* Fields an offset is read for.
AddOneOffset(f) ==
  /\ TakesOffset(f) /\ Kind[f] \notin {"union", "unionVector"}
  /\ table' = [table EXCEPT ![f] = Added(Ahead(1))]
  /\ offsetIndex' = offsetIndex + 1
  /\ UNCHANGED member

\* The discriminants' vector was pushed first.
AddUnionVector(f) ==
  /\ TakesOffset(f) /\ Kind[f] = "unionVector"
  /\ table' = [table EXCEPT ![TypeField[f]] = Added(Ahead(1)),
                            ![f] = Added(Ahead(2))]
  /\ offsetIndex' = offsetIndex + 2
  /\ UNCHANGED member

\* The discriminant goes with the value: the requested member's where the put
\* wrote one, the stored one where the union was copied.
AddUnion(f) ==
  LET hasMember == WritesMember(f) \/ InSource(f)
      discriminant == Held(f, 0, IF WritesMember(f) THEN "fresh"
                                                      ELSE "copied")
  IN  /\ TakesOffset(f) /\ Kind[f] = "union"
      /\ table' = [g \in Field |->
                     CASE g = f -> Added(Ahead(1))
                       [] g = TypeField[f] /\ hasMember -> discriminant
                       [] OTHER -> table[g]]
      /\ member' = IF WritesMember(f)
                     THEN [member EXCEPT ![f] = path.member]
                     ELSE IF InSource(f)
                            THEN [member EXCEPT ![f] = source.member[f]]
                            ELSE member
      /\ offsetIndex' = offsetIndex + 1

\* Scalars and structs are written in place.  A struct reached into is rebuilt
\* from the stored bytes, or zeroes.
AddInline(f) ==
  /\ Kind[f] \in {"scalar", "struct"} /\ (InPath(f) \/ InSource(f))
  /\ table' = [table EXCEPT ![f] = Held(f, 1,
       CASE InPath(f) /\ Kind[f] = "struct" -> OverStored(InSource(f))
         [] InPath(f) /\ Kind[f] = "scalar" -> "fresh"
         [] OTHER -> "copied")]
  /\ UNCHANGED <<offsetIndex, member>>

\* A discriminator is written with its union; a field neither stored nor put
\* stays absent.
SkipField(f) ==
  /\ ~TakesOffset(f)
  /\ Kind[f] \in {"scalar", "struct"} => ~(InPath(f) \/ InSource(f))
  /\ UNCHANGED <<table, offsetIndex, member>>

BuildField ==
  /\ pass = "build" /\ field \in Field
  /\ \/ AddOneOffset(field)
     \/ AddUnionVector(field)
     \/ AddUnion(field)
     \/ AddInline(field)
     \/ SkipField(field)
  /\ field' = field + 1
  /\ UNCHANGED <<source, path, pass, offsets>>

EndTable ==
  /\ pass = "build" /\ field = NumFields + 1
  /\ pass' = "done"
  /\ UNCHANGED <<source, path, field, offsets, offsetIndex, table, member>>

Init ==
  /\ source \in Sources /\ path \in Paths /\ Classified(source, path)
  /\ pass = "generate" /\ field = 1
  /\ offsets = << >> /\ offsetIndex = 0
  /\ table = [f \in Field |-> Absent]
  /\ member = [f \in Unions |-> NONE]

Next == GenerateField \/ StartTable \/ BuildField \/ EndTable

Spec == Init /\ [][Next]_vars

-----------------------------------------------------------------------------
(* Properties.                                                               *)

TypeOK ==
  /\ source \in Sources
  /\ path \in Paths
  /\ Classified(source, path)
  /\ pass \in {"generate", "build", "done"}
  /\ field \in 1..(NumFields + 1)
  /\ offsets \in Seq(Offsets)
  /\ offsetIndex \in Nat
  /\ table \in [Field -> Entries]
  /\ member \in [Unions -> Members]

\* What the table holds at a field was generated for that field, or for the
\* union whose discriminant the field is: no field is handed the child of a
\* neighbour, nor a read past the last offset.
EachFieldHoldsItsOwn ==
  \A f \in Field : table[f] # Absent =>
    \/ table[f].slot = 1 /\ table[f].for = f
    \/ /\ table[f].slot = 0
       /\ table[f].for \in Unions \cup UnionVectors
       /\ TypeField[table[f].for] = f

\* The assertion that ends applyRequestPut_BuildTable: every child generated
\* was read, so none is built into the buffer and lost.
EveryOffsetIsRead == pass = "done" => offsetIndex = Len(offsets)

\* A put leaves the rest of the table as it was: a field it does not name is
\* in the new table exactly where it was stored, copied; a discriminant, where
\* its value was stored.
RestIsCopied ==
  pass = "done" =>
    \A f \in Field : ~Named(f) =>
      LET kept == IF f \in Discriminators
                    THEN \E u \in Unions \cup UnionVectors :
                           TypeField[u] = f /\ u \in source.stored
                    ELSE f \in source.stored
      IN  IF kept THEN table[f].content = "copied" ELSE table[f] = Absent

\* A put writes the field it names, over what the buffer stores there exactly
\* where it goes inside that, and inside a union only over the same member.  A
\* put of the whole field keeps none of the old value, but for a struct: its
\* image starts from the stored bytes, which the payload need not all replace.
NamedIsWritten ==
  pass = "done" =>
    LET head == path.head
        goesInside == path.size > (IF head \in Unions THEN 2 ELSE 1)
        storesIt ==
          /\ head \in source.stored
          /\ head \in Unions => source.member[head] = path.member
    IN  table[head].content =
          IF storesIt /\ (goesInside \/ Kind[head] = "struct") THEN "overlaid"
                                                              ELSE "fresh"

\* A union and its discriminant are written together, and a value built over
\* stored bytes keeps the discriminant those bytes were stored under.
DiscriminantMatchesValue ==
  pass = "done" =>
    /\ \A f \in Unions :
         /\ (table[f] # Absent) <=> (member[f] # NONE)
         /\ table[f].content \in {"copied", "overlaid"} =>
              member[f] = source.member[f]
         /\ table[f].content = "fresh" => member[f] = path.member
    /\ \A f \in UnionVectors :
         (table[f] # Absent) => (table[TypeField[f]] # Absent)
=============================================================================
