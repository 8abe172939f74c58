--------------------------- MODULE TwoPassDelete ---------------------------
(***************************************************************************)
(* The delete builder at one table (applyRequestDelete), two passes as in  *)
(* TwoPassPut, but they count by different rules: the generate pass pushes *)
(* an offset only where it built one, and the build pass reads one for     *)
(* every field it finds present.  The rules agree only on what the         *)
(* classify pass lets through: a stored union no member of which can be    *)
(* read is present, yet builds nothing.                                    *)
(***************************************************************************)
EXTENDS TableFields

VARIABLES
  source,       \* The stored table: which fields, and each union's member.
  path,         \* The delete: first step, length, and the member it names.
  pass,         \* "generate", "build" or "done".
  field,        \* The field the pass is at.
  offsets,      \* The children built, in the order they were pushed.
  offsetIndex,  \* How many of them the build pass has read.
  table,        \* What the new table holds at each field.
  member        \* The discriminant written beside each union.

vars == <<source, path, pass, field, offsets, offsetIndex, table, member>>

-----------------------------------------------------------------------------
(* The delete.  `holds` is the discriminant of the element the path's index  *)
(* selects, where it goes into a vector of unions.                           *)

Paths ==
  [head : Field, size : 1..MaxPathSize, member : Members, holds : Members]

InPath(f) == path.head = f
InSource(f) == f \in source.stored

Named(f) ==
  \/ InPath(f)
  \/ path.head \in Unions \cup UnionVectors /\ TypeField[path.head] = f

\* The paths classifyDelete finds stored, at a field of each kind.  A vector
\* may hold tables, so a path may go on inside an element.
PathFits(s, p) ==
  /\ p.head \in s.stored
  /\ CASE Kind[p.head] \in {"scalar", "string", "struct", "wideVector",
                            "vector64"} -> p.size = 1
       [] Kind[p.head] \in {"table", "vector"} -> TRUE
       [] Kind[p.head] = "union" ->
            p.size >= 2 => /\ p.member \in TableMembers
                           /\ s.member[p.head] = p.member
       [] Kind[p.head] = "unionVector" ->
            p.size >= 3 => p.member \in TableMembers /\ p.holds = p.member
       [] OTHER -> FALSE

Classified(s, p) == PathFits(s, p) /\ OthersCopyFaithfully(s, p)

\* The path stops at the union, or at the member it holds.
DeletesWholeUnion(f) ==
  path.size = 1 \/ (path.size = 2 /\ source.member[f] = path.member)

\* The path stops at the element, or at the member the element holds.
DeletesWholeElement(f) ==
  /\ InSource(f) /\ InSource(TypeField[f])
  /\ path.size = 2 \/ (path.size = 3 /\ path.holds = path.member)

-----------------------------------------------------------------------------
(* The generate pass.                                                        *)

CopyStored(f) ==
  IF /\ InSource(f)
     /\ Kind[f] \in OffsetKinds \cup {"utypeVector"}
     /\ f \in Unions => source.member[f] # NONE
  THEN "copied" ELSE "null"

\* What a delete through `f`, a stored field, leaves of it: an element fewer,
\* or the field with something deleted inside; nothing where it goes whole.
Rebuild(f) ==
  CASE Kind[f] = "table" -> IF path.size = 1 THEN "null" ELSE "overlaid"
    [] Kind[f] = "union" ->
         IF DeletesWholeUnion(f) THEN "null"
         ELSE IF path.member \in TableMembers /\ source.member[f] = path.member
           THEN "overlaid" ELSE CopyStored(f)
    [] Kind[f] = "vector" ->
         IF path.size = 1 THEN "null"
         ELSE IF path.size = 2 THEN "shortened" ELSE "overlaid"
    [] Kind[f] = "unionVector" ->
         IF path.size = 1 THEN "null"
         ELSE IF DeletesWholeElement(f) THEN "shortened" ELSE "overlaid"
    [] OTHER -> "null"

FieldOffset(f) ==
  IF f \in Discriminators THEN "null"
    ELSE IF InPath(f) THEN IF InSource(f) THEN Rebuild(f) ELSE "null"
    ELSE CopyStored(f)

\* The discriminants lose the element its vector loses.
KeepsTypes(f) == CopyStored(TypeField[f])                 \* mutant
TypesOffset(f) ==
  IF InPath(f) /\ path.size >= 2 /\ DeletesWholeElement(f)
    THEN "shortened" ELSE CopyStored(TypeField[f])

PushedTypesAlways(f) ==                                   \* mutant
  CASE Kind[f] = "unionVector" /\ InSource(f)
         -> <<Held(f, 0, TypesOffset(f))>> \o
            (IF FieldOffset(f) = "null" THEN << >>
                                        ELSE <<Held(f, 1, FieldOffset(f))>>)
    [] Kind[f] # "unionVector" /\ FieldOffset(f) # "null"
         -> <<Held(f, 1, FieldOffset(f))>>
    [] OTHER -> << >>

\* Only what was built is pushed.
Pushed(f) ==
  IF FieldOffset(f) = "null"
    THEN << >>
    ELSE IF Kind[f] = "unionVector"
           THEN <<Held(f, 0, TypesOffset(f)), Held(f, 1, FieldOffset(f))>>
           ELSE <<Held(f, 1, FieldOffset(f))>>

GenerateField ==
  /\ pass = "generate" /\ field \in Field
  /\ offsets' = offsets \o Pushed(field)
  /\ field' = field + 1
  /\ UNCHANGED <<source, path, pass, offsetIndex, table, member>>

StartTableAtZero ==                                       \* mutant
  /\ pass = "generate" /\ field = NumFields + 1
  /\ pass' = "build" /\ field' = 0
  /\ UNCHANGED <<source, path, offsets, offsetIndex, table, member>>
StartTable ==
  /\ pass = "generate" /\ field = NumFields + 1
  /\ pass' = "build" /\ field' = 1
  /\ UNCHANGED <<source, path, offsets, offsetIndex, table, member>>

-----------------------------------------------------------------------------
(* The build pass.                                                           *)

DeletedWhole(f) ==
  /\ InPath(f)
  /\ CASE Kind[f] \in {"table", "struct", "vector", "wideVector",
                       "unionVector", "utypeVector"} -> path.size = 1
       [] Kind[f] = "union" -> DeletesWholeUnion(f)
       [] OTHER -> TRUE

PresentUnlessNamed(f) == InSource(f) /\ ~InPath(f)        \* mutant
PresentIfStored(f) == InSource(f)                         \* mutant
Present(f) == InSource(f) /\ ~DeletedWhole(f)

\* The offset `n` places past the last one read.
Ahead(n) ==
  IF offsetIndex + n \in DOMAIN offsets THEN offsets[offsetIndex + n]
                                        ELSE Garbage

AddOneOffset(f) ==
  /\ Present(f) /\ Kind[f] \in OffsetKinds \ {"union", "unionVector"}
  /\ table' = [table EXCEPT ![f] = Added(Ahead(1))]
  /\ offsetIndex' = offsetIndex + 1
  /\ UNCHANGED member

AddUnionVector(f) ==
  /\ Present(f) /\ Kind[f] = "unionVector"
  /\ table' = [table EXCEPT ![TypeField[f]] = Added(Ahead(1)),
                            ![f] = Added(Ahead(2))]
  /\ offsetIndex' = offsetIndex + 2
  /\ UNCHANGED member

\* The union survives as the member it was.
AddUnion(f) ==
  /\ Present(f) /\ Kind[f] = "union"
  /\ table' = [table EXCEPT ![TypeField[f]] = Held(f, 0, "copied"),
                            ![f] = Added(Ahead(1))]
  /\ member' = [member EXCEPT ![f] = source.member[f]]
  /\ offsetIndex' = offsetIndex + 1

AddInline(f) ==
  /\ \/ Kind[f] = "struct" /\ Present(f)
     \/ Kind[f] = "scalar" /\ InSource(f) /\ ~InPath(f)
  /\ table' = [table EXCEPT ![f] = Held(f, 1, "copied")]
  /\ UNCHANGED <<offsetIndex, member>>

SkipField(f) ==
  /\ \/ ~Present(f)
     \/ f \in Discriminators
  /\ UNCHANGED <<table, offsetIndex, member>>

BuildField ==
  /\ pass = "build" /\ field \in Field
  /\ \/ AddOneOffset(field)
     \/ AddUnionVector(field)
     \/ AddUnion(field)
     \/ AddInline(field)
     \/ SkipField(field)
  /\ field' = field + 1
  /\ UNCHANGED <<source, path, pass, offsets>>

EndTable ==
  /\ pass = "build" /\ field = NumFields + 1
  /\ pass' = "done"
  /\ UNCHANGED <<source, path, field, offsets, offsetIndex, table, member>>

Init ==
  /\ source \in Sources /\ path \in Paths /\ Classified(source, path)
  /\ pass = "generate" /\ field = 1
  /\ offsets = << >> /\ offsetIndex = 0
  /\ table = [f \in Field |-> Absent]
  /\ member = [f \in Unions |-> NONE]

Next == GenerateField \/ StartTable \/ BuildField \/ EndTable

Spec == Init /\ [][Next]_vars

-----------------------------------------------------------------------------
(* Properties.                                                               *)

TypeOK ==
  /\ source \in Sources
  /\ path \in Paths
  /\ Classified(source, path)
  /\ pass \in {"generate", "build", "done"}
  /\ field \in 1..(NumFields + 1)
  /\ offsets \in Seq(Offsets)
  /\ offsetIndex \in Nat
  /\ table \in [Field -> Entries]
  /\ member \in [Unions -> Members]

\* What the table holds at a field was generated for that field, or for the
\* union whose discriminant the field is, though the two passes decide by
\* different rules which fields have an offset.
EachFieldHoldsItsOwn ==
  \A f \in Field : table[f] # Absent =>
    \/ table[f].slot = 1 /\ table[f].for = f
    \/ /\ table[f].slot = 0
       /\ table[f].for \in Unions \cup UnionVectors
       /\ TypeField[table[f].for] = f

\* The assertion that ends applyRequestDelete: every child generated was read.
EveryOffsetIsRead == pass = "done" => offsetIndex = Len(offsets)

\* A delete leaves the rest of the table as it was.
RestIsCopied ==
  pass = "done" =>
    \A f \in Field : ~Named(f) =>
      LET kept == IF f \in Discriminators
                    THEN \E u \in Unions \cup UnionVectors :
                           TypeField[u] = f /\ u \in source.stored
                    ELSE f \in source.stored
      IN  IF kept THEN table[f].content = "copied" ELSE table[f] = Absent

\* A delete that stops at a field, or at the member a union holds, removes the
\* field; one that goes further leaves it, an element shorter or edited inside,
\* and never as it was.
NamedIsDeleted ==
  pass = "done" =>
    LET whole == \/ path.size = 1
                 \/ path.size = 2 /\ Kind[path.head] = "union"
    IN  IF whole THEN table[path.head] = Absent
                 ELSE table[path.head].content \in {"shortened", "overlaid"}

\* A union goes, or stays, together with its discriminant, which is the one it
\* was stored under; a vector of unions loses an element exactly when its
\* discriminants do.
DiscriminantMatchesValue ==
  pass = "done" =>
    /\ \A f \in Unions :
         /\ (table[f] # Absent) <=> (table[TypeField[f]] # Absent)
         /\ table[f] # Absent => member[f] = source.member[f]
    /\ \A f \in UnionVectors :
         /\ (table[f] # Absent) <=> (table[TypeField[f]] # Absent)
         /\ table[f].content = "shortened" <=>
              table[TypeField[f]].content = "shortened"
=============================================================================
