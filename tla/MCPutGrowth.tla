------------------------------ MODULE MCPutGrowth ------------------------------
(* Words of four and seven bits, the first indices and the last of the narrow   *)
(* one, paths through up to two vectors into an inline one or to a whole one,  *)
(* and bounds on both sides of Largest.                                        *)
EXTENDS PutGrowth

Offsets == [index : {0, 1, Word32 - 1}, stored : {0, 2},
            kind : {"offset"}, bytes : {1}]
Inline == [index : {0, 3, Word32 - 1}, stored : {0, 5},
           kind : {"inline"}, bytes : {1, 2}]
Wholes == [count : {1, 2, Word32 - 1}, bytes : {1, 3, MostElementBytes}]
NoList == [count |-> 0, bytes |-> 1]

Through == {<< >>} \cup {<<o>> : o \in Offsets}
             \cup {<<o, p>> : o, p \in Offsets}
MCPuts ==
  {[path |-> Append(p, i), whole |-> NoList] : p \in Through, i \in Inline}
    \cup {[path |-> p, whole |-> l] : p \in Through, l \in Wholes \cup {NoList}}
=============================================================================
