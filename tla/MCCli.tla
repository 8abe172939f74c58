--------------------------------- MODULE MCCli ---------------------------------
(* Two files beside the standard streams.  A buffer is two blocks, of which    *)
(* the first alone still verifies as one but holds less; a delete leaves one   *)
(* that no longer stores what it deletes.                                      *)
EXTENDS Cli

Schema == <<"schema">>
Stored == <<"head", "field">>
Deleted == <<"head", "none">>

MCBlocks == {"schema", "head", "field", "none"}
MCContents == {Schema, Stored, << >>}
MCRequests == {"put", "delete", "malformed"}
MCSchemas == {Schema}
MCBuffers == [s \in MCSchemas |-> {Stored, Deleted, <<"head">>}]
MCParses(s, r) == r # "malformed"
MCApply(s, b, r) ==
  IF r = "put" THEN [outcome |-> "Applied", root |-> Stored]
  ELSE IF b = Stored THEN [outcome |-> "Applied", root |-> Deleted]
  ELSE [outcome |-> "NotStored", root |-> << >>]

MCArguments ==
  [fails : {FALSE}, help : {FALSE}, inPlace : BOOLEAN, schema : {"a", None},
   output : {None, "a", "b"}, request : MCRequests \cup {None},
   input : {Stdin, "b"}]
    \cup [fails : BOOLEAN, help : {TRUE}, inPlace : {FALSE}, schema : {None},
          output : {None}, request : {None}, input : {Stdin}]
=============================================================================
