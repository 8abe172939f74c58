-------------------------- MODULE MCTwoPassDelete --------------------------
(* The table of MCTwoPassPut, with a vector of 64-bit length in place of the *)
(* one held through a 64-bit offset, which the build pass treats apart.      *)
EXTENDS TwoPassDelete

MCKind == <<"struct", "unionVector", "utypeVector", "scalar", "table",
            "union", "utype", "vector64", "vector">>
MCTypeField == <<1, 3, 3, 4, 5, 7, 7, 8, 9>>
MCNumFields == 9
=============================================================================
