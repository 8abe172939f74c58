---------------------------- MODULE MCTwoPassPut ----------------------------
(* A table of one field of each kind the builders tell apart, a union and a  *)
(* vector of unions among them with fields on either side, in name order as  *)
(* a schema lists them.                                                      *)
EXTENDS TwoPassPut

MCKind == <<"struct", "unionVector", "utypeVector", "scalar", "table",
            "union", "utype", "wideVector", "vector">>
MCTypeField == <<1, 3, 3, 4, 5, 7, 7, 8, 9>>
MCNumFields == 9
=============================================================================
