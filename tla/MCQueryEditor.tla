--------------------------- MODULE MCQueryEditor ---------------------------
(* QueryEditor on small texts.                                             *)
EXTENDS QueryEditor

MCTyped == {"x", "("}
MCTexts == {<< <<"x">>, <<>> >>}
=============================================================================
