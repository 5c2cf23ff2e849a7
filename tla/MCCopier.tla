------------------------------ MODULE MCCopier ------------------------------
(* Model values for checking Copier: bodies of 0 to 3 distinct bytes,     *)
(* limits below, at and above their lengths, and up to two failures.      *)
EXTENDS Copier

MCContents == {<<>>, <<"b1">>, <<"b1", "b2">>, <<"b1", "b2", "b3">>}
MCLimits   == {None, 0, 1, 2}
=============================================================================
