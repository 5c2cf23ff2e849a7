------------------------------ MODULE MCSaveAll ------------------------------
(* Model values for checking SaveAll: requests of up to three fields over *)
(* two names, mixing a text field, a file that fits the default memory    *)
(* threshold, one that spills to disk, and one whose buffered prefix is   *)
(* valid UTF-8; count limits below, at and above the number of files.     *)
EXTENDS SaveAll

T1 == [name |-> "n1", kind |-> "text", content |-> <<"a">>]
F1 == [name |-> "n1", kind |-> "file", content |-> <<"a">>]
F2 == [name |-> "n2", kind |-> "file", content |-> <<"t", "a", "a">>]
F3 == [name |-> "n1", kind |-> "file", content |-> <<"a", "a", "a">>]

MCRequests == BoundedSeq({T1, F1, F2, F3}, 3)
MCSizeLimits == {None, 1, 3}
MCCountLimits == {None, 0, 1, 2}
=============================================================================
