---------------------------- MODULE MCSaveSession ----------------------------
(* Model values for checking SaveSession: requests of up to three fields  *)
(* mixing a text field, a file that fits the default memory threshold and *)
(* one that spills to disk; both entry points.                            *)
EXTENDS SaveSession

T1 == [name |-> "n1", kind |-> "text", content |-> <<"a">>]
F1 == [name |-> "n1", kind |-> "file", content |-> <<"a">>]
F2 == [name |-> "n2", kind |-> "file", content |-> <<"t", "a", "a">>]

MCRequests == BoundedSeq({T1, F1, F2}, 3)
MCSizeLimits == {None, 1}
MCCountLimits == {None, 0, 1}
=============================================================================
