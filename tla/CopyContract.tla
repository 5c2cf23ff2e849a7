---------------------------- MODULE CopyContract ----------------------------
(***************************************************************************)
(* The results a copy out of a field body may return (write_to,           *)
(* try_copy_limited, try_copy_buf in src/server/save.rs), as operators.   *)
(* CopySpec states the contract as a one-step specification, which the    *)
(* detailed Copier is checked to implement; FieldSave uses the operators  *)
(* to take each copy as one step.                                          *)
(***************************************************************************)
EXTENDS Naturals, Sequences, SaveResult

Lesser(a, b) == IF a <= b THEN a ELSE b

(* How many bytes a copy of body c under limit lim may move at most.      *)
Copyable(c, lim) == IF lim = None THEN Len(c) ELSE Lesser(lim, Len(c))

(* The result of a copy that saw no failure.                              *)
Done(c, lim) ==
    IF lim # None /\ Len(c) > lim THEN Partial(lim, "SizeLimit")
                                  ELSE Full(Len(c))

(* Every result of a copy whose failures have a kind in kinds.            *)
Outcomes(c, lim, kinds) ==
    {Done(c, lim)}
    \cup {Error(k) : k \in kinds}
    \cup {Partial(n, k) : n \in 0 .. Copyable(c, lim), k \in kinds}

(* The number of bytes a result says were moved.                          *)
Moved(o) == IF IsError(o) THEN 0 ELSE Payload(o)

Take(s, n) == SubSeq(s, 1, n)
Drop(s, n) == SubSeq(s, n + 1, Len(s))
=============================================================================
