----------------------------- MODULE SaveResult -----------------------------
(***************************************************************************)
(* The ternary result type of src/server/save.rs (SaveResult<S, P>) and    *)
(* its PartialReason.  Values are records tagged "Full", "Partial" or      *)
(* "Error"; an io::Error is represented by its ErrorKind only, which is    *)
(* all the code ever inspects of it.                                       *)
(***************************************************************************)
EXTENDS Naturals

(* The io::ErrorKind values the code produces or tests for.  "Other"       *)
(* stands for every kind the code does not single out.                    *)
IoKinds == {"Interrupted", "WriteZero", "InvalidData", "AlreadyExists",
            "NotFound", "InvalidInput", "Other"}

(* PartialReason: CountLimit, SizeLimit or IoError(e).                     *)
Reasons == {"CountLimit", "SizeLimit"} \cup IoKinds

IsIoError(r) == r \in IoKinds

(* The absent value of an Option<_> (size_limit, count_limit, dest, ...): *)
(* a model value, so that it compares with numbers and records alike.    *)
CONSTANT None

Full(v)       == [tag |-> "Full", val |-> v]
Partial(v, r) == [tag |-> "Partial", val |-> v, reason |-> r]
Error(e)      == [tag |-> "Error", reason |-> e]

IsFull(res)    == res.tag = "Full"
IsPartial(res) == res.tag = "Partial"
IsError(res)   == res.tag = "Error"

(* Payload of a Full or Partial result.                                   *)
Payload(res) == res.val

(* Results whose payloads range over V.                                   *)
Results(V) ==
    [tag : {"Full"}, val : V]
    \cup [tag : {"Partial"}, val : V, reason : Reasons]
    \cup [tag : {"Error"}, reason : IoKinds]
=============================================================================
