------------------------------ MODULE CopySpec ------------------------------
(***************************************************************************)
(* What a copy out of a field's body promises its caller (write_to,       *)
(* try_copy_limited and try_copy_buf in src/server/save.rs): in one step   *)
(* the first n bytes of the body move, in order, to the destination and    *)
(* the rest stays unconsumed in the body, and the result reports n:        *)
(*   - Full(n) when the body ended within the limit,                      *)
(*   - Partial(limit, SizeLimit) when more than limit bytes were there,   *)
(*   - Partial(n, IoError) or Error (n = 0) when a read or write failed.  *)
(***************************************************************************)
EXTENDS CopyContract

CONSTANTS
    Contents,   \* the field bodies a copy may start on
    Limits,     \* size limits: naturals, or None for no limit
    Fallible    \* TRUE iff the reader or the writer may fail

VARIABLES
    content,    \* the whole body at the start of the copy
    limit,      \* the limit of this copy
    src,        \* the unconsumed rest of the body
    dest,       \* the bytes in the destination
    result      \* None until the copy has returned

vars == <<content, limit, src, dest, result>>

(* An I/O failure of any kind is "Io" here.                               *)
IoFailures == IF Fallible THEN {"Io"} ELSE {}

Init ==
    /\ content \in Contents
    /\ limit \in Limits
    /\ src = content
    /\ dest = <<>>
    /\ result = None

Copy ==
    /\ result = None
    /\ \E o \in Outcomes(content, limit, IoFailures) :
          /\ dest' = Take(src, Moved(o))
          /\ src' = Drop(src, Moved(o))
          /\ result' = o
    /\ UNCHANGED <<content, limit>>

Spec == Init /\ [][Copy]_vars
=============================================================================
