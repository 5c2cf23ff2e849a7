---------------------------- MODULE ResultAlgebra ----------------------------
(***************************************************************************)
(* The combinators of SaveResult<S, P> where P: Into<S> in                 *)
(* src/server/save.rs, as operators over the records of SaveResult.  Into *)
(* is the conversion of a Partial payload into an S: for an               *)
(* EntriesSaveResult it is Into<Entries> for PartialEntries, which drops  *)
(* the partial field; for a FieldSaveResult (P = S) it is the identity.   *)
(* io::Result<S> is a record with `ok` TRUE (and `val`) or FALSE (and     *)
(* `err`); Option<S> is a value or None.                                  *)
(***************************************************************************)
EXTENDS SaveResult

Ok(v)  == [ok |-> TRUE, val |-> v]
Err(e) == [ok |-> FALSE, err |-> e]

(* Bug variant of EntriesInto: the partial field is not discarded.        *)
EntriesIntoKeepsPartial(pe) == pe

(* Into<Entries> for PartialEntries: keep the entries, discard the        *)
(* partial field.                                                         *)
EntriesInto(pe) == pe.entries

(* P::into() for the Partial payloads of a result whose payload kind is   *)
(* k: "entries" (EntriesSaveResult) or "data" (FieldSaveResult, P = S).   *)
Into(k, p) == IF k = "entries" THEN EntriesInto(p) ELSE p

(* SaveResult::map: Full and Partial payloads through the function f, the *)
(* Partial one converted first, its reason kept; Error as it is.          *)
MapResult(r, f, k) ==
    CASE IsFull(r)    -> Full(f[r.val])
      [] IsPartial(r) -> Partial(f[Into(k, r.val)], r.reason)
      [] OTHER        -> r

(* into_opt_both: (Option<S>, Option<io::Error>); a Partial reports its    *)
(* error only when its reason is IoError.                                 *)
IntoOptBoth(r, k) ==
    CASE IsFull(r)    -> <<r.val, None>>
      [] IsPartial(r) -> <<Into(k, r.val), IF IsIoError(r.reason) THEN r.reason ELSE None>>
      [] OTHER        -> <<None, r.reason>>

(* okish: the first half of into_opt_both.                                *)
Okish(r, k) == IntoOptBoth(r, k)[1]

(* into_result: a Partial is Ok whatever its reason.                       *)
IntoResult(r, k) ==
    CASE IsFull(r)    -> Ok(r.val)
      [] IsPartial(r) -> Ok(Into(k, r.val))
      [] OTHER        -> Err(r.reason)

(* into_result_strict: a Partial is Err when its reason is IoError, Ok    *)
(* otherwise (CountLimit, SizeLimit).                                     *)
IntoResultStrict(r, k) ==
    CASE IsFull(r)    -> Ok(r.val)
      [] IsPartial(r) -> IF IsIoError(r.reason) THEN Err(r.reason)
                                                ELSE Ok(Into(k, r.val))
      [] OTHER        -> Err(r.reason)

(* EntriesSaveResult::into_entries: the entries of Full or Partial.       *)
IntoEntries(r) ==
    CASE IsFull(r)    -> r.val
      [] IsPartial(r) -> r.val.entries
      [] OTHER        -> None

(* The S an io::Result carries, as an Option.                             *)
OkValue(res) == IF res.ok THEN res.val ELSE None
=============================================================================
