------------------------------- MODULE Copier -------------------------------
(***************************************************************************)
(* The streaming copy primitives of src/server/save.rs:                   *)
(*   try_copy_limited(src, dest, limit)  -- copy through src.take(limit), *)
(*                                          then peek for one more byte;  *)
(*   try_copy_buf(src, dest)             -- the fill_buf/write/consume    *)
(*                                          loop;                         *)
(*   try_write_all(buf, dest)            -- write a buffer out fully.     *)
(* The body is a BufReader: fill_buf returns the bytes already buffered,  *)
(* or, when none are, refills with one read of the connection, which may  *)
(* return any non-empty prefix of what is left, or fail.  A write may     *)
(* write any non-empty prefix of its buffer, return 0, or fail.  Failures *)
(* are io::ErrorKinds; Interrupted is the one the loops retry.            *)
(***************************************************************************)
EXTENDS CopyContract

CONSTANTS
    Contents,     \* field bodies a copy may start on
    Limits,       \* None (try_copy_buf) or a limit (try_copy_limited)
    ReadFaults,   \* TRUE iff a read of the body may fail
    WriteFaults,  \* TRUE iff the destination is a file: short writes, failures
    MaxFaults     \* bound on the failures injected into one copy

ASSUME MaxFaults \in Nat

VARIABLES
    content,   \* the whole body when the copy starts
    limit,     \* the limit of try_copy_limited, None for try_copy_buf
    pending,   \* body bytes not yet consumed
    avail,     \* how many of them the BufReader holds in its buffer
    dest,      \* bytes written to the destination
    total,     \* total_copied of try_copy_buf
    chunk,     \* length of the buffer handed to try_write_all
    wdone,     \* total_copied of try_write_all
    pc,        \* "fill", "write", "peek" or "done"
    result,    \* the SaveResult returned, None while running
    faults     \* failures injected so far

vars == <<content, limit, pending, avail, dest, total, chunk, wdone, pc,
          result, faults>>

(* Take::fill_buf: nothing once limit bytes went through, else the inner  *)
(* buffer capped at what the limit still allows.                          *)
TakeExhausted == limit # None /\ total = limit
Room(n) == IF limit = None THEN n ELSE Lesser(n, limit - total)

(* The BufReader must read the connection to answer fill_buf.             *)
RefillNeeded == avail = 0 /\ ~TakeExhausted

CanFail == faults < MaxFaults

Init ==
    /\ content \in Contents
    /\ limit \in Limits
    /\ pending = content
    /\ avail = 0
    /\ dest = <<>>
    /\ total = 0
    /\ chunk = 0
    /\ wdone = 0
    /\ pc = "fill"
    /\ result = None
    /\ faults = 0

(* fill_buf returned an empty buffer: try_copy_buf breaks with Full;       *)
(* try_copy_limited goes on to peek past the limit.                       *)
EndOfInput ==
    IF limit = None THEN result' = Full(total) /\ pc' = "done"
                    ELSE pc' = "peek" /\ UNCHANGED result

(* try_copy_buf: `let buf = fill_buf()?; if buf.is_empty() { break }`,    *)
(* then hand buf to try_write_all.                                        *)
FillBuf ==
    /\ pc = "fill"
    /\ \/ /\ TakeExhausted \/ (avail = 0 /\ pending = <<>>)
          /\ EndOfInput
          /\ UNCHANGED <<avail, chunk>>
       \/ /\ avail > 0 /\ ~TakeExhausted
          /\ chunk' = Room(avail)
          /\ pc' = "write"
          /\ UNCHANGED <<avail, result>>
       \/ /\ RefillNeeded /\ pending # <<>>
          /\ \E k \in 1 .. Len(pending) :
                avail' = k /\ chunk' = Room(k)
          /\ pc' = "write"
          /\ UNCHANGED result
    /\ UNCHANGED <<content, limit, pending, dest, total, wdone, faults>>

(* The refill read fails.  Interrupted: `continue`; any other kind is      *)
(* returned, as Error if nothing was copied yet, else as Partial.         *)
ReadFails(kind) ==
    /\ pc = "fill" /\ RefillNeeded /\ ReadFaults /\ CanFail
    /\ faults' = faults + 1
    /\ IF kind = "Interrupted"
         THEN UNCHANGED <<pc, result>>
         ELSE /\ result' = IF total = 0 THEN Error(kind) ELSE Partial(total, kind)
              /\ pc' = "done"
    /\ UNCHANGED <<content, limit, pending, avail, dest, total, chunk, wdone>>

(* Bug variant of Consume: the BufReader's position is not advanced.     *)
ConsumeKeepsBuffer(n) ==
    /\ pending' = Drop(pending, n)
    /\ avail' = avail
    /\ total' = total + n

(* src.consume(n); total_copied += n                                      *)
Consume(n) ==
    /\ pending' = Drop(pending, n)
    /\ avail' = avail - n
    /\ total' = total + n

(* A vector takes the whole buffer; a file may take any non-empty prefix. *)
WriteSizes(w) == IF WriteFaults THEN 1 .. w ELSE {w}

(* Bug variant of Write: try_write_all's count of the bytes written is   *)
(* not reset for the next chunk.                                          *)
WriteNoReset ==
    /\ pc = "write"
    /\ \E k \in WriteSizes(chunk - wdone) :
          /\ dest' = dest \o SubSeq(pending, wdone + 1, wdone + k)
          /\ IF wdone + k = chunk
               THEN /\ Consume(chunk)
                    /\ chunk' = 0 /\ wdone' = wdone + k /\ pc' = "fill"
               ELSE /\ wdone' = wdone + k
                    /\ UNCHANGED <<pending, avail, total, chunk, pc>>
    /\ UNCHANGED <<content, limit, result, faults>>

(* dest.write(buf) wrote k bytes.  When the buffer is drained,            *)
(* try_write_all returns Full and try_copy_buf consumes the chunk.        *)
Write ==
    /\ pc = "write"
    /\ \E k \in WriteSizes(chunk - wdone) :
          /\ dest' = dest \o SubSeq(pending, wdone + 1, wdone + k)
          /\ IF wdone + k = chunk
               THEN /\ Consume(chunk)
                    /\ chunk' = 0 /\ wdone' = 0 /\ pc' = "fill"
               ELSE /\ wdone' = wdone + k
                    /\ UNCHANGED <<pending, avail, total, chunk, pc>>
    /\ UNCHANGED <<content, limit, result, faults>>

(* Bug variant of WriteFails: the Partial arm of try_copy_buf forgets     *)
(* src.consume(copied) for the bytes try_write_all did write.             *)
WriteFailsNoConsume(kind) ==
    /\ pc = "write" /\ WriteFaults /\ CanFail
    /\ faults' = faults + 1
    /\ IF kind = "Interrupted"
         THEN UNCHANGED <<pending, avail, total, chunk, wdone, pc, result>>
         ELSE /\ UNCHANGED <<pending, avail, total>>
              /\ result' = Partial(total + wdone, kind)
              /\ chunk' = 0 /\ wdone' = 0 /\ pc' = "done"
    /\ UNCHANGED <<content, limit, dest>>

(* dest.write(buf) returned Ok(0) ("WriteZero") or failed.  Interrupted   *)
(* is retried; otherwise try_write_all returns Error or Partial(wdone),   *)
(* and try_copy_buf consumes what was written and returns Partial.        *)
WriteFails(kind) ==
    /\ pc = "write" /\ WriteFaults /\ CanFail
    /\ faults' = faults + 1
    /\ IF kind = "Interrupted"
         THEN UNCHANGED <<pending, avail, total, chunk, wdone, pc, result>>
         ELSE /\ Consume(wdone)
              /\ result' = Partial(total + wdone, kind)
              /\ chunk' = 0 /\ wdone' = 0 /\ pc' = "done"
    /\ UNCHANGED <<content, limit, dest>>

(* try_copy_limited after the limited copy: `match src.fill_buf()`: empty *)
(* is Full, non-empty is Partial(SizeLimit).                              *)
Peek ==
    /\ pc = "peek"
    /\ \/ /\ avail > 0
          /\ result' = Partial(total, "SizeLimit")
          /\ UNCHANGED avail
       \/ /\ avail = 0 /\ pending = <<>>
          /\ result' = Full(total)
          /\ UNCHANGED avail
       \/ /\ avail = 0 /\ pending # <<>>
          /\ \E k \in 1 .. Len(pending) : avail' = k
          /\ result' = Partial(total, "SizeLimit")
    /\ pc' = "done"
    /\ UNCHANGED <<content, limit, pending, dest, total, chunk, wdone, faults>>

(* The peek's refill fails: Partial(copied, IoError(e)), with no retry.   *)
PeekFails(kind) ==
    /\ pc = "peek" /\ avail = 0 /\ ReadFaults /\ CanFail
    /\ result' = Partial(total, kind)
    /\ pc' = "done"
    /\ faults' = faults + 1
    /\ UNCHANGED <<content, limit, pending, avail, dest, total, chunk, wdone>>

ReadKinds  == {"Interrupted", "Other"}
WriteKinds == {"Interrupted", "WriteZero", "Other"}

Next ==
    \/ FillBuf
    \/ \E kind \in ReadKinds : ReadFails(kind)
    \/ Write
    \/ \E kind \in WriteKinds : WriteFails(kind)
    \/ Peek
    \/ \E kind \in ReadKinds : PeekFails(kind)

Spec == Init /\ [][Next]_vars

(* The copy loops run on the caller's thread and block only in reads and  *)
(* writes, each of which returns (data, 0 or an error; at most MaxFaults *)
(* failures are injected): while the copy has not returned, it takes a   *)
(* step.                                                                  *)
FairSpec == Spec /\ WF_vars(Next)

-----------------------------------------------------------------------------
MaxLen == LET lens == {Len(c) : c \in Contents}
          IN CHOOSE m \in lens : \A l \in lens : l <= m

TypeOK ==
    /\ content \in Contents
    /\ limit \in Limits
    /\ pending \in Seq(UNION {{c[i] : i \in DOMAIN c} : c \in Contents})
    /\ avail \in 0 .. Len(pending)
    /\ dest \in Seq(UNION {{c[i] : i \in DOMAIN c} : c \in Contents})
    /\ total \in 0 .. MaxLen
    /\ chunk \in 0 .. avail
    /\ wdone \in 0 .. chunk
    /\ pc \in {"fill", "write", "peek", "done"}
    /\ result \in Results(0 .. MaxLen) \cup {None}
    /\ faults \in 0 .. MaxFaults

(* The copy seen through the abstract CopySpec: nothing has happened      *)
(* until it returns; then the destination holds what was moved, the body  *)
(* the rest, and every io::ErrorKind reads as "Io".                       *)
AbsResult ==
    IF result = None THEN None
    ELSE IF IsError(result) THEN Error("Io")
    ELSE IF IsPartial(result) /\ IsIoError(result.reason)
         THEN Partial(Payload(result), "Io")
    ELSE result

ABS == INSTANCE CopySpec WITH
         src <- IF pc = "done" THEN pending ELSE content,
         dest <- IF pc = "done" THEN dest ELSE <<>>,
         result <- AbsResult,
         Fallible <- ReadFaults \/ WriteFaults

(* try_copy_limited/try_copy_buf implement the copy contract: the count   *)
(* they return is exactly the bytes written to the destination, those are *)
(* the body's first bytes in order, exactly they were consumed from the   *)
(* body, and the tag (Full, SizeLimit, IoError, Error) fits what happened.*)
CopyRefinesSpec == ABS!Spec

(* Every call of try_copy_limited / try_copy_buf returns (the retry loops *)
(* at lines 806 and 842 have no cap of their own): through chunked reads, *)
(* short writes and retried Interrupted reads and writes, each chunk is   *)
(* written, consumed and followed by the next until the body or the limit *)
(* ends, provided the reader and the writer fail only finitely often.     *)
CopyReturns == <>(pc = "done")

(* Interrupted reads and writes are retried and never reported (the       *)
(* spec's section 5); checked against the peek in try_copy_limited.       *)
NoInterruptedSurfaced ==
    result # None /\ ~IsFull(result) => result.reason # "Interrupted"
=============================================================================
