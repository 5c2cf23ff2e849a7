------------------------------ MODULE FieldSave ------------------------------
(***************************************************************************)
(* Saving one file field: SaveBuilder<&mut MultipartData<M>>::with_path   *)
(* and save_mem in src/server/save.rs, the memory/disk classifier.        *)
(*   save_mem   copy at most memory_threshold bytes (size_limit bytes     *)
(*              when that is smaller) of the body into a Vec;             *)
(*   text       when the body did not fit, apply the text policy to the   *)
(*              buffered bytes;                                           *)
(*   open       create the parent directories and the file;               *)
(*   flush      try_write_all the buffered bytes to the file;             *)
(*   stream     write_to the file: the rest of the body, under size_limit.*)
(* Each copy is one step whose result is one of CopyContract's Outcomes,  *)
(* the contract the detailed Copier module is checked to implement.       *)
(* A body is a sequence of byte classes: "a" an ASCII byte, "h" the lead  *)
(* byte and "t" the continuation byte of a two-byte UTF-8 character.      *)
(***************************************************************************)
EXTENDS CopyContract, ResultAlgebra, BuilderConfig, SequencesExt

CONSTANTS
    Contents,     \* field bodies
    SizeLimits,   \* values of size_limit: None or a natural
    Thresholds,   \* values of memory_threshold
    Policies,     \* values of text_policy: subset of {"Try", "Force", "Ignore"}
    ReadKinds,    \* io::ErrorKinds a read of the body may fail with
    WriteKinds,   \* io::ErrorKinds a write to the file may fail with
    OpenFails,    \* TRUE iff create_dir_all (or open, for a reason other
                  \* than the file's existence) may fail
    OpenOpts      \* self.open_opts

VARIABLES
    content,      \* the whole body of the field
    sizeLimit,    \* self.size_limit
    threshold,    \* self.memory_threshold
    policy,       \* self.text_policy
    body,         \* the unconsumed rest of the body
    mem,          \* `bytes`, the in-memory buffer of save_mem
    disk,         \* contents of the file at `path`, None while it does not exist
    data,         \* `data`, the SavedData::File built after the flush
    stage,        \* "mem", "text", "open", "flush", "stream" or "done"
    result        \* the FieldSaveResult, None until with_path returns

vars == <<content, sizeLimit, threshold, policy, body, mem, disk, data,
          stage, result>>

(* SavedData: Text(String), Bytes(Vec<u8>), File(PathBuf, u64); one path. *)
Text(s)    == [kind |-> "Text", bytes |-> s]
Bytes(b)   == [kind |-> "Bytes", bytes |-> b]
File(size) == [kind |-> "File", size |-> size]

(* SavedData::add_size                                                    *)
AddSize(d, n) == IF d.kind = "File" THEN File(d.size + n) ELSE d

(* String::from_utf8 succeeds: the bytes split into whole characters.     *)
RECURSIVE IsUtf8(_)
IsUtf8(s) ==
    \/ s = <<>>
    \/ s[1] = "a" /\ IsUtf8(Tail(s))
    \/ Len(s) >= 2 /\ s[1] = "h" /\ s[2] = "t" /\ IsUtf8(Drop(s, 2))

(* SavedData::size                                                       *)
Size(d) == IF d.kind = "File" THEN d.size ELSE Len(d.bytes)

(* SavedData::readable, read to its end through the DataReader: the bytes *)
(* in memory, or the file at the path, which fs::File::open may not find. *)
Readable(d) ==
    CASE d.kind # "File" -> Ok(d.bytes)
      [] disk # None     -> Ok(disk)
      [] OTHER           -> Err("NotFound")

(* A copy result with its payload replaced by the SavedData d.            *)
WithData(o, d) ==
    CASE IsFull(o)    -> Full(d)
      [] IsPartial(o) -> Partial(d, o.reason)
      [] OTHER        -> Error(o.reason)

(* try_write_all of n bytes: Error only when nothing was written.         *)
WriteAllOutcomes(n, kinds) ==
    {Full(n)}
    \cup {Error(k) : k \in IF n > 0 THEN kinds ELSE {}}
    \cup {Partial(m, k) : m \in 1 .. n - 1, k \in kinds}

(* A write of the bytes bs at offset pos of the file f: it overwrites,   *)
(* extends, and fills a gap past the end with zero bytes (ASCII "a").     *)
WriteAt(f, pos, bs) ==
    [i \in 1 .. Max({Len(f), pos + Len(bs)}) |->
        CASE i > pos /\ i <= pos + Len(bs) -> bs[i - pos]
          [] i <= Len(f)                   -> f[i]
          [] OTHER                         -> "a"]

Finish(r) == result' = r /\ stage' = "done"

Init ==
    /\ content \in Contents
    /\ sizeLimit \in SizeLimits
    /\ threshold \in Thresholds
    /\ policy \in Policies
    /\ body = content
    /\ mem = <<>>
    /\ disk = None
    /\ data = None
    /\ stage = "mem"
    /\ result = None

(* save_mem, and the `try_full!(self.save_mem())` match of with_path:     *)
(* a body that ended within the buffer's limit returns Full(bytes) as it  *)
(* is; only SizeLimit on the threshold copy goes on to the disk path.     *)
SaveMem ==
    /\ stage = "mem"
    /\ LET small == sizeLimit # None /\ sizeLimit < threshold
           lim   == IF small THEN sizeLimit ELSE threshold
       IN \E o \in Outcomes(body, lim, ReadKinds) :
             /\ mem' = Take(body, Moved(o))
             /\ body' = Drop(body, Moved(o))
             /\ IF ~small /\ IsPartial(o) /\ o.reason = "SizeLimit"
                  THEN stage' = "text" /\ UNCHANGED result
                  ELSE Finish(WithData(o, Bytes(mem')))
    /\ UNCHANGED <<content, sizeLimit, threshold, policy, disk, data>>

(* The text_policy match on the buffered bytes of a body that did not fit.*)
DecodeText ==
    /\ stage = "text"
    /\ CASE policy = "Try" ->
              IF IsUtf8(mem) THEN Finish(Full(Text(mem)))
                             ELSE stage' = "open" /\ UNCHANGED result
         [] policy = "Force" ->
              IF IsUtf8(mem) THEN Finish(Full(Text(mem)))
                             ELSE Finish(Error("InvalidData"))
         [] policy = "Ignore" ->
              stage' = "open" /\ UNCHANGED result
    /\ UNCHANGED <<content, sizeLimit, threshold, policy, body, mem, disk, data>>

(* create_dir_all(&path).and_then(|_| open_opts.open(&path)): open fails  *)
(* as OpenResult says for the file that is there (with the default        *)
(* create_new, on any existing file), or for another reason.              *)
Open ==
    /\ stage = "open"
    /\ LET r == OpenResult(OpenOpts, disk # None) IN
          \/ r = "Ok" /\ disk' = Opened(OpenOpts, disk)
                      /\ stage' = "flush" /\ UNCHANGED result
          \/ r # "Ok" /\ Finish(Error(r)) /\ UNCHANGED disk
          \/ OpenFails /\ Finish(Error("Other")) /\ UNCHANGED disk
    /\ UNCHANGED <<content, sizeLimit, threshold, policy, body, mem, data>>

(* Bug variant of Flush: the buffered bytes never reach the file although *)
(* their count goes into SavedData::File.                                *)
FlushDropsBuffer ==
    /\ stage = "flush"
    /\ \E o \in WriteAllOutcomes(Len(mem), WriteKinds) :
          /\ UNCHANGED disk
          /\ IF IsFull(o)
               THEN data' = File(Len(mem)) /\ stage' = "stream" /\ UNCHANGED result
               ELSE Finish(WithData(o, File(Moved(o)))) /\ UNCHANGED data
    /\ UNCHANGED <<content, sizeLimit, threshold, policy, body, mem>>

(* Bug variant of Flush: the write result is not mapped to SavedData::File.*)
FlushKeepsBytes ==
    /\ stage = "flush"
    /\ \E o \in WriteAllOutcomes(Len(mem), WriteKinds) :
          /\ disk' = Take(mem, Moved(o))
          /\ IF IsFull(o)
               THEN data' = Bytes(mem) /\ stage' = "stream" /\ UNCHANGED result
               ELSE Finish(WithData(o, Bytes(mem))) /\ UNCHANGED data
    /\ UNCHANGED <<content, sizeLimit, threshold, policy, body, mem>>

(* try_write_all(&bytes) into the file, .map(|size| SavedData::File(..)). *)
Flush ==
    /\ stage = "flush"
    /\ \E o \in WriteAllOutcomes(Len(mem), WriteKinds) :
          /\ disk' = WriteAt(disk, 0, Take(mem, Moved(o)))
          /\ IF IsFull(o)
               THEN data' = File(Len(mem)) /\ stage' = "stream" /\ UNCHANGED result
               ELSE Finish(MapResult(o, [n \in Nat |-> File(n)], "data")) /\ UNCHANGED data
    /\ UNCHANGED <<content, sizeLimit, threshold, policy, body, mem>>

(* Bug variant of Stream: write_to's count is not added to the size.     *)
StreamWithoutAddSize ==
    /\ stage = "stream"
    /\ \E o \in Outcomes(body, sizeLimit, ReadKinds \cup WriteKinds) :
          /\ disk' = WriteAt(disk, data.size, Take(body, Moved(o)))
          /\ body' = Drop(body, Moved(o))
          /\ Finish(WithData(o, data))
    /\ UNCHANGED <<content, sizeLimit, threshold, policy, mem, data>>

(* self.write_to(file).map(|written| data.add_size(written)): the rest of *)
(* the body, under size_limit when one is set, written where the flush    *)
(* left the file's cursor.                                               *)
Stream ==
    /\ stage = "stream"
    /\ \E o \in Outcomes(body, sizeLimit, ReadKinds \cup WriteKinds) :
          /\ disk' = WriteAt(disk, data.size, Take(body, Moved(o)))
          /\ body' = Drop(body, Moved(o))
          /\ Finish(MapResult(o, [n \in Nat |-> AddSize(data, n)], "data"))
    /\ UNCHANGED <<content, sizeLimit, threshold, policy, mem, data>>

Next == SaveMem \/ DecodeText \/ Open \/ Flush \/ Stream

Spec == Init /\ [][Next]_vars

-----------------------------------------------------------------------------
ByteClasses == {"a", "h", "t"}

SavedDataT ==
    [kind : {"Text", "Bytes"}, bytes : Seq(ByteClasses)]
    \cup [kind : {"File"}, size : Nat]

TypeOK ==
    /\ content \in Contents
    /\ sizeLimit \in SizeLimits
    /\ threshold \in Thresholds
    /\ policy \in Policies
    /\ body \in Seq(ByteClasses)
    /\ mem \in Seq(ByteClasses)
    /\ disk \in Seq(ByteClasses) \cup {None}
    /\ data \in [kind : {"File"}, size : Nat] \cup {None}
    /\ stage \in {"mem", "text", "open", "flush", "stream", "done"}
    /\ result \in Results(SavedDataT) \cup {None}

(* What the field's storage holds: the file once it exists, else memory.  *)
Stored == IF disk = None THEN mem ELSE disk

(* Where the saved bytes are once the flush succeeded: the file.          *)
Kept == IF data = None THEN mem ELSE disk

IoFailed == result # None /\ ~IsFull(result) /\ IsIoError(result.reason)

(* Unless an I/O error cut it short, the spill from memory to disk loses  *)
(* and repeats nothing: the bytes kept (in the Vec, then in the file      *)
(* after try_write_all of the buffer and write_to of the rest) followed   *)
(* by the still unread body are exactly the field's body.                *)
NoByteLostOrDuplicated == ~IoFailed => Kept \o body = content

(* What a caller reads back through the saved data agrees with what it   *)
(* is told: SavedData::size() (for a File, try_write_all's count plus     *)
(* add_size of write_to's count) is the number of bytes readable() yields *)
(* (for a File, the file on disk), and readable() succeeds.               *)
SizeMatchesReadable ==
    result # None /\ ~IsError(result) =>
        LET d == Payload(result) IN
            Readable(d).ok /\ Size(d) = Len(Readable(d).val)

(* PartialReason::SizeLimit's doc: "The size limit for an individual    *)
(* file was hit. The file was partially written to the filesystem."     *)
(* A field cut off by its size_limit has a file on disk.                 *)
SizeLimitMeansFileWritten ==
    result # None /\ IsPartial(result) /\ result.reason = "SizeLimit"
        => disk # None

(* A Full result holds the whole field (spec 4.2 and 8: Full means every *)
(* byte of the body was saved).                                          *)
FullIsComplete ==
    result # None /\ IsFull(result) =>
        IF Payload(result).kind = "File" THEN disk = content
                                         ELSE Payload(result).bytes = content

(* No more than size_limit bytes of a field are saved (spec 4.2: bytes    *)
(* already buffered count against the limit).                            *)
SizeLimitHonoured == sizeLimit # None => Len(Stored) <= sizeLimit

(* An Error result means nothing was done: no file was left behind (the  *)
(* doc comment of SaveResult::Error, spec 4.2).                          *)
ErrorLeavesNoFile == result # None /\ IsError(result) => disk = None
=============================================================================
