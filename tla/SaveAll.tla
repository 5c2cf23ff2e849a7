------------------------------- MODULE SaveAll -------------------------------
(***************************************************************************)
(* Saving a whole request: SaveBuilder<M: ReadEntry>::with_entries in     *)
(* src/server/save.rs.  Fields are pulled from the source one at a time;  *)
(* a text field is appended to its name's entries, a file field is saved *)
(* by `file.save().size_limit(self.size_limit).with_dir(&save_dir)`: a    *)
(* fresh SaveBuilder, so with the default memory threshold and the Try    *)
(* text policy, whose steps are FieldSave's actions.  The loop ends with  *)
(* Full(entries) at the end of the source, and with Partial(PartialEntries*)
(* , reason) on a source error, on the count limit, or when the field     *)
(* save did not return Full.  keep_partial is the caller's follow-up.     *)
(***************************************************************************)
EXTENDS Naturals, Sequences, SequencesExt, FiniteSets, TLC, SaveResult, BuilderConfig

CONSTANTS
    Names,                  \* field names
    Requests,               \* field sequences the source may deliver
    SizeLimits,             \* values of size_limit
    CountLimits,            \* values of count_limit: None or a natural
    Thresholds,             \* values of the configured memory_threshold
    Policies,               \* values of the configured text_policy
    DefaultMemoryThreshold, \* DEFAULT_MEMORY_THRESHOLD
    SourceFails,            \* TRUE iff read_entry may return an Error
    ReadKinds, WriteKinds, OpenFails

VARIABLES
    fields,          \* the request: <<[name, kind, content], ...>>
    next,            \* index of the next field read_entry returns
    count,           \* `count`: file fields passed to the save so far
    countLimit,      \* self.count_limit
    sizeLimit,       \* self.size_limit
    memoryThreshold, \* self.memory_threshold (configured)
    textPolicy,      \* self.text_policy (configured)
    entries,         \* Entries: name -> <<[idx, data], ...>>
    cur,             \* index of the field being saved or cut off, 0 if none
    fsContent, fsThreshold, fsPolicy,  \* the field save's builder and
    body, mem, disk, data, stage, fsResult, \* FieldSave state
    dirFiles,        \* files in the save directory: field index -> bytes
    pc,              \* "config" (the caller's setters), "read", "save" or "done"
    result,          \* EntriesSaveResult, None until with_entries returns
    kept             \* Entries returned by keep_partial, None before

fsVars == <<fsContent, fsThreshold, fsPolicy, body, mem, disk, data, stage, fsResult>>
vars == <<fields, next, count, countLimit, sizeLimit, memoryThreshold,
          textPolicy, entries, cur, fsVars, dirFiles, pc, result, kept>>

FieldBodies == UNION {{r[i].content : i \in DOMAIN r} : r \in Requests}

FS == INSTANCE FieldSave WITH
        Contents <- FieldBodies, SizeLimits <- SizeLimits,
        Thresholds <- {DefaultMemoryThreshold}, Policies <- {"Try"},
        content <- fsContent, threshold <- fsThreshold,
        policy <- fsPolicy, result <- fsResult,
        OpenOpts <- DefaultOpenOptions

PartialEntries(e, pf) == [entries |-> e, partial |-> pf]

(* Bug variant of Push: the record goes to the front of the name's list.  *)
PushFront(e, name, idx, d) == [e EXCEPT ![name] = <<[idx |-> idx, data |-> d]>> \o @]

(* entries.mut_files_for(name).push(saved) / entries.fields.push(...)     *)
Push(e, name, idx, d) == [e EXCEPT ![name] = Append(@, [idx |-> idx, data |-> d])]

(* SaveBuilder::new: no limits, DEFAULT_MEMORY_THRESHOLD, TextPolicy::Try *)
(* (its open_opts are BuilderConfig's DefaultOpenOptions).                *)
Init ==
    /\ fields \in Requests
    /\ next = 1
    /\ count = 0
    /\ countLimit = None
    /\ sizeLimit = None
    /\ memoryThreshold = DefaultMemoryThreshold
    /\ textPolicy = "Try"
    /\ entries = [n \in Names |-> <<>>]
    /\ cur = 0
    /\ fsContent = <<>> /\ fsThreshold = DefaultMemoryThreshold
    /\ fsPolicy = "Try" /\ body = <<>> /\ mem = <<>> /\ disk = None
    /\ data = None /\ stage = "done" /\ fsResult = None
    /\ dirFiles = <<>>
    /\ pc = "config"
    /\ result = None
    /\ kept = None

(* The caller's setters on the builder, before it starts the save; each  *)
(* replaces one field of the SaveBuilder.                                 *)
Configure(v, x) ==
    /\ pc = "config"
    /\ v' = x
    /\ UNCHANGED <<fields, next, entries, cur, fsVars, dirFiles, pc, result, kept, count>>

(* SaveBuilder::size_limit(limit)                                          *)
SetSizeLimit == \E l \in SizeLimits :
    Configure(sizeLimit, l) /\ UNCHANGED <<countLimit, memoryThreshold, textPolicy>>

(* SaveBuilder::count_limit(limit)                                         *)
SetCountLimit == \E l \in CountLimits :
    Configure(countLimit, l) /\ UNCHANGED <<sizeLimit, memoryThreshold, textPolicy>>

(* SaveBuilder::memory_threshold(t)                                        *)
SetMemoryThreshold == \E t \in Thresholds :
    Configure(memoryThreshold, t) /\ UNCHANGED <<sizeLimit, countLimit, textPolicy>>

(* SaveBuilder::try_text / force_text / ignore_text                        *)
SetTextPolicy == \E p \in Policies :
    Configure(textPolicy, p) /\ UNCHANGED <<sizeLimit, countLimit, memoryThreshold>>

Setters == SetSizeLimit \/ SetCountLimit \/ SetMemoryThreshold \/ SetTextPolicy

(* The entry point calls with_entries: the loop starts.                    *)
WithEntries ==
    /\ pc = "config" /\ pc' = "read"
    /\ UNCHANGED <<fields, next, count, countLimit, sizeLimit, memoryThreshold,
                   textPolicy, entries, cur, fsVars, dirFiles, result, kept>>

Field == fields[next]

(* Bug variant of ReadEnd: `End(_) => continue`, the loop reads End again *)
(* and again.                                                             *)
ReadEndContinues ==
    /\ pc = "read" /\ next > Len(fields)
    /\ UNCHANGED vars

(* read_entry returned End: break, and return Full(entries).              *)
ReadEnd ==
    /\ pc = "read" /\ next > Len(fields)
    /\ result' = Full(entries)
    /\ pc' = "done"
    /\ UNCHANGED <<fields, next, count, countLimit, sizeLimit, memoryThreshold,
                   textPolicy, entries, cur, fsVars, dirFiles, kept>>

(* read_entry returned Error: Partial(entries, no partial field, e).      *)
ReadFails ==
    /\ pc = "read" /\ SourceFails
    /\ result' = Partial(PartialEntries(entries, None), "Other")
    /\ pc' = "done"
    /\ UNCHANGED <<fields, next, count, countLimit, sizeLimit, memoryThreshold,
                   textPolicy, entries, cur, fsVars, dirFiles, kept>>

(* MultipartData::Text: take_inner, push the text, next field.           *)
SaveText ==
    /\ pc = "read" /\ next <= Len(fields) /\ Field.kind = "text"
    /\ entries' = Push(entries, Field.name, next, FS!Text(Field.content))
    /\ next' = next + 1
    /\ UNCHANGED <<fields, count, countLimit, sizeLimit, memoryThreshold,
                   textPolicy, cur, fsVars, dirFiles, pc, result, kept>>

(* Bug variant of LimitReached: `count > limit`.                          *)
LimitReachedLate == countLimit # None /\ count > countLimit

LimitReached == countLimit # None /\ count >= countLimit

(* A file field with `count >= limit`: return Partial with the field,     *)
(* its body unread, and CountLimit.                                      *)
CountLimitHit ==
    /\ pc = "read" /\ next <= Len(fields) /\ Field.kind = "file"
    /\ LimitReached
    /\ result' = Partial(PartialEntries(entries,
                    [name |-> Field.name, idx |-> next, dest |-> None]),
                    "CountLimit")
    /\ cur' = next
    /\ next' = next + 1
    /\ pc' = "done"
    /\ UNCHANGED <<fields, count, countLimit, sizeLimit, memoryThreshold,
                   textPolicy, entries, fsVars, dirFiles, kept>>

(* Otherwise `count += 1` and the field's save starts (FieldSave!Init)    *)
(* with file.save(): a new SaveBuilder with the default memory_threshold *)
(* and text_policy, given only self.size_limit.                          *)
StartFile ==
    /\ pc = "read" /\ next <= Len(fields) /\ Field.kind = "file"
    /\ ~LimitReached
    /\ count' = count + 1
    /\ cur' = next
    /\ next' = next + 1
    /\ fsContent' = Field.content
    /\ fsThreshold' = DefaultMemoryThreshold /\ fsPolicy' = "Try"
    /\ body' = Field.content /\ mem' = <<>>
    /\ disk' = None /\ data' = None /\ stage' = "mem" /\ fsResult' = None
    /\ pc' = "save"
    /\ UNCHANGED <<fields, countLimit, sizeLimit, memoryThreshold, textPolicy,
                   entries, dirFiles, result, kept>>

(* One step of with_path on the field.                                    *)
SaveStep ==
    /\ pc = "save"
    /\ FS!Next
    /\ UNCHANGED <<fields, next, count, countLimit, sizeLimit, memoryThreshold,
                   textPolicy, entries, cur, dirFiles, pc, result, kept>>

(* The match on the field save's result.  A file it created stays in the  *)
(* save directory whatever the result.                                   *)
FileSaved ==
    /\ pc = "save" /\ stage = "done"
    /\ dirFiles' = IF disk = None THEN dirFiles ELSE dirFiles @@ (cur :> disk)
    /\ LET name == fields[cur].name
           pf(d) == [name |-> name, idx |-> cur, dest |-> d]
       IN CASE IsFull(fsResult) ->
                 /\ entries' = Push(entries, name, cur, Payload(fsResult))
                 /\ cur' = 0 /\ pc' = "read" /\ UNCHANGED result
            [] IsPartial(fsResult) ->
                 /\ result' = Partial(PartialEntries(entries, pf(Payload(fsResult))),
                                      fsResult.reason)
                 /\ pc' = "done" /\ UNCHANGED <<entries, cur>>
            [] OTHER ->
                 /\ result' = Partial(PartialEntries(entries, pf(None)),
                                      fsResult.reason)
                 /\ pc' = "done" /\ UNCHANGED <<entries, cur>>
    /\ UNCHANGED <<fields, next, count, countLimit, sizeLimit, memoryThreshold,
                   textPolicy, fsVars, kept>>

(* Bug variant of KeepPartial: the partial field is pushed without       *)
(* checking that it has a dest.                                          *)
KeepPartialWithoutDest ==
    /\ pc = "done" /\ result # None /\ IsPartial(result) /\ kept = None
    /\ LET pe == Payload(result)
       IN kept' = IF pe.partial # None
                    THEN Push(pe.entries, pe.partial.name, pe.partial.idx,
                              pe.partial.dest)
                    ELSE pe.entries
    /\ UNCHANGED <<fields, next, count, countLimit, sizeLimit, memoryThreshold,
                   textPolicy, entries, cur, fsVars, dirFiles, pc, result>>

(* PartialEntries::keep_partial: a partial field with a dest is pushed.   *)
KeepPartial ==
    /\ pc = "done" /\ result # None /\ IsPartial(result) /\ kept = None
    /\ LET pe == Payload(result)
       IN kept' = IF pe.partial # None /\ pe.partial.dest # None
                    THEN Push(pe.entries, pe.partial.name, pe.partial.idx,
                              pe.partial.dest)
                    ELSE pe.entries
    /\ UNCHANGED <<fields, next, count, countLimit, sizeLimit, memoryThreshold,
                   textPolicy, entries, cur, fsVars, dirFiles, pc, result>>

Next ==
    \/ Setters \/ WithEntries
    \/ ReadEnd \/ ReadFails \/ SaveText \/ CountLimitHit \/ StartFile
    \/ SaveStep \/ FileSaved \/ KeepPartial

Spec == Init /\ [][Next]_vars

-----------------------------------------------------------------------------
Record == [idx : Nat, data : FS!SavedDataT]

TypeOK ==
    /\ fields \in Requests
    /\ next \in 1 .. Len(fields) + 1
    /\ count \in 0 .. Len(fields)
    /\ countLimit \in CountLimits
    /\ sizeLimit \in SizeLimits
    /\ memoryThreshold \in Thresholds \cup {DefaultMemoryThreshold}
    /\ textPolicy \in Policies \cup {"Try"}
    /\ entries \in [Names -> Seq(Record)]
    /\ cur \in 0 .. Len(fields)
    /\ stage \in {"mem", "text", "open", "flush", "stream", "done"}
    /\ DOMAIN dirFiles \subseteq 1 .. Len(fields)
    /\ pc \in {"config", "read", "save", "done"}
    /\ result \in {None} \cup [tag : {"Full"}, val : [Names -> Seq(Record)]]
                 \cup [tag : {"Partial"}, val : [entries : [Names -> Seq(Record)],
                                                 partial : {None} \cup
                                                   [name : Names, idx : Nat,
                                                    dest : {None} \cup FS!SavedDataT]],
                        reason : Reasons]
                 \cup [tag : {"Error"}, reason : IoKinds]
    /\ kept \in {None} \cup [Names -> Seq(Record)]

(* Fields read from the source and fully dealt with: all before next but  *)
(* the one being saved or cut off.                                       *)
Completed == {i \in 1 .. next - 1 : i # cur}

LessThan(a, b) == a < b

(* entries hold, for every name, one record for each completed field of   *)
(* that name, in the order the source delivered them (spec 4.1, 8): no    *)
(* field is lost, repeated or reordered across text fields, file saves    *)
(* and the early returns.                                                 *)
EntriesMatchSource ==
    \A n \in Names :
        [k \in DOMAIN entries[n] |-> entries[n][k].idx]
            = SetToSortSeq({i \in Completed : fields[i].name = n}, LessThan)

(* The file fields whose body has been read from: saved, being saved, or  *)
(* left on disk by a save that failed.                                    *)
FilesTouched ==
    {i \in Completed : fields[i].kind = "file"}
    \cup DOMAIN dirFiles
    \cup (IF pc = "save" THEN {cur} ELSE {})

(* With count_limit K, the bodies of at most K file fields are ever read; *)
(* the field past the limit is handed back unread (spec 4.1, 8).          *)
CountLimitRespected ==
    countLimit # None => Cardinality(FilesTouched) <= countLimit

(* memory_threshold sets "the threshold at which to switch from copying a *)
(* field into memory to copying it to disk" (save_mem keeps a body of up  *)
(* to that many bytes).  A file field no longer than the memory_threshold *)
(* the caller configured on the builder is never saved to a file: the    *)
(* field is to be saved with the configured threshold, not the default.  *)
ConfiguredThresholdHonoured ==
    \A n \in Names : \A k \in DOMAIN entries[n] :
        LET r == entries[n][k]
        IN  /\ fields[r.idx].kind = "file"
            /\ Len(fields[r.idx].content) <= memoryThreshold
            => r.data.kind # "File"
=============================================================================
