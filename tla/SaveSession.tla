----------------------------- MODULE SaveSession -----------------------------
(***************************************************************************)
(* A whole-request save from the entry point to the release of its save   *)
(* directory, in src/server/save.rs:                                      *)
(*   temp / temp_with_prefix / with_temp_dir: TempDir::new creates a      *)
(*        fresh directory, wrapped as SaveDir::Temp;                      *)
(*   with_dir: create_dir_all(&dir), then SaveDir::Perm(dir);             *)
(* then with_entries (SaveAll), whose field saves create their files in   *)
(* the directory, and the caller's handling of the SaveDir it gets back:  *)
(* keep, into_path, delete, or dropping it (a Temp directory is removed   *)
(* with its contents, a Perm one is left).  keep_partial (SaveAll's       *)
(* KeepPartial) may come before or after.  A file is named by the index  *)
(* of its field; its bytes are SaveAll's dirFiles.                        *)
(***************************************************************************)
EXTENDS SaveAll, ResultAlgebra

CONSTANTS
    EntryPoints,  \* the entry points called: subset of {"temp", "with_dir"}
    DirFails,     \* TRUE iff TempDir::new / create_dir_all may fail
    RemoveFails,  \* TRUE iff removing a directory may fail part-way
    Combinators   \* the combinators the caller may settle the result with

VARIABLES
    entry,        \* the entry point the caller used
    dirKind,      \* the SaveDir: None before it exists, "Temp" or "Perm"
    dirExists,    \* the directory is on the filesystem
    onDisk,       \* indices of the fields whose files are on the filesystem
    owner,        \* "none" before Entries exists, "entries" while Entries
                  \* (or PartialEntries) owns the SaveDir, then "released"
                  \* (into_path), "deleted" (delete) or "dropped"
    removeFailed, \* a removal of the directory returned an error
    settled       \* None, or the combinator the caller applied to the
                  \* result and the Option<Entries> it got: [via, out]

dirVars == <<dirKind, dirExists, onDisk, owner, removeFailed>>
sessionVars == <<vars, entry, dirVars, settled>>

(* The files the field saves have created: those of finished saves, and   *)
(* the file of the save under way once it was opened.                    *)
Created == DOMAIN dirFiles \cup (IF pc = "save" /\ disk # None THEN {cur} ELSE {})

SessionInit ==
    /\ Init
    /\ entry \in EntryPoints
    /\ dirKind = None
    /\ dirExists \in IF entry = "with_dir" THEN BOOLEAN ELSE {FALSE}
    /\ onDisk = {}
    /\ owner = "none"
    /\ removeFailed = FALSE
    /\ settled = None

(* The entry point fails before anything is done: SaveResult::Error.      *)
EntryFails ==
    /\ DirFails
    /\ result' = Error("Other") /\ pc' = "done"
    /\ UNCHANGED dirVars

(* temp_with_prefix: TempDir::new(prefix) creates the directory; Ok goes  *)
(* to with_temp_dir, which runs with_entries(Entries::new(Temp(dir))).    *)
TempDirNew ==
    /\ entry = "temp" /\ pc = "config"
    /\ \/ /\ dirKind' = "Temp" /\ dirExists' = TRUE /\ owner' = "entries"
          /\ pc' = "read"
          /\ UNCHANGED <<onDisk, removeFailed, result>>
       \/ EntryFails
    /\ UNCHANGED <<fields, next, count, countLimit, sizeLimit, memoryThreshold,
                   textPolicy, entries, cur, fsVars, dirFiles, kept, entry,
                   settled>>

(* with_dir: try_start!(create_dir_all(&dir)), the helper that creates     *)
(* the parent of its argument, so `dir` itself exists only if it did     *)
(* before; then with_entries(Entries::new(Perm(dir))).                    *)
WithDir ==
    /\ entry = "with_dir" /\ pc = "config"
    /\ \/ /\ dirKind' = "Perm" /\ owner' = "entries"
          /\ pc' = "read"
          /\ UNCHANGED <<dirExists, onDisk, removeFailed, result>>
       \/ EntryFails
    /\ UNCHANGED <<fields, next, count, countLimit, sizeLimit, memoryThreshold,
                   textPolicy, entries, cur, fsVars, dirFiles, kept, entry,
                   settled>>

(* The caller configures the builder before calling the entry point.     *)
CallerConfigures ==
    /\ Setters
    /\ UNCHANGED <<entry, dirVars, settled>>

(* One step of with_entries.  The field save's create_dir_all(&path)      *)
(* creates the save directory, the parent of the file, before the open;   *)
(* when the open fails, the directory may or may not have been created.   *)
Saving ==
    /\ owner = "entries" /\ pc \in {"read", "save"}
    /\ \/ ReadEnd \/ ReadFails \/ SaveText \/ CountLimitHit \/ StartFile
       \/ SaveStep \/ FileSaved
    /\ IF pc = "save" /\ stage = "open"
         THEN dirExists' \in IF disk' # None THEN {TRUE} ELSE {dirExists, TRUE}
         ELSE UNCHANGED dirExists
    /\ onDisk' = Created'
    /\ UNCHANGED <<entry, dirKind, owner, removeFailed, settled>>

(* keep_partial on the PartialEntries the caller got back; it consumes    *)
(* the result, as the combinators do.                                     *)
CallerKeepPartial ==
    /\ settled = None
    /\ KeepPartial
    /\ UNCHANGED <<entry, dirVars, settled>>

(* The Option<Entries> the caller gets from the EntriesSaveResult through *)
(* each combinator (the Ok side of an io::Result).                       *)
SettleWith(c) ==
    CASE c = "okish"              -> Okish(result, "entries")
      [] c = "into_opt_both"      -> IntoOptBoth(result, "entries")[1]
      [] c = "into_result"        -> OkValue(IntoResult(result, "entries"))
      [] c = "into_result_strict" -> OkValue(IntoResultStrict(result, "entries"))
      [] c = "into_entries"       -> IntoEntries(result)

(* The caller turns the result into entries with one of the combinators. *)
CallerSettle ==
    /\ pc = "done" /\ result # None /\ kept = None /\ settled = None
    /\ \E c \in Combinators : settled' = [via |-> c, out |-> SettleWith(c)]
    /\ UNCHANGED <<vars, entry, dirVars>>

(* fs::remove_dir_all / TempDir::close: on success the directory and its  *)
(* files are gone; a missing directory is an error (NotFound); a failure *)
(* part-way leaves some of the files.                                     *)
RemoveDir ==
    \/ /\ dirExists /\ dirExists' = FALSE /\ onDisk' = {}
       /\ UNCHANGED removeFailed
    \/ /\ ~dirExists /\ removeFailed' = TRUE
       /\ UNCHANGED <<dirExists, onDisk>>
    \/ /\ RemoveFails /\ dirExists /\ removeFailed' = TRUE
       /\ onDisk' \in SUBSET onDisk
       /\ UNCHANGED dirExists

(* The caller's operations on the SaveDir after with_entries returned.    *)
Owned == pc = "done" /\ owner = "entries"

CallerUnchanged == UNCHANGED <<vars, entry, settled>>

(* Bug variant of Keep: Temp(tempdir) => Perm(tempdir.path().into()), so  *)
(* the TempDir is dropped at the end of the arm and removes the directory.*)
KeepWithoutPersist ==
    /\ Owned
    /\ dirKind' = "Perm"
    /\ IF dirKind = "Temp"
         THEN dirExists' = FALSE /\ onDisk' = {}
         ELSE UNCHANGED <<dirExists, onDisk>>
    /\ UNCHANGED <<owner, removeFailed>>
    /\ CallerUnchanged

(* SaveDir::keep: mem::replace(self, Perm(..)); Temp(tempdir) becomes     *)
(* Perm(tempdir.into_path()), which disarms its removal; a Perm is put    *)
(* back as it was.                                                        *)
Keep ==
    /\ Owned
    /\ dirKind' = "Perm"
    /\ UNCHANGED <<dirExists, onDisk, owner, removeFailed>>
    /\ CallerUnchanged

(* SaveDir::into_path: Temp(tempdir) => tempdir.into_path(), the path of  *)
(* a directory nothing removes any more; Perm(path) => path.              *)
IntoPath ==
    /\ Owned
    /\ owner' = "released"
    /\ UNCHANGED <<dirKind, dirExists, onDisk, removeFailed>>
    /\ CallerUnchanged

(* SaveDir::delete: Temp(tempdir) => tempdir.close(), Perm(path) =>       *)
(* fs::remove_dir_all(&path); either way the error is returned.           *)
Delete ==
    /\ Owned
    /\ owner' = "deleted"
    /\ RemoveDir
    /\ UNCHANGED dirKind
    /\ CallerUnchanged

(* Bug variant of Drop: the Temp arm leaves the directory, as Perm does.  *)
DropKeepsTemp ==
    /\ Owned
    /\ owner' = "dropped"
    /\ UNCHANGED <<dirKind, dirExists, onDisk, removeFailed>>
    /\ CallerUnchanged

(* The Entries (and with it the SaveDir) goes out of scope: TempDir's     *)
(* destructor removes a Temp directory and ignores the error; a Perm     *)
(* PathBuf is just freed.                                                 *)
Drop ==
    /\ Owned
    /\ owner' = "dropped"
    /\ IF dirKind = "Temp" THEN RemoveDir
                           ELSE UNCHANGED <<dirExists, onDisk, removeFailed>>
    /\ UNCHANGED dirKind
    /\ CallerUnchanged

(* The caller releases the SaveDir one way or another.                    *)
Release == IntoPath \/ Delete \/ Drop

SessionNext ==
    \/ CallerConfigures \/ TempDirNew \/ WithDir \/ Saving \/ CallerKeepPartial
    \/ CallerSettle
    \/ Keep \/ Release

SessionSpec == SessionInit /\ [][SessionNext]_sessionVars

(* The code runs its steps without pause, and the caller's scope ends:   *)
(* Rust drops the Entries it owns unless it was kept or released first.  *)
(* A failure of the source (ReadFails) is the environment's choice: it   *)
(* may happen, but fairness never forces it.                              *)
FairSessionSpec ==
    /\ SessionSpec
    /\ WF_sessionVars(TempDirNew \/ WithDir \/ (Saving /\ ~ReadFails))
    /\ WF_sessionVars(Drop)

-----------------------------------------------------------------------------
SessionTypeOK ==
    /\ entry \in EntryPoints
    /\ dirKind \in {None, "Temp", "Perm"}
    /\ dirExists \in BOOLEAN
    /\ onDisk \subseteq 1 .. Len(fields)
    /\ owner \in {"none", "entries", "released", "deleted", "dropped"}
    /\ removeFailed \in BOOLEAN
    /\ settled \in {None} \cup [via : Combinators, out : {None} \cup [Names -> Seq(Record)]]

(* with_entries returns: whichever entry point the caller used, and       *)
(* however it configured the builder, the loop of with_entries ends with *)
(* Full at the source's End, or with Partial on a source error, the count *)
(* limit or a field save that did not return Full; so does the entry      *)
(* point's own failure.  Holds under fairness of the code's steps, with a *)
(* finite source.                                                        *)
SaveReturns == <>(pc = "done")

(* The field indices of the File records in an Entries value.             *)
EntryFiles(e) ==
    UNION {{e[n][k].idx : k \in {j \in DOMAIN e[n] : e[n][j].data.kind = "File"}}
           : n \in Names}

(* The file named by a PartialSavedField's dest, if it has one.          *)
PartialFile(pf) ==
    IF pf # None /\ pf.dest # None /\ pf.dest.kind = "File" THEN {pf.idx} ELSE {}

(* The files named by the File records of the Entries being built, of    *)
(* the result with_entries returned, and of keep_partial's Entries.      *)
HeldFiles ==
    EntryFiles(entries)
    \cup (IF result = None \/ IsError(result) THEN {}
          ELSE IF IsFull(result) THEN EntryFiles(result.val)
          ELSE EntryFiles(result.val.entries) \cup PartialFile(result.val.partial))
    \cup (IF kept = None THEN {} ELSE EntryFiles(kept))
    \cup (IF settled = None \/ settled.out = None THEN {} ELSE EntryFiles(settled.out))

(* Every SavedData::File record the caller holds, in Entries, in the      *)
(* partial field's dest, after keep_partial or a combinator, names a file that is on    *)
(* the filesystem, from the field save that created it through keep,     *)
(* into_path and the drop of a permanent directory; only delete() and    *)
(* the drop of a directory still temporary take the files away.          *)
RecordsResolve ==
    (owner \in {"none", "entries", "released"} \/ (owner = "dropped" /\ dirKind = "Perm"))
        => HeldFiles \subseteq onDisk

(* A temporary save directory does not outlive the request: once         *)
(* TempDir::new created it, it is eventually gone with its files, unless *)
(* keep() or into_path() made it permanent or its removal failed (which  *)
(* TempDir's destructor ignores).                                        *)
TempDirReclaimed ==
    (dirKind = "Temp" /\ dirExists)
        ~> (~dirExists \/ dirKind = "Perm" \/ owner = "released" \/ removeFailed)

(* into_result_strict's doc: "Pessimistic version of `into_result()`      *)
(* which will return an error even for the `Partial` case".  A caller    *)
(* who settles a Partial result with into_result_strict gets no entries. *)
StrictErrsOnPartial ==
    /\ settled # None /\ settled.via = "into_result_strict"
    /\ result # None /\ IsPartial(result)
    => settled.out = None

(* While the Entries owns its SaveDir, the directory exists: with_dir's   *)
(* doc says the request is saved "to a new permanent directory with the  *)
(* given path" and "any nonexistent directories in the path will be      *)
(* created"; spec section 3 creates the directory when the save begins.  *)
SaveDirCreated == owner = "entries" => dirExists
=============================================================================
