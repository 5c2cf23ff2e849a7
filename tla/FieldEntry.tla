------------------------------ MODULE FieldEntry ------------------------------
(***************************************************************************)
(* The single-field entry points of src/server/save.rs, which choose the  *)
(* path and then run with_path (FieldSave):                               *)
(*   temp           env::temp_dir().join(rand_filename())                 *)
(*   with_filename  env::temp_dir(), then set_file_name(filename)         *)
(*   with_dir       dir.join(rand_filename())                             *)
(*   with_path      the caller's path                                     *)
(* A path is the sequence of its components; the root is <<>>.           *)
(* With a caller-chosen name (with_path, with_filename) another request,  *)
(* on another thread, may save a field to the same path at the same time, *)
(* with a builder configured the same way: the `rival`.  Random names     *)
(* (temp, with_dir) are taken not to collide.                             *)
(***************************************************************************)
EXTENDS FieldSave

CONSTANTS
    EntryPoints,  \* the entry points called: subset of {"temp", "with_filename", "with_dir", "with_path"}
    TempDir,      \* env::temp_dir()
    Dirs,         \* directories passed to with_dir
    FileNames,    \* file names passed to with_filename
    RandNames,    \* names rand_filename() may return
    Paths,        \* paths passed to with_path
    RivalBodies   \* bodies the other request writes to the same path

VARIABLES
    entry,        \* the entry point called, None before
    dir,          \* the directory the entry point was asked to use
    path,         \* the path handed to with_path, None before
    rival         \* the other request's with_path: "idle", "open", "done", "failed"

entryVars == <<entry, dir, path, rival>>

(* PathBuf::set_file_name: drop the last component, if there is one, and  *)
(* push the new name.                                                     *)
SetFileName(p, n) == IF p = <<>> THEN <<n>> ELSE Append(Front(p), n)

(* Path::join with a one-component relative name: push it.                *)
Join(p, n) == Append(p, n)

(* Path::parent of a file path: the directory create_dir_all creates.     *)
Parent(p) == Front(p)

EntryInit ==
    /\ Init
    /\ entry = None /\ dir = None /\ path = None
    /\ rival = "idle"

Call(e, d, p) ==
    /\ e \in EntryPoints /\ path = None
    /\ entry' = e /\ dir' = d /\ path' = p
    /\ UNCHANGED <<vars, rival>>

(* SaveBuilder::temp: a random name in the OS temporary directory.        *)
Temp == \E r \in RandNames : Call("temp", TempDir, Join(TempDir, r))

(* SaveBuilder::with_filename: `let mut tempdir = env::temp_dir();        *)
(* tempdir.set_file_name(filename);`                                      *)
WithFilename ==
    \E f \in FileNames : Call("with_filename", TempDir, SetFileName(TempDir, f))

(* SaveBuilder::with_dir: a random name in the given directory.           *)
WithDir == \E d \in Dirs, r \in RandNames : Call("with_dir", d, Join(d, r))

(* SaveBuilder::with_path called by the caller: the file goes to `path`.  *)
WithPath == \E p \in Paths : Call("with_path", Parent(p), p)

(* with_path(path): one step of the field's save.                         *)
SaveField ==
    /\ path # None
    /\ Next
    /\ UNCHANGED entryVars

(* The entry points whose file name the caller chooses.                   *)
SharedPath == entry \in {"with_path", "with_filename"}

(* The other request's create_dir_all + open_opts.open(&path), with the   *)
(* same options; it fails as OpenResult says when the file is there.     *)
RivalOpen ==
    /\ rival = "idle" /\ SharedPath
    /\ LET r == OpenResult(OpenOpts, disk # None) IN
          IF r = "Ok" THEN rival' = "open" /\ disk' = Opened(OpenOpts, disk)
                      ELSE rival' = "failed" /\ UNCHANGED disk
    /\ UNCHANGED <<content, sizeLimit, threshold, policy, body, mem, data,
                   stage, result, entry, dir, path>>

(* The other request's writes, from the start of the file it opened.      *)
RivalWrite ==
    /\ rival = "open"
    /\ \E b \in RivalBodies : disk' = WriteAt(disk, 0, b)
    /\ rival' = "done"
    /\ UNCHANGED <<content, sizeLimit, threshold, policy, body, mem, data,
                   stage, result, entry, dir, path>>

Rival == RivalOpen \/ RivalWrite

(* Every entry point, then the field's save, with a concurrent save to   *)
(* the same path where the name is the caller's.                         *)
EntryNext == Temp \/ WithFilename \/ WithDir \/ WithPath \/ SaveField \/ Rival

EntrySpec == EntryInit /\ [][EntryNext]_<<vars, entryVars>>

-----------------------------------------------------------------------------
(* A file the save creates (it creates the parent of `path` and opens     *)
(* `path`) lies directly in the directory the entry point was asked to    *)
(* use: the OS temporary directory for temp and with_filename ("a file    *)
(* with the given name in the OS temporary directory"), `dir` for        *)
(* with_dir; never beside it.                                             *)
FileInRequestedDir == disk # None => Parent(path) = dir

(* A Full result naming a file is never undone by the other request:      *)
(* from with_path's return on, the file at `path` holds exactly the      *)
(* field's bytes.  SaveBuilder::new opens with create_new so that two     *)
(* saves to one path cannot both open it; the one that comes second gets  *)
(* AlreadyExists instead of writing over the first one's file.            *)
NoClobber ==
    result # None /\ IsFull(result) /\ Payload(result).kind = "File"
        => disk = content
=============================================================================
