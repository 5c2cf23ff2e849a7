---------------------------- MODULE BuilderConfig ----------------------------
(***************************************************************************)
(* The OpenOptions a SaveBuilder of src/server/save.rs opens files with,  *)
(* and what std's OpenOptions::open does with them.  Options are records *)
(* of the flags the save path can meet: write, create, create_new,       *)
(* truncate.  A mod_open_opts closure is the record of the flags it sets  *)
(* (a partial record: the flags it leaves alone are absent).             *)
(***************************************************************************)
EXTENDS TLC, SaveResult

(* Bug variant of DefaultOpenOptions: File::create's options, which open *)
(* an existing file and truncate it.                                     *)
DefaultOpenOptionsCreate ==
    [write |-> TRUE, create |-> TRUE, createNew |-> FALSE, truncate |-> TRUE]

(* SaveBuilder::new: `open_opts.write(true).create_new(true)`.            *)
DefaultOpenOptions ==
    [write |-> TRUE, create |-> FALSE, createNew |-> TRUE, truncate |-> FALSE]

(* SaveBuilder::mod_open_opts: apply the closure, then write(true).      *)
ModOpenOpts(o, closure) == [closure @@ o EXCEPT !.write = TRUE]

(* OpenOptions::open on a path where a file exists or not (std, not this  *)
(* repository): the io::ErrorKind it fails with, or "Ok".  create_new    *)
(* checks and creates in one system call (O_EXCL), and makes create and  *)
(* truncate irrelevant.                                                  *)
OpenResult(o, exists) ==
    CASE ~o.write                 -> "InvalidInput"
      [] o.createNew /\ exists    -> "AlreadyExists"
      [] o.createNew              -> "Ok"
      [] ~exists /\ ~o.create     -> "NotFound"
      [] OTHER                    -> "Ok"

(* The file after a successful open: created empty, truncated, or as it  *)
(* was.                                                                   *)
Opened(o, file) == IF file = None \/ o.truncate THEN <<>> ELSE file
=============================================================================
