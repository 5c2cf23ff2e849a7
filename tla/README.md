# TLA+ models of `multipart`'s save subsystem (`src/src/server/save.rs`)

This directory holds TLA+ models of the code that saves the fields of a parsed
multipart request to memory or to disk, and TLC configurations that check them.
Every module is translated from `save.rs`. `PROJECT.json` gives the line range
each definition models (`map`), the runs, the mutants, the findings and the
hazards.

Note on the source: the snapshot of `save.rs` does not type-check as it stands.
For example, `try_write_all(&bytes)` in `with_path` has no writer,
`Entries::files` does not exist, and `save_mem`'s first branch returns a
differently typed result. Where the code is incoherent, the model takes the
only reading that type-checks:
- the buffered bytes are written to the file just opened;
- files and text fields go into one name → records map;
- a `Full` from the size-limited memory copy counts as "fully buffered".

## 1. Inventory

### Components and their state

| component | code | state | operations |
|---|---|---|---|
| Streaming Copier / Write-All | `try_copy_limited`, `try_copy_buf`, `try_write_all` (788-861) | the body's `BufReader` (unconsumed bytes, buffered count), destination bytes, `total_copied` of both loops | fill_buf/refill, write (which may be short, return 0, or fail), consume, the peek after the limit, Interrupted retries |
| Memory/Disk Classifier | `with_path`, `save_mem`, `write_to` (341-409) | the in-memory `Vec`, the file at `path`, `data: SavedData::File` | copy into memory, text policy, create dirs and open, flush the buffer, stream the rest |
| Save Orchestrator | `with_entries` (234-306) | `count`, `entries`, the source position, the `PartialEntries` returned | read_entry (End, Error, Text, File), the count-limit check, the per-file save, the result match |
| Builder configuration | `SaveBuilder` (96-186) | `size_limit`, `count_limit`, `memory_threshold`, `text_policy`, `open_opts` | setters and `fork`. Note that `with_entries` calls `file.save()`, a **fresh** builder |
| Result algebra | `SaveResult`, `PartialReason` (609-776) | none (values) | `map`, `okish`, `into_opt_both`, `into_result`, `into_result_strict`, `into_entries` |
| Entries / PartialEntries | 497-523, 646-691 | name → saved records; the partial field | `mut_files_for`, `keep_partial`, `Into<Entries>` |
| Save directory | `SaveDir` (525-601) | Temp or Perm; the directory on disk | `keep`, `delete`, `into_path`, drop |
| Read-back | `SavedData::readable`, `size`, `DataReader` (430-494) | none | `size()`; reading a saved field back (reopening the file) |

### How the components interact

`with_entries` pulls fields from the external `ReadEntry` source. It appends
text fields directly. Each file field goes to `with_path` on a new builder that
carries only `size_limit`. `with_path` buffers the field in memory through
`try_copy_limited`. If the field does not fit, `with_path` opens a file in the
save directory, writes the buffer with `try_write_all`, and streams the rest
with `write_to`. All results flow back as `SaveResult`s. The orchestrator turns
them into `Full(Entries)` or `Partial(PartialEntries, reason)`.

Around that, the caller chooses an entry point (`temp`, `with_temp_dir`,
`with_dir` for a whole request; `temp`, `with_filename`, `with_dir`,
`with_path` for one field). The entry point creates or names a `SaveDir`. The
caller then keeps or deletes the directory, takes its path, or drops it, and
reads the result through the `SaveResult` combinators.

One save runs on one thread. The one interleaving is between requests: two
saves to the same caller-chosen path (`with_path`, `with_filename`) can run
concurrently. Only the `create_new` of the default open options keeps them
apart. Besides that, the hard behaviours are:
- failures at every I/O step: reads, writes (short, zero-length, error), open, the source;
- Interrupted retries;
- exact boundaries: a body ending at the limit or the threshold, a threshold of 0, an empty body;
- the order of the spill steps;
- what is left on disk and reported after an early return.

### What makes each component correct

- **Copier**: the count it returns is exactly the bytes written and consumed,
  and those bytes are the body's first bytes, in order. It returns Full
  exactly when the body ended within the limit. Interrupted is never surfaced.
- **Classifier**: a Full result holds the whole field. Nothing is lost or
  duplicated at the spill. The file size it reports is the size on disk. At
  most `size_limit` bytes are saved. Error means no file was left behind. A
  Partial(SizeLimit) has a partly written file, as the doc of
  `PartialReason::SizeLimit` says.
- **Orchestrator**: each completed field is recorded once, under its name, in
  arrival order. At most `count_limit` file bodies are read. The configured
  options are applied.
- **SaveDir**: a Temp directory disappears when dropped unless `keep` was
  called. Perm directories stay. Every file the returned entries name exists
  for as long as the caller holds the entries.
- **Entry points**: a field's file is created in the directory the entry point
  names.
- **Result algebra**: `into_result_strict` returns an error for every
  Partial result, as its doc says.

## 2. Modules

| module | models | state ↔ code |
|---|---|---|
| `SaveResult` | `SaveResult`, `PartialReason` | records tagged Full/Partial/Error; an `io::Error` is represented by its `ErrorKind` |
| `CopyContract` | operators: the results a copy may return | `Outcomes(body, limit, kinds)` |
| `CopySpec` | abstract copy (the contract of `write_to`) | one `Copy` step moves a prefix of `src` to `dest` |
| `Copier` | `try_copy_limited` / `try_copy_buf` / `try_write_all` | `pending` and `avail` are the `BufReader`; `total` and `wdone` are the two `total_copied` counters; `chunk` is the buffer given to `try_write_all`. Actions: `FillBuf`, `ReadFails`, `Write`, `WriteFails`, `Peek`, `PeekFails` |
| `BuilderConfig` | `SaveBuilder::new`'s open options (109-110), `mod_open_opts` (134-138), and std's `OpenOptions::open` | options are records `[write, create, createNew, truncate]`; a `mod_open_opts` closure is the partial record of the flags it sets. `OpenResult` gives the error kind of an open, or "Ok" |
| `FieldSave` | `with_path` + `save_mem` + `write_to`, `SavedData::size` and `readable` | `mem` is the Vec, `disk` the file (None while it does not exist), `data` the `SavedData::File`. Actions: `SaveMem`, `DecodeText`, `Open` (through the constant `OpenOpts`), `Flush`, `Stream`. Writes land at the file cursor (`WriteAt`): offset 0 for the flush, then after the flushed bytes. Each copy is one step chosen from `CopyContract!Outcomes`; `Flush` and `Stream` build their results with `ResultAlgebra!MapResult` |
| `SaveAll` | `SaveBuilder::new` and its setters, `with_entries` + `keep_partial` | Init is `SaveBuilder::new`'s defaults, and `pc = "config"` while the caller applies the setters (`SetSizeLimit`, `SetCountLimit`, `SetMemoryThreshold`, `SetTextPolicy`) before `WithEntries` starts the loop. It composes `FieldSave` through `INSTANCE ... WITH`, giving the per-file builder the default open options; the field save's variables are SaveAll's `fsContent`, `body`, `mem`, ... Actions: `ReadEnd`, `ReadFails`, `SaveText`, `CountLimitHit`, `StartFile`, `SaveStep` (one `FieldSave` step), `FileSaved`, `KeepPartial` |
| `ResultAlgebra` | `map`, `okish`, `into_opt_both`, `into_result`, `into_result_strict`, `into_entries`, `Into<Entries>` for `PartialEntries` (671-776) | operators; `Into` is chosen by a payload kind tag ("entries" drops the partial field, "data" is the identity) |
| `SaveSession` | the whole-request session: `temp` / `with_dir` (195-229), `with_entries` (extends `SaveAll`), then `SaveDir` (525-601) and the combinators | `dirKind` (Temp/Perm), `dirExists`, `onDisk` (the files created), `owner` (who owns the directory: the entries, the caller after `into_path`, deleted, dropped). Actions: `CallerConfigures` (SaveAll's setters), `TempDirNew`, `WithDir`, `EntryFails`, `Saving` (one `SaveAll` step), `CallerKeepPartial`, `CallerSettle` (one of the five combinators), `Keep`, `IntoPath`, `Delete`, `Drop` |
| `FieldEntry` | the single-field entry points `temp`, `with_filename`, `with_dir`, `with_path` (314-348), then `with_path`'s save (extends `FieldSave`), and another request saving to the same path | `entry`, `dir` (the directory asked for), `path` (the path handed to `with_path`), `rival` (the other request's progress); paths are sequences of components. Actions: `Temp`, `WithFilename`, `WithDir`, `WithPath`, `SaveField`, `RivalOpen`, `RivalWrite` |

Each checked module has an MC module (`MCCopier`, `MCFieldSave`, `MCSaveAll`,
`MCSaveSession`, `MCFieldEntry`) that gives its constants their values.

**Refinement.** `Copier` is checked to implement `CopySpec` (`CopyRefinesSpec
== ABS!Spec`). Under the mapping, nothing has happened until the copy returns.
At that point:
- `src` is the unconsumed body;
- `dest` is the destination;
- every I/O error kind maps to "Io".

This check justifies `FieldSave`, `SaveAll` and `SaveSession` taking each copy
as one step whose result is drawn from `CopyContract!Outcomes`.

Body bytes are abstracted to the classes the code distinguishes: "a" (ASCII),
and "h"/"t" (lead/continuation byte of a two-byte UTF-8 character).
`String::from_utf8` is the recursive `IsUtf8`: the bytes split into whole
characters.

**Directory model.** `SaveDir` removal is `remove_dir_all`. It may succeed,
find the directory already gone (`NotFound`, which `delete` and drop ignore),
or fail part-way after deleting some files. `with_dir` calls `create_dir_all`
on the directory's *parent* (line 226), so the model lets the directory exist
or not, and `with_path` creates it when it opens the first file.

**Concurrent saves to one path.** With `with_path` or `with_filename`, the
file name is the caller's, so another request can save to the same path at
the same time. `FieldEntry`'s rival opens that path with the same options
and writes its own body from offset 0. Both the rival's open and our own
`Open` go through `OpenResult`. The check-and-create of `create_new` is one
atomic step, as `O_EXCL` is. With random names (`temp`, `with_dir`), the
model assumes no collision.

**`with_filename`.** `EntrySpec` covers all four single-field entry points.
`FileInRequestedDir` is checked only in the violation run, with
`with_filename` as the one entry point; for `temp` and `with_dir` it holds
by the shape of `Join`, so no passing run checks it.

## 3. Runs

| run | result | what it shows |
|---|---|---|
| `copier_refines` | pass | the copy loops implement the copy contract under chunked reads, short writes, WriteZero, Interrupted and errors (≤ 2 faults), for bodies of 0-3 distinct bytes and limits None, 0, 1, 2; under weak fairness every copy returns (`CopyReturns`) |
| `copier_interrupted_peek` | violation | `try_copy_limited`'s peek returns `Partial(IoError(Interrupted))` (line 795) |
| `fieldsave_full_truncated` | violation | `Full(Text)` of a truncated prefix (line 358); with threshold 0 and the default Try, a 1-byte field is saved as `Text("")` |
| `fieldsave_size_limit` | violation | limit 1, threshold 1: 2 bytes are saved (line 390) |
| `fieldsave_error_file` | violation | `Error` is returned after the file was created (line 376) |
| `fieldsave_sizelimit_file` | violation | size limit 0, threshold 1: `save_mem` copies with the size limit (line 398) and returns `Partial(Bytes, SizeLimit)` with no file, where the doc of `PartialReason::SizeLimit` (line 618) says the file was partially written to the filesystem |
| `saveall_threshold` | violation | the caller sets `memory_threshold(3)`, and `with_entries` still saves the 3-byte file `"taa"` as a `File`, as the default threshold of 2 decides: each file is saved with a fresh builder (line 269) |
| `session` | pass | from `SaveBuilder::new` and the setters through the entry points and `with_entries`: entries match the source per name and in order across text fields, file saves and every early return (`EntriesMatchSource`); at most `count_limit` file bodies are read (`CountLimitRespected`); every `File` record the caller holds (in the entries, the partial field, a kept or settled result) names a file on disk unless the caller deleted or dropped a Temp directory (`RecordsResolve`); a Temp directory is eventually removed unless it was kept or its removal failed (`TempDirReclaimed`); every request returns (`SaveReturns`), which an `End(_) => continue` mutant breaks |
| `session_dir_created` | violation | `with_dir` returns entries whose Perm directory does not exist: it creates only the parent (line 226) |
| `session_strict_partial` | violation | `into_result_strict` returns `Ok` with the entries for a Partial cut off by `size_limit` (line 772), where its doc (lines 761-762) says it errs even for the Partial case |
| `fieldentry` | pass | `temp`, `with_filename`, `with_dir` and `with_path` each run `with_path` over every body of up to 3 bytes, thresholds 0-2, limits None or 0-3 and all three text policies: the spill loses and duplicates nothing (`NoByteLostOrDuplicated`); `SavedData::size()` equals what `readable()` yields, for memory and file data alike (`SizeMatchesReadable`). With `create_new` (here under `mod_open_opts(\|o\| o.truncate(true))`), a concurrent save to the same path never overwrites a file returned as `Full` (`NoClobber`); the mutant with `File::create`'s options does |
| `fieldentry_filename` | violation | `with_filename` sets the file name on the temp dir path itself (line 327), so the file is created beside the temp dir, not in it |

Every property of a passing run has a mutant in `PROJECT.json`. A mutant is a
bug variant of a mapped definition (for example, a consume dropped, `count >
limit`, a push to the front, `add_size` missing, a write counter not reset,
`keep` that does not persist, a drop that leaves the Temp directory, default
open options without `create_new`, an `End(_)` arm that continues). TLC finds the property violated under that
variant.

**Bounds.**
- Bodies have up to 3 bytes. Thresholds are 0-2 and limits 0-3 or None, so that
  bodies fit, end exactly at the threshold or limit, exceed it by one, and
  exceed it by more. The 3-byte bodies over {a, h, t} include every way a
  character can be cut at the threshold.
- `MCSaveSession` uses requests of up to 3 fields over 2 names, drawn from a
  text field, a 1-byte file and a 3-byte file that spills past the default
  threshold of 2, so two fields of one name, a spilled file and a truncated
  one occur. Size limits are None or 1, and count limits None, 0 or 1, so
  the count check fires before the first file and between two files. Both entry points are included, and so are
  failures of the source, writes, open, directory creation and
  `remove_dir_all`. That is enough for a spilled file, a partial field and an
  orphaned file to occur together with every directory outcome.
- `MCFieldEntry` uses a one-component temp dir and a two-component target
  directory, so that "in the directory" and "beside it" differ. It has one
  `with_path` path, and the rival writes a 4-byte body, longer than any
  field body, so a file it wrote to never equals the field's. The field
  bounds are those of the classifier above, which give every order of the
  two requests' opens and writes, with our file empty, flushed only, or
  complete.
- Each copy gets at most 2 injected faults in `Copier`. The other modules get
  one failure kind per step.

**Deadlock.** Every run sets `CHECK_DEADLOCK FALSE`, because a save operation
(or the session, once the caller has settled and released the directory)
returns and the model stops there.

**Fairness.**
- `Copier` (`FairSpec`): `WF_vars(Next)`. The copy loops are single-threaded
  and never block on anything but the reader and the writer, which the model
  makes answer every call. Faults are bounded, so the unbounded Interrupted
  retry of lines 806 and 842 is outside the model: `CopyReturns` holds only
  when the environment stops interrupting.
- `SaveSession` (`FairSessionSpec`): weak fairness on the code's own steps
  (entry point, save steps) and on `Drop`. A source failure (`ReadFails`)
  is the environment's choice and gets no fairness. Otherwise a stuck loop
  would be "rescued" by a forced read error. Rust drops every owned `SaveDir` at
  the end of its scope, so a directory the caller neither kept nor released is
  eventually dropped. The caller's own choices (`keep`, `delete`,
  `into_path`, the combinators) get no fairness.

## 4. Not modelled, and why

- **`DataReader`'s `Read`/`BufRead` methods**: they only delegate to the
  slice or the `BufReader<File>`. Reading back is modelled as `Readable`,
  which yields the whole data.
- **`rand_filename`**: an entropy source. Each entry point draws from a small
  set of names; collisions between requests are not modelled.
- **Field source** (`ReadEntry`): external, not in this file. A request is a
  sequence of fields, and a read may fail.
- **`fork`**: never called in this file.
- **Pure queries**: `Entries::is_empty`, `SaveDir::as_path`,
  `is_temporary` and `AsRef<Path>` change no state, and no property needs
  them. The `try_full!` macro is modelled inside `Flush` (continue on
  Full, return otherwise).
- **The `append` open option**: not modelled. Writes land at the cursor,
  which is correct for every option the runs use.
- **`FieldSave` and `FieldEntry` runs**: these take the builder's size limit, threshold and
  policy as Init choices. Any value the setters can produce is reachable, so
  nothing is lost by this.
- **`count: u32` overflow**: with a `count_limit`, the check at line 253
  comes before the increment, so `count` never passes the limit. Without one,
  `count` is never read, and overflow needs 2^32 file fields.

## 5. Plan

Done so far:
1. `Copier` ⊑ `CopySpec`, and `CopyReturns` under weak fairness;
2. `FieldSave`, and `SaveAll` composed with it;
3. `SaveSession`: entry points, `SaveDir` lifecycle, combinators;
4. `ResultAlgebra`;
5. `FieldEntry`: single-field entry points;
6. the builder's setters and open options, a concurrent save to the same
   path (`NoClobber`), and read-back (`SizeMatchesReadable`);
7. termination of every request (`SaveReturns`) under fairness restricted
   to the code's own steps, with session requests of 3 fields.

8. the doc comments of `PartialReason::SizeLimit` and `into_result_strict`
   as properties, each found violated by the code.

Next:
1. `with_entries` resumed on the returned entries after an error (its doc
   comment allows it). `count` restarts at 0, so `count_limit` would apply
   per call, not per request. Modelling this needs the caller to reclaim
   the source from the partial field.
