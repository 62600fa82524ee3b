# TLA+ models of sdirstat

sdirstat scans a directory tree with many threads, folds the sizes of what it
found up to the root, and shows or writes the result: a JSON tree, a QDirStat
cache file, an HTML report, or a local web GUI that can also trash files and
run a "system cleaner". This directory holds TLA+ models of that code, the TLC
configurations that check them on small instances, and theorems about them
that the TLA+ proof system (TLAPS) checks for every value of the constants.
Line numbers below are those of `src/src/*.rs` and `src/src/app.html`.

## 1. Inventory

For each component: its state, its operations, what is hard about it, and
what would make it correct.

**Parallel directory walk, std backend** (`internal.rs:151`, `parallel_scan`,
and `assemble`, :268). State: one deque per worker, `counter` (next node id),
`active` (meant to count directories queued or in flight), `seen` (inodes of
multiply-linked files), per-worker records, then the arena `Vec<Node>`.
Operations of a worker: pop its own back end, steal a victim's front end, read
a directory, allocate an id per entry, lstat it, queue the subdirectories,
update `active`, hand its records over. Hard: everything is concurrent, the
termination counter is updated *after* the directories it counts are visible
to thieves, ids must come out dense and parent-first, system calls fail in the
middle, and limits are read without a reservation. Correct when each entry
allowed by the limits is recorded once, at its own id, under its own
directory; the total is `du`'s; a cut scan is warned about; and every scan ends.

**Parallel directory walk, io_uring backend** (`internal.rs:310-424`,
`uring.rs`). The same deques and counters; each worker batches `statx` calls
through its own ring, up to 256 in flight. State besides: the slots of a
batch, completions in any order. Hard: ids are allocated for a whole
directory before anything is known about an entry, the decision to descend is
made from `statx` and not from the directory entry, `io_uring_enter`'s result
is ignored, and the device number it decodes (`uring.rs:101`) is not packed
like the `st_dev` it is compared with. Correct when it yields the arena of the
std backend ("same `Vec<Node>`", :506).

**Size fold and children index** (`internal.rs:519-523`, `lib.rs:137-141`,
`hash.rs` `Csr`). One reverse pass adds each node's total to its parent's;
count, prefix sum and scatter build the children lists. Hard: it is right only
if each parent index is smaller, which the walk has to establish under every
interleaving. Correct when `sub` of a node is the sum of `own` over its subtree.

**JSON tree and type statistics** (`internal.rs:450-504`). Pure recursion over
the folded arena; the `top` largest children are kept and the others summed
into one leaf. Correct when each directory's children plus the leaf add up.

**QDirStat cache export and import** (`internal.rs:537-594`, `main.rs:191-393`).
A line per entry, with escaping; importers that rebuild an arena from such
lines and from rclone listings, making folders on demand. Hard: writer and
reader do not agree by construction (one escapes characters, the other splits
at white space), a line has an entry's size where the arena sums its disk usage,
and the arenas made must suit a fold that trusts their order. Correct when what
is written reads back as the same entries with the sizes written, and imported
arenas are parent-first too.

**Scan cache** (`main.rs:30-108`). A map from (canonical path, shape) to body
and the directory's mtime; at most 32 entries, least recently touched evicted.
Operations: look up and validate, touch, scan without the lock, insert. Hard:
each of those is a separate step, requests run concurrently, the file system
changes in between. Correct when a served body was the directory's content at
some time since the mtime it was certified by, and the bound holds.

**Saved reports** (`main.rs:250-297`). A file per report and a line per report
appended to `index.ndjson`. Hard: ids are millisecond times, the line is
written in more than one call, the file's write may fail, the process may be
killed between the two. Correct when each index line is whole and names a
report that can be opened.

**GUI client tree** (`app.html:154-222, 388-400`). A tree of sizes updated
incrementally after a trash, loaded lazily, replaced by rescans; handlers
interleave at each `await`, hold on to nodes that another one replaces, and
answers may be stale, cut by their depth or lost. Correct when it stays a tree
and its sizes add up and are those of the disk.

**System cleaner** (`clean.rs`). A report of reclaimable categories, then
their execution, path by path, while files change and removals fail half way.
Correct when only reported paths are removed, each one is accounted for, and
the reclaimed amount is what was removed.

**HTTP server and desktop launcher** (`main.rs:615-659`). A thread per
connection; `gui` picks a free port, starts the server and opens a window
after waiting for it at most five seconds.

**File actions** (`main.rs:489-510`), **remote listings** (rclone),
**command line, mount listing and desktop entry**, **hash and
byte-accumulator primitives** (`hash.rs`), **packaging and offline viewer**:
no concurrent state of their own; listed in `PROJECT.json` with the reason.

*Interactions.* The walk hands an arena to the fold (call); the fold's result
goes to emitters, the scan cache and the importers' consumers; the server's
threads share the scan cache (mutex) and the reports directory (files, no
lock); the GUI talks to the server by HTTP requests whose answers may arrive
in any order; the trash and the cleaner change the file system under all of
them. `PROJECT.json` lists the hazards of all this, each at its line, with
the properties that cover it or the reason why none does; a hazard that is a
stated exception of a property is listed as not covered by it.

## 2. Modules

| module | models | extends |
|---|---|---|
| `FileTree` | what the system calls return: the tree, lstat's results, which entries may fail, the configurations (`Cfg`) | |
| `TreeWalk` | abstract: what any scan promises, as a sequential worklist walk | `FileTree` |
| `ParallelWalk` | `parallel_scan` and `assemble`, one action per access to a shared variable | `FileTree` |
| `MCParallelWalk` | small trees and configurations for TLC | `ParallelWalk` |
| `DataLemmas` | lemmas about sequences, finite sets and sums over them, for all proofs | |
| `ParallelWalkProofs` | theorems about `ParallelWalk`: types, ids, the termination counter, that it implements `TreeWalk`, what any such walk delivers, and what the arena holds and adds up to | `ParallelWalk`, `DataLemmas` |
| `SizeFold` | the reverse pass and `Csr::from_parents`, one action per loop iteration, and what the totals mean | |
| `EmitTree` | `emit_json` as a recursive function | `SizeFold` |
| `FileTypes` | statistics by type | `EmitTree` |
| `MCEmitTree` | all small arenas, and names, for TLC | `CacheFile` |
| `SizeFoldProofs` | theorems about the fold, the children index, the emitted tree and the types | `FileTypes`, `DataLemmas` |
| `ScanCache` | `scan_cached` under concurrent requests and a changing file system | |
| `MCScanCache` | symmetry of requests for TLC | `ScanCache` |
| `ScanCacheProofs` | theorems about certified bodies and the bound | `ScanCache`, `DataLemmas` |
| `UringWalk` | `parallel_scan_iouring`: the same queues and counters, with a ring per worker | `ParallelWalk` |
| `MCUringWalk` | a tree, kernels and configurations for TLC | `UringWalk` |
| `UringWalkProofs` | theorems about `UringWalk` | `UringWalk`, `DataLemmas` |
| `CacheFile` | what else is made of an arena: the cache file and its importer, flat listings | `FileTypes` |
| `ReportStore` | `save_report` under concurrent requests, failing writes and kills | |
| `ReportStoreProofs` | theorems about saved reports and their list | `ReportStore`, `DataLemmas` |
| `MCReportStore` | three saves for TLC | `ReportStore` |
| `GuiTree` | the GUI's tree, its handlers cut at their awaits, and the server that answers | |
| `GuiTreeProofs` | theorems about the GUI's tree and the sizes it shows | `GuiTree`, `DataLemmas` |
| `MCGuiTree` | a tree of seven entries for TLC | `GuiTree` |
| `Cleaner` | `scan_cleanable` and `execute_clean` while other programs write | |
| `CleanerProofs` | theorems about what is removed and what is said of it | `Cleaner`, `DataLemmas` |
| `MCCleaner` | three places with links and a second name for TLC | `Cleaner` |

### How `ParallelWalk` corresponds to the code

`deque`, `counter`, `active`, `seen`, `recs`, `nodes`, `root_dev` and `cfg`
are the shared variables of the same name; `item`, `todo`, `id`, `childdirs`,
`local`, `off` are a worker's locals and `pc` is its place:

| `pc` | action | code |
|---|---|---|
| `own` | `PopOwn` | `deques[t]...pop_back()`, :180 |
| `steal` | `Steal` (one victim per step), `CheckActive` | :182-189, :192-198 |
| `guard` | `OpenDir` | the limits and `read_dir`, :200-201 |
| `entry` | `SkipEntry`, `AllocId`, at the end `PushChildren` | :202-206, :249-254 |
| `stat` | `StatOk`, `StatErr`, `NoStatProbe` | :208-244 |
| `add` | `AddActive` | `fetch_add`, :255 |
| `sub` | `SubActive` | `fetch_sub`, :256 |
| `publish` | `Publish` | `*recs[t] = local`, :258 |
| `exit` | `Assemble` (the caller, once all are joined) | :264-285 |

A mutex is held for one deque or set operation, never across two, so each such
operation is atomic. `counter` is accessed with `Relaxed` ordering, but its
read-modify-writes are atomic and nothing is published through it: the records
are read only after the threads are joined. The one `Relaxed` load, in the
ceiling test, may in principle return an older value; the model reads the
current one. `active` is `SeqCst`. The value of `active` is kept modulo
`UsizeMod`, because `fetch_sub` really can take it below zero.

Left out of the data: names, timestamps, modes and owners (copied, never
decided on); of `FileMeta` the model keeps `own`, `nlink`, `dev`, `ino`. A
directory is never handed to the dedup set. The tree does not change during a
scan, but a `Flaky` entry may fail any of the calls made on it, each time anew.

### How `SizeFold` and `EmitTree` correspond to the code

`pc` names the loop that runs and `i` is its index: `fold` (`internal.rs:519`),
`count`, `prefix` and `scatter` (`hash.rs:118-128`). The loops are sequential,
so nothing races; what they rest on is the order of the arena, which
`ParallelWalk` establishes as `ParentFirst`. `SizeFold` takes that as its
assumption on `Arenas` and nothing else. `u64` additions wrap modulo `U64Mod`,
as a release build's do. `Path` is a node's way up to the root. `EmitTree` reads the finished state: `Emit` is
`emit_json` (`internal.rs:454-477`) with a name reduced to the node's id.

### How `ScanCache` corresponds to the code

`cache` and `lru` are the map of `main.rs:43`, `touched` being an order
instead of a time. `req[r]` holds the locals of one connection thread (`serve`
spawns one per connection, :621), and `pc` its place in `scan_cached`:

| `pc` | action | code |
|---|---|---|
| `idle` | `Ask` | the request, and `canonicalize`, :549-555, :71-74 |
| `mtime` | `ReadMtime` | `mtime_of(&canon)`, :75 |
| `lookup` | `Lookup` | first hold of the mutex, :78-83 |
| `touch` | `Touch` | second hold, after a hit, :85-88 |
| `scan` | `Scan` | the scan, without the mutex, :92-97 |
| `insert` | `Insert` | eviction and insertion, one hold, :98-107 |

The file system acts between any two of them: entries of a directory change
(`Edit`), it goes and comes back (`Delete`, `Create`), a link is moved
(`Retarget`), a file grows or a subdirectory changes and the directory's mtime
does not (`Grow`), time passes (`Tick`). Its clock is coarse, so two changes
can carry one mtime. A body is reduced to what it shows: whose entries
(`dir`), how many changes of them it has seen (`listing`), and how much of the
growth below (`growth`). The scan is one step: a tree that changes during it is
seen at one moment, and the second `canonicalize` (:95), which only names the
root, belongs to it. `racy` and `via` of an entry and `listed`, `owed` of a
request are read by the properties only, as is `rescanned`.

### How `UringWalk` corresponds to the code

The workers get directories and give them back as in `ParallelWalk`, whose
actions it uses (`PopOwn`, `Steal`, `CheckActive`, `PushChildren`, `AddActive`,
`SubActive`, `Publish`, `Assemble`). In between, `batch[t]` holds the locals of
the batch loop and `ring[t]` what the worker shares with the kernel:

| `pc` | action | code |
|---|---|---|
| `own`, no ring yet | `Setup` | `Ring::setup`, which panics on failure |
| `guard` | `CheckLimits` | the limits, with the one load of `counter`, `internal.rs:347` |
| `open` | `OpenAt` | `openat`, `getdents`, `fetch_add(k)`, the records, :348-368 |
| `batch` | `Queue` | a free slot, `queue_statx`, and `enter(to_submit, 0)` at 128, :370-378 |
| `batch` | `Enter` | `enter(to_submit, 1)`, :379 |
| `wait`, `reap` | `Reap` | the end of the wait, and draining the completions, :381-382 |
| `comp` | `Handle`, `AllHandled` | one completion, :383-405 |
| `batch` | `CloseDir` | `close_fd`, the records, :407-408 |

The kernel reads a ring only at `enter`, so what a worker does between two
calls is one action, cut where it touches what the workers share: between the
test of the ceiling and the taking of the ids the other workers may take theirs.
`Complete` is the kernel's: it answers any call it has taken, in any order. Two things
it may do besides are parameters (`Kernels`): take fewer calls than it is
given (`short`; such a call returns without waiting, and its result is
ignored), and refuse a ring (`scarce`). A directory's `base` id, the failed
`statx` that leaves an empty record (and with it drops the subtree), the
scanned path that is not followed if it is a link (`O_NOFOLLOW`), and the two
packings of a device number (`StMinors`, `StatxMinors`) are the code's;
`no_stat` is not looked at by this backend. A device number of `Meta` is an
`st_dev` with a minor number below `StMinors`: Linux packs the upper bits of
larger ones above the major, which the model leaves out (`DeviceAssumption`). The memory layout of a ring and its
barriers are left out.

### How `CacheFile` corresponds to the code

A line is a sequence of characters, of which those that matter are there: the
separators, the escape, digits, a size's suffix, dots, and `"nb"` for the white
space above ASCII at which `split_whitespace` splits although `esc` leaves
it alone. `EmitCache` is `emit_cache`, `ParseCache` folds `ParseLine` over its
lines as `parse_qdirstat_cache` does, with `EnsureDir` for `ensure_cache_dir`,
and `BuildTreeFromFlat` is the importer of rclone's listing. A naming gives the
nodes' sizes besides (`w.size`, st_size): these are what a line has
(`internal.rs:557`), while `own` is what the scan counted, disk usage or 0 for an
inode's later links. The importers set both from the line; a line's `blocks:` and
`links:` are read by nobody and left out. `TypeStats` of
`FileTypes` is `type_stats_into`; the order of equal types, which a `HashMap`
leaves open, is left open.

### How `ReportStore` corresponds to the code

A save is a request thread of its own; `pc[s]` is its place in `save_report`:
`id` (the clock is read, `main.rs:285`), `create` and `write` (`fs::write` is
two system calls), `meta` and `newline` (`writeln!` on an unbuffered file is
two more). Each of them may fail, a write with a part of its data written, and
the code goes on. `Crash` kills the process between any two. `files` is the
reports directory, `index` the pieces appended to `index.ndjson`; listing and
opening are operators on the two, since they change nothing. A file that is
written by two saves keeps what the shorter one does not cover.

### How `GuiTree` corresponds to the code

An object of the client is a pair of a path and the number of the answer it
was made from, and `heap` gives its `v`, `_p` and children. `req[h]` is a
handler that waits: its place, the node it holds, and what it read before the
`await` (`old`, `app.html:198`). `Trash`, `Open`, `Up` and `Scan` are the
user's; `ServerTrash` and `ServerAnswer` the server's, the latter with the scan
cache's certification (`ScanCache` has the details); `StartRefresh` and
`FinishRefresh` are `refreshSubtree` before and after its `await`, `FinishLazy`
and `FinishScan` the ends of `lazyLoad` and `loadScan`; `Lose` is a request
that fails. `excuses` is a history variable: it collects what has happened that
makes the shown sizes differ, and a scan that has ended resets it.

### How `Cleaner` corresponds to the code

`Look` is the loop body for one candidate in the order of the three places
(caches, `/tmp`, `/var/log`), `Listed` the printed report, `CountOnly` the
library's dry run. A removal takes many system calls: `RemoveInside` is one of
them, `RemoveItem` the last, `RemoveFails` the end of one that cannot succeed.
`Other` is another program that creates or deletes a file at any time. `exists`
and `metadata` follow links, `dir_size` and the removals do not: `Target` and
`Kind` keep the two apart. `gone` is a history variable.

## 3. What the runs show

| run | question | states |
|---|---|---|
| `parallel_walk` | three workers, eight entries with a mount point, two links to one inode, an inode number reused on another device, failing calls, and all limits: ids, stealing, the termination counter, what is scanned, what it adds up to, and that every scan ends | 1.6 million |
| `walk_active_zero` | finding: `active` reads 0 with work queued | violation |
| `walk_schedule` | finding: directory sizes depend on the schedule | violation |
| `size_fold` | every parent-first arena of up to six nodes, three size patterns, three sets of names: the fold, the index, the pruned tree, the types and what importers read back | 11 thousand |
| `cache_fidelity` | finding: a sparse file with two links weighs more when read back | violation |
| `scan_cache` | two requests, two directories and a link share a cache of one body: what is certified, and the bound | 4.1 million |
| `scan_cache_rescan` | finding: what a Rescan showed is hidden again | violation |
| `uring_walk` | two workers with rings of three slots, five configurations, three kernels: results, ids, ceilings, device numbers, and that scans end | 0.61 million |
| `uring_same` | finding: `--iouring -x` enters nothing on a disk | violation |
| `report_store` | three saves, two times, one kill, any write failing: which reports open, what breaks the list | 1.6 million |
| `gui_tree` | two handlers at once, three things the user starts: what the GUI shows | 0.69 million |
| `cleaner` | a cache, a folder in /tmp, a link and two logs, two foreign changes, folders that deny: what is lost and what is said | 0.41 million |

`parallel_walk`:
- `TypeOK`: the types, and `active` within a `usize`.
- `NoWorkLeftBehind`: a worker gives up, or ends, only with its own deque
  empty. This is what keeps work from being stranded.
- `ActiveAccounts`: what `active` really counts, exactly: the directories
  queued or in flight, less those pushed and not yet added.
- `ArenaDense`: ids below `counter` are each recorded, or about to be, by one
  worker (`NoHole`, `NoClash`).
- `ParentFirst`: in the arena each parent index is smaller than the child's
  and names the child's own directory.
- `Termination`: every scan ends.
- `WalksTheTree`: the refinement; each step of the workers is a step of the
  sequential `TreeWalk` or leaves its variables alone.
- `CompleteUnlessWarned`: an arena below the ceiling, for which `main` prints
  no warning (`main.rs:892-897`), holds all that the depth and device limits allow.
- `OvershootBounded`: the ceiling is passed by at most one directory per worker.
- `StaysOnDevice`: with `-x` nothing is recorded below a mount point, unless
  the mount point's own lstat failed: the code then descends (:238-244).
- `TotalIsDu`: the total counts the blocks of an inode once, by device *and*
  inode number, whichever worker meets which link first. The scanned path
  itself is not entered into `seen`: one that is a symbolic link and has a second
  name below what it leads to is counted twice, and excepted (`RootApart`; no
  tree of the runs has one, the proof needed it).

`size_fold`:
- `SubtreeTotals`: at each moment of the reverse pass a node's total is the sum
  over exactly those nodes below it whose way up has been folded; at the end,
  its subtree.
- `ChildrenListed`: no child is scattered out of bounds, and the index lists
  each node's children, all of them, in ascending order.
- `EmittedTotals`: a shown directory's children and leaf add up to its total,
  and the leaf hides no child larger than one that is shown.
- `Imports`: a cache file read back has every scanned entry, with the size stat
  gave it, below the folders that lead to the scanned path, and a listing of the
  files gives these files and their folders; both parent-first. That is not the
  arena the file was written from: sizes are not disk usage (`FullFidelity`, in
  section 4). Names with white space above ASCII are excepted: they come back cut,
  but one entry for each.
- `TypesMakeTotal`: the types with the folders' and links' own sizes make up
  the scan's total, unless there are more types than are listed.

`scan_cache`:
- `CacheBounded`: concurrent inserts do not pass the cap.
- `CertifiedIsCurrent`: a body served without a scan is of the shape asked for
  and lists what the directory held when its mtime was read, or newer. Two
  exceptions are part of the statement, because the code has them: an entry
  whose mtime was read within the tick that set it (a second change of that
  tick is not seen), and one asked for through a link (:71 resolves it for
  the key, :96 once more for the scan; moved in between, another directory's
  tree is filed under the key). Growth below is not promised at all (:36-37).

`uring_walk`:
- `ResultsAreOwn`: though slots are reused while other calls are in flight,
  what is recorded of an entry is what `statx` said of that entry.
- `NothingInFlight`: when a directory is closed and its names are freed, the
  kernel holds no call of it and no completion is left over.
- `UArenaDense`, `ParentFirst`, `TotalIsDu`: the walk's, for ids taken a
  directory at a time.
- `OvershootBounded`: the walk's, though here a whole directory's ids are taken
  after the test.
- `EntersWhatItShould`: the directories listed are those of the std backend,
  but for `-x`, where they are those with major number 0; two packings never
  make two devices equal.
- `ScanEnds`: a scan ends, in an arena or a panic, on a kernel that takes every
  call it is given.
- `RingTypeOK`: the types.

`report_store`:
- `SavedOpens`: a report that is listed, or was said to be saved, is listed and
  opens with its own data, unless a write of it failed or another save of the
  same millisecond took its id. Neither is reported to the user.
- `ListBrokenOnlyByTornLine`: the list parses, unless a write failed or a line
  was begun between an earlier line and its newline: by a concurrent save, or
  by a later one after a kill.

`gui_tree`:
- `WellFormed`: however answers arrive, children link back to their parent, are
  named below it, and stand there once. The path of a click on Trash is read
  off these links.
- `SumsAgree`: a folder shows its own size and that of its children, bucket
  included, except after: requests about one folder or its ancestors that
  overlapped (two trashes in one folder fold a difference twice), an answer
  that was stale, a bucket filled from one that was cut, or filled below a
  total that was wrong already, an answer to a trash that was lost, or a view
  that was replaced while looked at.
- `ShownIsDisk`: with none of these and nothing under way, each folder shows
  what is on the disk. A refresh after a trash is cut at depth 6, so a subtree
  deeper than that is such a case.

`cleaner`:
- `OnlyListedGoes`: nothing goes but the listed paths and what is in them,
  wherever a listed link points, and nothing without `--apply`.
- `AccountsForAll`: with no other program about, an item is among the errors
  exactly when it is still there, the amounts of both kinds add up to the
  total shown, and a new listing finds the failed ones only.
- `ByteExact`: the bytes said to be reclaimed are those freed, if nothing else
  writes, no removal failed half way, no item is a link and no file that went
  has a second name. Each of these exceptions is needed: without it TLC finds
  the difference.

  Both are stated for candidates none of which lies in another (`Apart`). A home
  below a listed folder of `/tmp` would be one that does: its caches would be
  listed and counted twice, as items of their own and with the folder. No run
  has such a home; the proofs needed the condition.

**Bounds.** `NThreads = 3`: an owner, a thief and an idle worker that may read
`active`; with two, no third party sees the counter while the other two are
in the window. `UsizeMod = 64` stands for 2^64: it only has to exceed the
number of directories, so that a value below zero is not mistaken for a count
(`WorkersAssumption`). The tree has two directories that each hold one, so
stealing, stealing from a thief and finishing a stolen child before its pusher
has counted it all happen; TLC's counterexample of `walk_active_zero` is such a
run. It is met under no limit, a depth limit that cuts the last level, ceilings
of 0 (which `Config::max_entries` admits), 2 and 5 entries, `-x` and
`--no-stat`; `Flaky = {"r", "a"}` lets the root's and an inner directory's calls
fail.

`size_fold` takes sizes that are powers of two (a sum names its summands), all
equal (ties in the ranking), and near `U64Mod = 128` (sums wrap); six nodes
allow three levels with siblings on each, and `Tops` goes from 0 to more
than most directories have. `scan_cache` has two requests, the least that
race, `Cap = 1` for 32, so that every second key evicts, and two changes on a
clock of two ticks: enough for both exceptions, for eviction between a lookup
and its touch, and for an older body to be filed after a newer one. The
theorem is for any numbers.

`uring_walk` has rings of three slots for directories of up to four entries, so
slots run out, are reused, and a batch is submitted in part (`SubmitAt = 2` for
128); with `StMinors = 4` and `StatxMinors = 16` for 2^8 and 2^32 a device of
major number 1 exists. Two workers: what they race for is the queues and the
counters, which `parallel_walk` checks with three. Of its ceilings, 2 makes
`OvershootBounded` a bound below the size of the tree, and 6 is passed only by two
workers that have both found the counter at 5. `report_store` has three saves,
so that one line can be begun inside another and a third follow it. `gui_tree`
allows two handlers to wait at once, which is where they meet, and a third
request afterwards that builds on what they left; its depths 3 and 2 for 6 and
4 cut the tree's last level. `cleaner` lets two changes by others and any of
three denied folders happen. All the cut values are constants.

**Fairness.** `FairSpec` has weak fairness of each worker's step and of
`Assemble`. Each worker is an operating-system thread that never blocks (it
yields and retries), so a preemptive scheduler runs it again and again; a
mutex is held for a bounded time; the scope joins the threads, and the caller
goes on after it. Nothing more is assumed: in particular not that a retry
finds anything. `UFairSpec` adds that the kernel answers each call it has taken
(local file systems do; a network one may not, and then the std backend hangs
in its `lstat` as well). That it takes each call is no assumption but the
premise of `ScanEnds`. The other modules state safety only: a save, a handler
or a removal that stops is a crash or a lost request they allow for.
`gui_tree` does not check deadlock, since `MaxOps` bounds what the user starts.

Each property is also checked against a slip in the model (the `mutants` of
`PROJECT.json`): definitions such as `OneQueued` or `CrossesNever` stand beside
the ones they would replace, and belong to no specification.

## 4. Findings

- **`active` is not what its comment says.** `internal.rs:149-150`: "it reaches
  0 only once every pushed dir has been processed, so no work can strand".
  Children are pushed first (:249-254) and counted after (:255), so a thief
  can finish a stolen child in between and take `active` to 0, or to 2^64 - 1,
  with directories still queued (`walk_active_zero`). Nothing is stranded all
  the same, for another reason: a worker leaves only with its own deque empty,
  and so the pusher itself is still there (`NoWorkStrands`, proved). What is
  lost is parallelism: an idle worker that reads the 0 ends early.
- **Sizes of directories depend on the schedule.** `lib.rs:128`: "The walk is
  parallel and schedule-free". The blocks of a hard-linked file are given to
  the link reached first (:229-233), so the subtree sizes of the directories
  holding its links vary from run to run (`walk_schedule`). The grand total
  does not (`TotalIsDu`).
- **What a Rescan shows does not stay.** `main.rs:34-37` leaves changes below a
  directory to "the Rescan button". A scan inserts its body when it ends,
  whatever is on file (:98-107): one that started before the Rescan and ends
  after it puts its older body back, under the same mtime, and later
  requests are served that one (`scan_cache_rescan`).
- **A cache file read back is not the scan.** `cache_tail` writes an entry's
  st_size, with `blocks:` for a sparse file and `links:` for a linked one
  ("full fidelity", `internal.rs:536-537`); `parse_qdirstat_cache` takes the size
  for what the entry weighs and leaves the two unread (`main.rs:366-372`, :386).
  A scan by disk usage, the default, thus comes back with another total: a sparse
  file at its full length, and each link of an inode at the inode's size
  (`cache_fidelity`).
- **`--iouring -x` scans one level.** `decode_statx` packs a device as
  `major << 32 | minor` (`uring.rs:101`), and the walk compares it with `st_dev`
  of the root, which is packed otherwise. They are equal only for major number
  0, so on a disk no directory below the root is entered (`uring_same`), though
  the backends are to yield the "same `Vec<Node>`" (`internal.rs:506`).

Met on the way, and stated as the exceptions of properties that hold:

- A worker without a ring panics (`uring.rs:161`), and the scan with it;
  `SECURITY.md:41-42` describes a sequential fallback. A kernel that takes
  fewer calls than it is given makes a worker wait for ever (`ScanEnds`).
- A failed `statx` makes the io_uring backend drop a directory's subtree; the
  std backend goes on into one that its entry type names.
- A save whose writes failed, or one that shares its millisecond with another,
  is answered `{"ok":true}`; a torn line breaks the whole list (`SavedOpens`,
  `ListBrokenOnlyByTornLine`).
- Two trashes in one folder, the second started before the first is refreshed,
  fold a difference into the ancestors twice (`SumsAgree`).
- A name with a no-break space does not survive a cache file (`Imports`).
- The cleaner counts what a link points to and each name of a file, although
  removing them frees nothing, or once (`ByteExact`).

## 5. What is proved

Each theorem holds for every value of the constants that its module's
assumptions admit. TLC evaluates the assumptions on the constants of every run.

| module | assumption | what it says, and why the code justifies it |
|---|---|---|
| `ParallelWalk` | `WorkersAssumption` | at least one worker (`internal.rs:161-165`), and a `usize` larger than the number of entries |
| | `InodeAssumption` | two names of one inode have one size: lstat reads it off the inode |
| `UringWalk` | `UringAssumption` | types; a ring has a slot |
| | `DeviceAssumption` | of the two packings of a device number (`lib.rs`'s `st_dev`, `uring.rs:101`) the second is the wider, by more than a device number |
| `FileTree` | `FileTreeAssumption`, `TreeAssumption` | types; the tree is finite, and an entry has one place in it |
| `SizeFold` | `SizeFoldAssumption` | well-formed, parent-first arenas: `ArenaIsDense` and `ParentsComeFirst` give them |
| `EmitTree`, `FileTypes` | `TopsAssumption`, `NamingsAssumption` | types; the root has the scanned path for a name, and is a folder |
| `ScanCache` | `ScanCacheAssumption` | finite, disjoint sets of directories and links, and a positive cap |
| `ReportStore` | `ReportStoreAssumption` | types; times are not 0 |
| `Cleaner` | `CleanerAssumption` | types; only folders hold entries, only links resolve to something else, and the three places listed are apart |
| | `TreeAssumption` | the paths are a finite forest |
| `GuiTree` | `GuiTreeAssumption` | types; the depths the client asks for are positive (they are 6 and 4, `app.html:200,215`) |
| | `TreeAssumption` | the paths are a tree below the scanned one |

The walk:

| theorem | states | argument |
|---|---|---|
| `TypeCorrect` | `Spec => []TypeOK` | `TypeInv`: `TypeOK` is not inductive alone. That `todo` is not empty at `stat` (`HoldsEntry`) and that the arena exists only when all workers have ended (`Ended`: `counter` is then fixed, so `nodes` keeps its domain) are needed |
| `NoWorkStrands` | `Spec => []NoWorkLeftBehind` | only the owner pushes to a deque, and only at `entry`; `active` plays no part |
| `ArenaIsDense` | `Spec => []ArenaDense` | `IdInv`: with `HandOver`, that a worker has handed over nothing before it ends. Each step either leaves ids alone, allocates `counter` to one worker, or moves that id into one record |
| `ParentsComeFirst` | `Spec => []ParentFirst` | `Lineage`: a queued or held directory has an id that is already taken, by a record of that very directory or by the root, hence below every id allocated later; with `ArenaDense`, `assemble` puts each record where it belongs |
| `ActiveIsAccounted` | `Spec => []ActiveAccounts` | a directory is in one deque once, or held by one worker; each step moves one, adds or takes off as many as `active` is changed by, or enters or leaves the window between the push and the `fetch_add` |
| `UnwarnedIsComplete` | `WalksTheTree => []CompleteUnlessWarned` | `SequentialInv`, over `TreeWalk`'s variables: a found directory is open, listed, or was left for a reason; the reasons that remain below the ceiling are those the property excludes, and being below it at the end means having been below it all along |
| `WalkIsSequential` | `Spec => WalksTheTree`, that is `Spec => Abstract!Spec` | `RefInv`, on top of the invariants above: nothing of a directory is recorded before it is read (`Unread`), an entry is recorded once (`EntryOnce`) and what a worker has yet to process is not (`Fresh`), a directory that is read is within the depth limit and may be entered (`Shallow`, `ParentEntered`), `counter` counts what is found (`Counted`), and what a reader has met and what it has left make up the listing (`Progress`). Then `AllocId` is `Discover`, the end of a directory is `Close` or, if the walk closes it at its push, a stutter, and `Assemble` is `Finish` |
| `UnwarnedArenaIsComplete` | `Spec => []CompleteUnlessWarned` | from `WalkIsSequential` and `UnwarnedIsComplete` |
| `StaysOnOneDevice` | `Spec => []StaysOnDevice` | from `ParentEntered`: a record's parent was entered |
| `ArenaTotalIsDu` | `Spec => []TotalIsDu` | `Charges`: an inode is in `seen` exactly when one record is charged its size, and no other is. `assemble` passes that on to the arena (`ArenaInherits`), whose sizes are then grouped by inode (`SumGroups`) |
| `CeilingHolds` | `Spec => []OvershootBounded` | `Budget`: whatever is taken beyond the ceiling is in the listings of the directories being read, which are at most `NThreads` different ones |

The io_uring backend (`UringWalk`). Seen without their rings, with the records
of a batch among a worker's records, its workers do what those of `ParallelWalk`
do (`Std == INSTANCE ParallelWalkProofs WITH pc <- StdPc, local <- StdLocal`), so
a step lemma of the walk holds of each step here but two: `OpenAt`, which takes a
directory's ids at once, and `Handle`, which fills in a record that was there.
A worker between `CheckLimits` and `OpenAt` is seen at `guard` still, and one that
`CheckLimits` refuses as one that `OpenDir` refuses; what the view does not show,
that a worker at `open` has seen room, is `OpenDeep` for the depth and `Room`,
below, for the ceiling.

| theorem | states | argument |
|---|---|---|
| `RingsAreTyped` | `USpec => []RingTypeOK` | `UInv`: the types, and `WorkerRing`, below |
| `NothingStaysInFlight` | `USpec => []NothingInFlight` | `WorkerRing`: each slot is free, queued, in flight, completed or being handled, and only one of these; so the calls begun and not done are as many as the slots not free, and when all entries are done, all slots are free |
| `RecordsAreTruthful` | `USpec => []ResultsAreOwn` | with `WorkerRing`: `slot_entry` of a slot in use names the entry its call was made for, no two slots the same, and `buf` of a completed one holds that entry's answer. A slot is given out again only when it has been handled |
| `UringArenaIsDense` | `USpec => []UArenaDense` | the walk's `IdInv` under the view, and the ids of a batch are a run that `OpenAt` took whole |
| `UringParentsComeFirst` | `USpec => []ParentFirst` | the walk's `Lineage` under the view |
| `UringEntersWhatItShould` | `USpec => []EntersWhatItShould` | that nothing is forgotten (`NoneForgotten`: an entry that was answered and should be entered is in `childdirs`, queued, being read, or recorded with all its children) and nothing is listed wrongly (`RightlyListed`). `ShouldEnter` of a batch's entry is what `Handle` decides because, by `DeviceAssumption`, the packings agree exactly on major number 0. A directory is given up at `CheckLimits` only with the counter at the ceiling, which never falls (`LimitsEntering`); one let through is opened, whatever ids the others have taken since (`OpensEntering`) |
| `UringCeilingHolds` | `USpec => []OvershootBounded` | `UBudget`: the counter together with `Room`, the listings of the directories that workers have been let through for and have not yet opened, stays below the bound. `CheckLimits` enters a listing with the counter below the ceiling; `OpenAt` moves it, or a part of it, into the counter; and no two workers at `open` hold the same directory (`RoomFits`) |
| `UringTotalIsDu` | `USpec => []TotalIsDu` | the walk's `Unread` and `EntryOnce` under the view (`UReading`), and `UCharges`: an inode is in `seen` exactly when one record is charged its size, and a record whose statx can not have failed is charged, shares an inode that is, or is awaited by a batch. `UCharges` names an inode by the device as statx packs it; that packing loses nothing (`StatxDevInjective`), so when nothing is awaited any more the records are as the walk's `Charges` leaves them (`RecordsCharged`), and `ArenaInherits` and the sums of `ArenaTotalIsDu` apply |

Everything else:

| theorem | states | argument |
|---|---|---|
| `FoldTypeCorrect` | `SizeFold!Spec => []TypeOK` | from `SFInv`, below |
| `FoldIsSubtreeSum` | `SizeFold!Spec => []SubtreeTotals` | `TotalInv`: a total is the sum, modulo 2^64, over the nodes below whose way up has been folded. The step for node i adds i's nodes to its parent's: the two sets are disjoint because a way up is a chain, and complete because each parent comes first (`WayFacts`) |
| `IndexIsChildren` | `SizeFold!Spec => []ChildrenListed` | `SFInv`: while counting, `off[p+1]` is the number of p's children so far (`CountInv`); after the prefix sum the parts abut (`PrefixInv`, `OffsetsInv`); a part's next free slot is its offset plus the number of children met so far (`ScatterInv`), so it is within bounds (`ScatterInBounds`); the filled slots of a part hold the children met so far, ascending (`SliceInv`) |
| `EmittedTreeIsExact` | `EmitTree!Spec => []EmittedTotals` | `ShareInv`: while folding, a total is the node's own size and those of the children folded so far, so at the end its own and all its children's, modulo 2^64. `Ranked` is a bijection onto the children that orders them by size (`RankedFacts`: the number of those that precede a child is its place), so the shown ones and the leaf's are all of them (`SumParts`), and none of the leaf's is larger |
| `TypesAreTheWholeScan` | `FileTypes!Spec => []TypesMakeTotal` | `FoldIsSubtreeSum` at the root, whose subtree is the arena; the types part the nodes that are neither folder nor link (`SumParts`), each type's size wraps alone (`SumMods`) |
| `CertifiedBodiesAreCurrent` | `ScanCache!Spec => []CertifiedIsCurrent` | `CInv`: a body, on file or about to be, is `Fit` for its key and mtime m: m lies before the clock, and whoever has read or can still read m from that directory read no more than the body lists (`Fresh`). The file system only adds mtimes at the clock, so it never disturbs a claim about an earlier one |
| `CacheStaysBounded` | `ScanCache!Spec => []CacheBounded` | `LruInv`: the order of use lists each key on file once, so that at the cap its head is a key to evict |
| `CacheTypeCorrect` | `ScanCache!Spec => []TypeOK` | from `CInv` and `LruInv` |
| `SavedReportsOpen` | `ReportStore!Spec => []SavedOpens` | `RInv`: `HoldsOwn` says, of a save that did not fail and shares its id with none, what its file holds at each place (`WholeBody`: nothing of an older, longer file remains, since its own `create` emptied it). Another save can only write there with the same id, and then the id is shared for good (`OthersFile`, `SharedStays`) |
| `OnlyTornLinesBreakTheList` | `ReportStore!Spec => []ListBrokenOnlyByTornLine` | `LinesInv`: a line without its newline is of a save that failed, is between its two calls or was killed there, or has its newline further on |
| `StoreTypeCorrect` | `ReportStore!Spec => []TypeOK` | `FilesInv`: no file grows beyond the longest report |
| `NothingElseGoes` | `Cleaner!Spec => []OnlyListedGoes` | the list only grows while it is made and stays while it is executed; what a call removes is the item or, if it was listed as a folder, lies below its path and not below what it points to (`DoomedIsListed`) |
| `CleanerTypeCorrect` | `Cleaner!Spec => []TypeOK` | `AInv`: the bytes reclaimed are at most those of the items handled (`ProgressInv`) |
| `AllAccountedFor` | `Cleaner!Spec => []AccountsForAll` | `AInv`: the list names a candidate once (`ListInv`); undisturbed, the items still to come exist, of those handled exactly the failed ones do, and reclaimed and failed bytes make up those of the items handled (`QuietInv`). Files that go only shorten a new listing (`ListsLess`) |
| `ReclaimedIsExact` | `Cleaner!Spec => []ByteExact` | `SizesInv`: undisturbed, an item's bytes are those of the files below it, gone or not, and of an item that is done none is left. What is gone is the disjoint union of what was below the items done (`BelowFacts`: two folders with a path in common are in one another), and each file of it has one name (`FreedWeight`) |
| `GuiTypeCorrect` | `GuiTree!Spec => []TypeOK` | from `TypeInv`, below |
| `GuiStaysATree` | `GuiTree!Spec => []WellFormed` | `TypeInv`: of every object, reachable or replaced, the children link back to it and were made by one answer, and its parent has its path's parent for a path (`HeapOK`). This needs no hypothesis on what overlapped: an answer's objects carry its own number, so grafting it disturbs no other links |
| `SizesAddUp` | `GuiTree!Spec => []SumsAgree` | `ShowInv`, below, of which `SumInv` is this property. The step that matters is `FinishRefresh`: the difference it adds up the `_p` links is right because `old` is still what its node shows (`LinkInv`), and it changes exactly the objects on that node's way up, each by the same amount as one of its children (`LiveTree`) |
| `ShownSizesAreTheDisks` | `GuiTree!Spec => []ShownIsDisk` | `ShowInv`: with no handler left, `MatchInv` says that each object's children and bucket are the disk's entries of its path, and `SumInv` adds them up, from the smallest folder (`SubtreeIsDisk`) |

`ShowInv` says of `GuiTree` what holds between two awaits while nothing has been
excused. `LinkInv`: `viewRoot` and what a waiting handler holds are in `TREE`, and
a refresh's `old` is what is shown. `GoneInv`: what is shown and not on the disk
lies below a folder that some handler is about to rescan. `SumInv`: a folder shows
its own size, its bucket and its children. `MatchInv`: each folder agrees with the
disk or lies below one about to be rescanned. None of the four is inductive
alone: that the folder an answer is about is itself on the disk, or about to be
rescanned, takes `GoneInv`, that no handler is left with a replaced object takes
`LinkInv`, and `Tangles`, `Misses` and `LosesView` are exactly what they miss,
so the excuses of the property are those the proof needs. TLC checked them on
`gui_tree` before they were proved.

So every safety property of `parallel_walk`, `scan_cache`, `uring_walk`, `report_store`, `gui_tree` and `cleaner` is a theorem, and of
`size_fold` all but `Imports`.

*Sums and recursion.* The library's induction theorems have an operator as a
parameter, which none of the provers used can instantiate. Where an induction
is needed it goes by a smallest counterexample instead: finite sets are well
founded under inclusion (`SmallestSet`), so a nonempty set of finite sets, say
of those over which an equation about sums fails, has a minimal member, and that
one leads to a contradiction. In this way `DataLemmas` shows that the fold
behind a sum over a finite set exists and does not depend on the order
(`SumExists`, `SumRemove`), and `AboveExists` and its counterpart in
`SizeFoldProofs` that the recursively defined ways up exist.

*Only model-checked:*

- `Termination` and `ScanEnds`: liveness under fairness is outside what the
  prover handles.
- `Imports`: it is about `ParseCache`, a fold over lines that are sequences of
  characters; what it computes for every input is an induction over data.

## 6. Plan

Done: every module of section 2, each checked; the theorems of section 5.

Left:

- A scanned path that is a symbolic link to another disk: the std backend
  takes the link's device for the root's (`internal.rs:155`).

Not modelled, and why:

- the bytes of JSON, HTML and HTTP, the drawing and selection in the GUI, and
  opening saved reports or remotes there: no state that anything here depends on;
- `gui`'s launcher (`main.rs:615-659`): a bounded wait for a port, then a window,
  whichever came of it; argument parsing, the mount listing and the desktop
  entry: sequential, without state;
- external programs (trash, rclone, browsers) beyond what they do to a tree;
- products in a unit's conversion (`main.rs:324`) that exceed 64 bits: only a
  forged cache file has a size of 2^34 G;
- `Acc::insert_with`, the merges and the widths other than 64 bits of `hash.rs`:
  no caller in the program.

## 7. Running

    tlc -config parallel_walk.cfg MCParallelWalk
    tlapm ParallelWalkProofs.tla

Each run is a `.cfg` file of its name and the module that `PROJECT.json` gives.
