------------------------------ MODULE FileTree ------------------------------
(***************************************************************************)
(* What a scan of sdirstat reads: a directory tree with the results its    *)
(* system calls give, and the configurations a scan can run under.  The    *)
(* tree does not change during a scan, except that the calls made on a     *)
(* Flaky entry may fail at any time (deleted, unreadable, a stale mount).  *)
(***************************************************************************)
EXTENDS Integers, Sequences, FiniteSets

CONSTANTS
  Entry,    \* every directory entry at or below the scanned path
  Root,     \* the scanned path itself
  Listing,  \* Listing[d]: what read_dir(d) yields, in the kernel's order
  Depth,    \* level of an entry in the tree; parallel_scan seeds Root at 1
  Meta,     \* Meta[e]: what lstat(e) returns, reduced to what the scan uses
  Flaky,    \* entries on which a system call may fail
  Cfgs      \* the configurations under study (struct Cfg)

Children(d) == {Listing[d][i] : i \in DOMAIN Listing[d]}

Dirs == {e \in Entry : Meta[e].is_dir}

\* struct Cfg, the fields that decide what a scan visits.
CfgType == [max_depth : Nat, max_entries : Nat, one_fs : BOOLEAN, no_stat : BOOLEAN]

\* struct FileMeta with the entry's d_type; `own` is the chosen size metric
\* (allocated or apparent).  A symbolic link has is_dir = FALSE: neither
\* DirEntry::file_type nor lstat follows it.  No device has number 0, which
\* path_dev returns for a path it cannot lstat.
MetaType == [is_dir : BOOLEAN, own : Nat, nlink : Nat, dev : Nat \ {0}, ino : Nat]

ASSUME FileTreeAssumption ==
  /\ IsFiniteSet(Entry)
  /\ Root \in Entry
  /\ Listing \in [Entry -> Seq(Entry)]
  /\ Meta \in [Entry -> MetaType]
  /\ Depth \in [Entry -> Nat]
  /\ Flaky \subseteq Entry
  /\ Cfgs \subseteq CfgType

(***************************************************************************)
(* Listing is a tree: read_dir names an entry once, an entry has one       *)
(* parent (there are no hard links to directories), the scanned path is    *)
(* below no directory it contains, and only directories have children,     *)
(* besides a scanned path that is a symbolic link, which read_dir follows. *)
(* That Depth exists rules cycles out.                                     *)
(***************************************************************************)
ASSUME TreeAssumption ==
  /\ Depth[Root] = 1
  /\ \A d \in Entry : \A i \in DOMAIN Listing[d] :
       /\ d \in Dirs \/ d = Root
       /\ Listing[d][i] # Root
       /\ Depth[Listing[d][i]] = Depth[d] + 1
  /\ \A d1, d2 \in Entry : \A i \in DOMAIN Listing[d1], j \in DOMAIN Listing[d2] :
       Listing[d1][i] = Listing[d2][j] => d1 = d2 /\ i = j

=============================================================================
