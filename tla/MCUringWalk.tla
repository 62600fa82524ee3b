----------------------------- MODULE MCUringWalk -----------------------------
(* Trees, kernels and configurations of the io_uring backend for TLC.       *)
EXTENDS UringWalk

Plain == [max_depth |-> 99, max_entries |-> 99, one_fs |-> FALSE, no_stat |-> FALSE]

\* Device numbers, packed as st_dev with StMinors = 4.
Anon == 1   \* major 0, such as a btrfs, an overlay or a tmpfs
Disk == 5   \* major 1

Dir(own, dev) == [is_dir |-> TRUE, own |-> own, nlink |-> 2, dev |-> dev, ino |-> 1]

Link(own, dev, ino) == [is_dir |-> FALSE, own |-> own, nlink |-> 2, dev |-> dev, ino |-> ino]

(* r holds a, k, m and f; a holds l; m, a mount point, holds n.  k and l   *)
(* are links to one inode, n has its number on the other device.           *)
MCEntry == {"r", "a", "k", "m", "f", "l", "n"}
MCListing == [e \in MCEntry |->
  CASE e = "r" -> <<"a", "k", "m", "f">> [] e = "a" -> <<"l">> [] e = "m" -> <<"n">> [] OTHER -> <<>>]
MCDepth == [e \in MCEntry |->
  CASE e = "r" -> 1 [] e \in {"a", "k", "m", "f"} -> 2 [] OTHER -> 3]
MCMeta == [e \in MCEntry |->
  CASE e = "r" -> Dir(1, Anon) [] e = "a" -> Dir(2, Anon) [] e = "m" -> Dir(4, Disk)
    [] e \in {"k", "l"} -> Link(8, Anon, 9) [] e = "n" -> Link(16, Disk, 9)
    [] e = "f" -> [Link(32, Anon, 3) EXCEPT !.nlink = 1]]
MCCfgs ==
  {Plain, [Plain EXCEPT !.one_fs = TRUE], [Plain EXCEPT !.max_depth = 2],
   [Plain EXCEPT !.max_entries = 2], [Plain EXCEPT !.max_entries = 6]}
MCKernels ==
  {[short |-> FALSE, scarce |-> FALSE], [short |-> TRUE, scarce |-> FALSE],
   [short |-> FALSE, scarce |-> TRUE]}

\* The same tree on one disk, whose device has a major number.
DiskMeta == [e \in MCEntry |-> [MCMeta[e] EXCEPT !.dev = Disk, !.ino = IF e = "n" THEN 10 ELSE @]]
DiskCfgs == {[Plain EXCEPT !.one_fs = TRUE]}
SoundKernels == {[short |-> FALSE, scarce |-> FALSE]}

=============================================================================
