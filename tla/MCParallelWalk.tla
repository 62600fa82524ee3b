--------------------------- MODULE MCParallelWalk ---------------------------
(* Small trees and configurations for TLC.                                 *)
EXTENDS ParallelWalk

NoLimit == 99

Plain == [max_depth |-> NoLimit, max_entries |-> NoLimit, one_fs |-> FALSE, no_stat |-> FALSE]

Dir(own, dev) == [is_dir |-> TRUE, own |-> own, nlink |-> 2, dev |-> dev, ino |-> 1]

File(own, dev, ino) == [is_dir |-> FALSE, own |-> own, nlink |-> 1, dev |-> dev, ino |-> ino]

Link(own, dev, ino) == [File(own, dev, ino) EXCEPT !.nlink = 2]

(* A tree where directories are stolen from a worker that is still pushing: *)
(* r holds a, b; a holds c; b holds d.                                      *)
RaceEntry == {"r", "a", "b", "c", "d"}
RaceListing == [e \in RaceEntry |->
  CASE e = "r" -> <<"a", "b">> [] e = "a" -> <<"c">> [] e = "b" -> <<"d">> [] OTHER -> <<>>]
RaceDepth == [e \in RaceEntry |->
  CASE e = "r" -> 1 [] e \in {"a", "b"} -> 2 [] OTHER -> 3]
RaceMeta == [e \in RaceEntry |-> Dir(1, 1)]
RaceCfgs == {Plain}

(* A tree that meets every limit: r holds a, m and l; a holds k and x;     *)
(* m, a mount point, holds n and the directory z.  l and k are links to    *)
(* one inode, and n has its number on the other device.                    *)
WalkEntry == {"r", "a", "m", "l", "k", "x", "n", "z"}
WalkListing == [e \in WalkEntry |->
  CASE e = "r" -> <<"a", "m", "l">> [] e = "a" -> <<"k", "x">>
    [] e = "m" -> <<"n", "z">> [] OTHER -> <<>>]
WalkDepth == [e \in WalkEntry |->
  CASE e = "r" -> 1 [] e \in {"a", "m", "l"} -> 2 [] OTHER -> 3]
WalkMeta == [e \in WalkEntry |->
  CASE e \in {"r", "a", "x"} -> Dir(1, 1) [] e \in {"m", "z"} -> Dir(1, 2)
    [] e \in {"l", "k"} -> Link(8, 1, 9) [] e = "n" -> Link(16, 2, 9)]
WalkCfgs ==
  {Plain, [Plain EXCEPT !.max_depth = 2],
   [Plain EXCEPT !.one_fs = TRUE], [Plain EXCEPT !.no_stat = TRUE, !.max_entries = 5]}
    \cup {[Plain EXCEPT !.max_entries = n] : n \in {0, 2}}

(* Two directories that share a hard-linked file.                          *)
LinkEntry == {"r", "a", "b", "k", "l"}
LinkListing == [e \in LinkEntry |->
  CASE e = "r" -> <<"a", "b">> [] e = "a" -> <<"k">> [] e = "b" -> <<"l">> [] OTHER -> <<>>]
LinkDepth == [e \in LinkEntry |->
  CASE e = "r" -> 1 [] e \in {"a", "b"} -> 2 [] OTHER -> 3]
LinkMeta == [e \in LinkEntry |->
  IF e \in {"k", "l"} THEN Link(8, 1, 9) ELSE Dir(1, 1)]

\* The entries in the order in which one worker alone records them: it
\* takes the last directory of its frontier and queues those it holds.
RECURSIVE OneWorkerOrder(_)
OneWorkerOrder(frontier) ==
  IF frontier = <<>> THEN <<>>
  ELSE LET entries == Listing[Last(frontier)]
       IN entries \o OneWorkerOrder(Front(frontier) \o
                                      SelectSeq(entries, LAMBDA e : Meta[e].is_dir))

OneWorkerOwn(e) ==
  LET order == OneWorkerOrder(<<Root>>)
      pos(x) == CHOOSE i \in DOMAIN order : order[i] = x
  IN IF MultiLinked(e) /\ \E x \in ToSet(order) :
          MultiLinked(x) /\ Inode(x) = Inode(e) /\ pos(x) < pos(e)
     THEN 0 ELSE Meta[e].own

(***************************************************************************)
(* "The walk is parallel and schedule-free" (lib.rs:128): the workers give *)
(* each entry the size one worker alone gives it.  It does not hold for    *)
(* the links of a file: the size goes to whichever is reached first.       *)
(***************************************************************************)
ScheduleFree ==
  \A i \in DOMAIN nodes : nodes[i].own = OneWorkerOwn(nodes[i].entry)

=============================================================================
