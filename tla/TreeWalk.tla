------------------------------ MODULE TreeWalk ------------------------------
(***************************************************************************)
(* What a scan promises, whatever its workers, deques and counters do: a   *)
(* sequential worklist walk of the tree.  An entry is found once, under    *)
(* its parent; a directory that was found stays open until all it holds    *)
(* has been found or a limit of the configuration lets the walk leave it;  *)
(* the walk ends only when nothing is open.                                *)
(***************************************************************************)
EXTENDS FileTree

VARIABLES
  cfg,    \* the configuration of this scan
  found,  \* entries that have a place in the result
  open,   \* directories whose content is still owed
  done    \* the result has been handed back

vars == <<cfg, found, open, done>>

\* A mount point, for --one-file-system (which --no-stat ignores).  Whether
\* an entry is one is not known if its own lstat, or the root's, fails.
OffDevice(d) == cfg.one_fs /\ ~cfg.no_stat /\ d # Root /\ Meta[d].dev # Meta[Root].dev

MayEnter(d) == Depth[d] < cfg.max_depth /\ (OffDevice(d) => d \in Flaky)

\* The reasons for which a directory may be left without being listed.
MayLeave(d) ==
  \/ d \in Flaky
  \/ Depth[d] >= cfg.max_depth
  \/ Cardinality(found) >= cfg.max_entries
  \/ OffDevice(d)
  \/ cfg.one_fs /\ Root \in Flaky

Listed(d) == Children(d) \subseteq found \cup Flaky

Init ==
  /\ cfg \in Cfgs
  /\ found = {Root}
  /\ open = {Root}
  /\ done = FALSE

Discover(d, e) ==
  /\ d \in open
  /\ MayEnter(d)
  /\ e \in Children(d) \ found
  /\ found' = found \cup {e}
  /\ open' = IF e \in Dirs THEN open \cup {e} ELSE open
  /\ UNCHANGED <<cfg, done>>

Close(d) ==
  /\ d \in open
  /\ Listed(d) \/ MayLeave(d)
  /\ open' = open \ {d}
  /\ UNCHANGED <<cfg, found, done>>

Finish ==
  /\ open = {}
  /\ done' = TRUE
  /\ UNCHANGED <<cfg, found, open>>

Next ==
  \/ \E d, e \in Entry : Discover(d, e)
  \/ \E d \in Entry : Close(d)
  \/ Finish

Spec == Init /\ [][Next]_vars

-----------------------------------------------------------------------------

TypeOK ==
  /\ cfg \in CfgType
  /\ found \in SUBSET Entry
  /\ open \in SUBSET found
  /\ done \in BOOLEAN

(***************************************************************************)
(* A result with fewer than max_entries entries, for which main prints no  *)
(* "INCOMPLETE" warning, holds everything the other limits allow: the      *)
(* content of each readable directory above max_depth and on the device,   *)
(* if the device of the scanned path is known where that matters.          *)
(***************************************************************************)
CompleteUnlessWarned ==
  done /\ Cardinality(found) < cfg.max_entries =>
    \A d \in found \ Flaky :
      MayEnter(d) /\ (cfg.one_fs => Root \notin Flaky) => Listed(d)

=============================================================================
