---------------------------- MODULE ParallelWalk ----------------------------
(***************************************************************************)
(* parallel_scan: the std backend of a scan.  NThreads workers walk the    *)
(* directory tree.  Each owns a deque of directories to read, works at its *)
(* back end and steals from the front of another one when its own is       *)
(* empty.  Shared by the workers are `counter`, which hands out node ids,  *)
(* `active`, which termination is detected by, and `seen`, the inodes of   *)
(* multiply-linked files already counted.                                  *)
(*                                                                         *)
(* One action is one access to a shared variable, with the worker-local    *)
(* computation around it.  Each deque and `seen` is behind a mutex that    *)
(* is held for one operation only, so the operation is atomic.             *)
(*                                                                         *)
(* Beside some definitions stands a variant with a slip one could make in  *)
(* the code (TriedAllLate, OneQueued, ...); none is part of Spec.          *)
(***************************************************************************)
EXTENDS FileTree, SequencesExt

CONSTANTS
  NThreads,  \* number of workers
  UsizeMod   \* the number of values of a usize, 2^64 in the code

ASSUME WorkersAssumption ==
  /\ NThreads \in Nat \ {0}
  /\ UsizeMod \in Nat
  /\ UsizeMod > Cardinality(Entry)

\* The names of one inode show the same blocks.
ASSUME InodeAssumption ==
  \A e, f \in Entry :
    /\ ~Meta[e].is_dir /\ Meta[e].nlink > 1 /\ ~Meta[f].is_dir /\ Meta[f].nlink > 1
    /\ Meta[e].dev = Meta[f].dev /\ Meta[e].ino = Meta[f].ino
    => Meta[e].own = Meta[f].own

VARIABLES
  cfg,        \* the configuration, fixed for the scan
  root_dev,   \* device of the scanned path
  counter,    \* the next node id; 0 is the root
  active,     \* meant to count the directories queued or in flight
  seen,       \* <<dev, ino>> of multiply-linked files counted so far
  deque,      \* deque[t]: the frontier of worker t, back end last
  recs,       \* recs[t]: what worker t hands over when it ends
  nodes,      \* the arena, once assembled
  pc,         \* where worker t is
  off,        \* distance of the victim worker t tries to steal from
  item,       \* the directory worker t is processing
  todo,       \* entries of item[t] that worker t has not processed
  id,         \* the node id allocated for Head(todo[t])
  childdirs,  \* subdirectories of item[t] to be queued
  local       \* records of worker t

shared == <<cfg, root_dev, counter, active, seen, deque, recs, nodes>>
worker == <<pc, off, item, todo, id, childdirs, local>>
vars == <<shared, worker>>

Workers == 0 .. NThreads - 1

Item == [dir : Entry, id : Nat, depth : Nat]

RootItem == [dir |-> Root, id |-> 0, depth |-> 1]

Rec == [id : Nat, parent : Nat, entry : Entry, own : Nat, is_dir : BOOLEAN]

\* struct Node, less what is not used here; `sub` is filled by the fold.
Node == [parent : Nat, entry : Entry, own : Nat, is_dir : BOOLEAN]

NodeOf(r) == [parent |-> r.parent, entry |-> r.entry, own |-> r.own, is_dir |-> r.is_dir]

Init ==
  /\ cfg \in Cfgs
  /\ root_dev \in {Meta[Root].dev} \cup IF Root \in Flaky THEN {0} ELSE {}
  /\ counter = 1
  /\ active = 1
  /\ seen = {}
  /\ deque = [t \in Workers |-> IF t = 0 THEN <<RootItem>> ELSE <<>>]
  /\ recs = [t \in Workers |-> {}]
  /\ nodes = <<>>
  /\ pc = [t \in Workers |-> "own"]
  /\ off = [t \in Workers |-> 1]
  /\ item = [t \in Workers |-> RootItem]
  /\ todo = [t \in Workers |-> <<>>]
  /\ id = [t \in Workers |-> 0]
  /\ childdirs = [t \in Workers |-> <<>>]
  /\ local = [t \in Workers |-> {}]

-----------------------------------------------------------------------------
(* Getting a directory: one's own back end, else a victim's front end.     *)

PopOwn(t) ==
  /\ pc[t] = "own"
  /\ IF deque[t] = <<>>
     THEN /\ pc' = [pc EXCEPT ![t] = "steal"]
          /\ UNCHANGED <<deque, item>>
     ELSE /\ item' = [item EXCEPT ![t] = Last(deque[t])]
          /\ deque' = [deque EXCEPT ![t] = Front(@)]
          /\ pc' = [pc EXCEPT ![t] = "guard"]
  /\ UNCHANGED <<cfg, root_dev, counter, active, seen, recs, nodes,
                 off, todo, id, childdirs, local>>

Victim(t) == (t + off[t]) % NThreads

TriedAllLate(t) == off[t] > NThreads

TriedAll(t) == off[t] = NThreads

Steal(t) ==
  /\ pc[t] = "steal"
  /\ ~TriedAll(t)
  /\ LET v == Victim(t) IN
     IF deque[v] = <<>>
     THEN /\ off' = [off EXCEPT ![t] = @ + 1]
          /\ UNCHANGED <<deque, item, pc>>
     ELSE /\ item' = [item EXCEPT ![t] = Head(deque[v])]
          /\ deque' = [deque EXCEPT ![v] = Tail(@)]
          /\ pc' = [pc EXCEPT ![t] = "guard"]
          /\ off' = [off EXCEPT ![t] = 1]
  /\ UNCHANGED <<cfg, root_dev, counter, active, seen, recs, nodes,
                 todo, id, childdirs, local>>

\* Nothing anywhere: the worker ends if `active` reads 0, else it retries.
CheckActive(t) ==
  /\ pc[t] = "steal"
  /\ TriedAll(t)
  /\ pc' = [pc EXCEPT ![t] = IF active = 0 THEN "publish" ELSE "own"]
  /\ off' = [off EXCEPT ![t] = 1]
  /\ UNCHANGED <<shared, item, todo, id, childdirs, local>>

-----------------------------------------------------------------------------
(* Processing a directory.                                                 *)

MayDescendOneDeeper(t) == item[t].depth <= cfg.max_depth /\ counter < cfg.max_entries

MayDescendOneLess(t) == item[t].depth < cfg.max_depth /\ counter + 1 < cfg.max_entries

MayDescendUncapped(t) == item[t].depth < cfg.max_depth

MayDescend(t) == item[t].depth < cfg.max_depth /\ counter < cfg.max_entries

\* The depth and entry limits are read once per directory, then read_dir.
OpenDir(t) ==
  /\ pc[t] = "guard"
  /\ \/ /\ MayDescend(t)
        /\ todo' = [todo EXCEPT ![t] = Listing[item[t].dir]]
     \/ /\ ~MayDescend(t) \/ item[t].dir \in Flaky
        /\ UNCHANGED todo
  /\ pc' = [pc EXCEPT ![t] = "entry"]
  /\ UNCHANGED <<shared, off, item, id, childdirs, local>>

SkipEntryWithId(t) ==
  /\ pc[t] = "entry"
  /\ todo[t] # <<>>
  /\ Head(todo[t]) \in Flaky
  /\ todo' = [todo EXCEPT ![t] = Tail(@)]
  /\ counter' = counter + 1
  /\ UNCHANGED <<cfg, root_dev, active, seen, deque, recs, nodes,
                 pc, off, item, id, childdirs, local>>

\* An entry that cannot be read, or whose file type cannot, takes no id.
SkipEntry(t) ==
  /\ pc[t] = "entry"
  /\ todo[t] # <<>>
  /\ Head(todo[t]) \in Flaky
  /\ todo' = [todo EXCEPT ![t] = Tail(@)]
  /\ UNCHANGED <<shared, pc, off, item, id, childdirs, local>>

AllocId(t) ==
  /\ pc[t] = "entry"
  /\ todo[t] # <<>>
  /\ id' = [id EXCEPT ![t] = counter]
  /\ counter' = counter + 1
  /\ pc' = [pc EXCEPT ![t] = "stat"]
  /\ UNCHANGED <<cfg, root_dev, active, seen, deque, recs, nodes,
                 off, item, todo, childdirs, local>>

ChildWithDirId(t) ==
  [dir |-> Head(todo[t]), id |-> item[t].id, depth |-> item[t].depth + 1]

Child(t) == [dir |-> Head(todo[t]), id |-> id[t], depth |-> item[t].depth + 1]

\* The end of an entry's iteration: its record, and its place in childdirs.
FinishEntry(t, own, descend) ==
  LET e == Head(todo[t])
      rec == [id |-> id[t], parent |-> item[t].id, entry |-> e,
              own |-> own, is_dir |-> Meta[e].is_dir]
  IN /\ local' = [local EXCEPT ![t] = @ \cup {rec}]
     /\ childdirs' = IF descend
                     THEN [childdirs EXCEPT ![t] = Append(@, Child(t))]
                     ELSE childdirs
     /\ todo' = [todo EXCEPT ![t] = Tail(@)]
     /\ id' = [id EXCEPT ![t] = 0]
     /\ pc' = [pc EXCEPT ![t] = "entry"]
     /\ UNCHANGED <<cfg, root_dev, counter, active, deque, recs, nodes, off, item>>

MultiLinked(e) == ~Meta[e].is_dir /\ Meta[e].nlink > 1

InodeAnyDevice(e) == <<0, Meta[e].ino>>

Inode(e) == <<Meta[e].dev, Meta[e].ino>>

CrossesNever(e) == FALSE

Crosses(e) == cfg.one_fs /\ Meta[e].dev # root_dev

\* lstat succeeds: a file seen before under another name counts 0, a child
\* on another device is not descended into under --one-file-system.
StatOk(t) ==
  /\ pc[t] = "stat"
  /\ ~cfg.no_stat
  /\ LET e == Head(todo[t])
         repeated == MultiLinked(e) /\ Inode(e) \in seen
     IN /\ FinishEntry(t, IF repeated THEN 0 ELSE Meta[e].own,
                          Meta[e].is_dir /\ ~Crosses(e))
        /\ seen' = IF MultiLinked(e) THEN seen \cup {Inode(e)} ELSE seen

\* lstat fails: an empty record, and a directory is still descended into.
StatErr(t) ==
  /\ pc[t] = "stat"
  /\ ~cfg.no_stat
  /\ Head(todo[t]) \in Flaky
  /\ FinishEntry(t, 0, Meta[Head(todo[t])].is_dir)
  /\ UNCHANGED seen

\* --no-stat makes no call at all.
NoStatProbe(t) ==
  /\ pc[t] = "stat"
  /\ cfg.no_stat
  /\ FinishEntry(t, 0, Meta[Head(todo[t])].is_dir)
  /\ UNCHANGED seen

-----------------------------------------------------------------------------
(* Queueing the subdirectories and accounting for them, in the code's      *)
(* order: first the push, then the two updates of `active`.                *)

PushTo(t, v) ==
  /\ pc[t] = "entry"
  /\ todo[t] = <<>>
  /\ deque' = [deque EXCEPT ![v] = @ \o childdirs[t]]
  /\ pc' = [pc EXCEPT ![t] = "add"]
  /\ UNCHANGED <<cfg, root_dev, counter, active, seen, recs, nodes,
                 off, item, todo, id, childdirs, local>>

PushToNeighbour(t) == PushTo(t, (t + 1) % NThreads)

PushChildren(t) == PushTo(t, t)

OneQueued(t) == IF childdirs[t] = <<>> THEN 0 ELSE 1

ChildrenQueued(t) == Len(childdirs[t])

\* fetch_add and fetch_sub wrap around.
AddActive(t) ==
  /\ pc[t] = "add"
  /\ active' = (active + ChildrenQueued(t)) % UsizeMod
  /\ childdirs' = [childdirs EXCEPT ![t] = <<>>]
  /\ pc' = [pc EXCEPT ![t] = "sub"]
  /\ UNCHANGED <<cfg, root_dev, counter, seen, deque, recs, nodes,
                 off, item, todo, id, local>>

OneLessSaturating == IF active = 0 THEN 0 ELSE active - 1

OneLess == (active - 1) % UsizeMod

SubActive(t) ==
  /\ pc[t] = "sub"
  /\ active' = OneLess
  /\ item' = [item EXCEPT ![t] = RootItem]
  /\ pc' = [pc EXCEPT ![t] = "own"]
  /\ UNCHANGED <<cfg, root_dev, counter, seen, deque, recs, nodes,
                 off, todo, id, childdirs, local>>

-----------------------------------------------------------------------------
(* The end: each worker hands its records over, the scope joins them all,  *)
(* and assemble places each record at its id.                              *)

Publish(t) ==
  /\ pc[t] = "publish"
  /\ recs' = [recs EXCEPT ![t] = local[t]]
  /\ local' = [local EXCEPT ![t] = {}]
  /\ pc' = [pc EXCEPT ![t] = "exit"]
  /\ UNCHANGED <<cfg, root_dev, counter, active, seen, deque, nodes,
                 off, item, todo, id, childdirs>>

AllRecs == UNION {recs[t] : t \in Workers}

EmptyNode == [parent |-> 0, entry |-> Root, own |-> 0, is_dir |-> FALSE]

RootNode(own) == [EmptyNode EXCEPT !.own = own, !.is_dir = TRUE]

Assemble ==
  /\ \A t \in Workers : pc[t] = "exit"
  /\ nodes = <<>>
  /\ \E own \in {Meta[Root].own} \cup IF Root \in Flaky THEN {0} ELSE {} :
       nodes' = [i \in 0 .. counter - 1 |->
                   IF \E r \in AllRecs : r.id = i
                   THEN NodeOf(CHOOSE r \in AllRecs : r.id = i)
                   ELSE IF i = 0 THEN RootNode(own) ELSE EmptyNode]
  /\ recs' = [t \in Workers |-> {}]
  /\ UNCHANGED <<cfg, root_dev, counter, active, seen, deque, worker>>

\* The caller has its arena: the program is done.
Terminated == nodes # <<>> /\ UNCHANGED vars

WorkerStep(t) ==
  \/ PopOwn(t) \/ Steal(t) \/ CheckActive(t)
  \/ OpenDir(t) \/ SkipEntry(t) \/ AllocId(t)
  \/ StatOk(t) \/ StatErr(t) \/ NoStatProbe(t)
  \/ PushChildren(t) \/ AddActive(t) \/ SubActive(t)
  \/ Publish(t)

Next == Assemble \/ Terminated \/ \E t \in Workers : WorkerStep(t)

\* Every thread is scheduled again and again, and the caller of a scan goes
\* on once its threads are joined.
Fairness == WF_vars(Assemble) /\ \A t \in Workers : WF_vars(WorkerStep(t))

Spec == Init /\ [][Next]_vars

FairSpec == Spec /\ Fairness

-----------------------------------------------------------------------------

Pc == {"own", "steal", "guard", "entry", "stat", "add", "sub", "publish", "exit"}

TypeOK ==
  /\ cfg \in CfgType
  /\ root_dev \in Nat
  /\ counter \in Nat \ {0}
  /\ active \in 0 .. UsizeMod - 1
  /\ seen \subseteq Nat \X Nat
  /\ deque \in [Workers -> Seq(Item)]
  /\ recs \in [Workers -> SUBSET Rec]
  /\ nodes = <<>> \/ nodes \in [0 .. counter - 1 -> Node]
  /\ pc \in [Workers -> Pc]
  /\ off \in [Workers -> 1 .. NThreads]
  /\ item \in [Workers -> Item]
  /\ todo \in [Workers -> Seq(Entry)]
  /\ id \in [Workers -> Nat]
  /\ childdirs \in [Workers -> Seq(Item)]
  /\ local \in [Workers -> SUBSET Rec]

\* Worker t has a directory in its hands, up to its fetch_sub.
Busy(t) == pc[t] \in {"guard", "entry", "stat", "add", "sub"}

(***************************************************************************)
(* No worker leaves work of its own behind: it gives up looking, and ends, *)
(* only with its own deque empty.  Nobody else could be relied on to take  *)
(* what it left, since the others may have ended before it                 *)
(* (internal.rs:150, "no work can strand").                                *)
(***************************************************************************)
NoWorkLeftBehind ==
  \A t \in Workers : pc[t] \in {"steal", "publish", "exit"} => deque[t] = <<>>

Ids(items) == {x.id : x \in items}

Queued == UNION {ToSet(deque[t]) : t \in Workers}

\* The directories queued or in flight, by node id.
Outstanding == Ids(Queued) \cup {item[t].id : t \in {u \in Workers : Busy(u)}}

\* Directories pushed by a worker that has yet to add them to `active`.
Uncounted == UNION {Ids(ToSet(childdirs[t])) : t \in {u \in Workers : pc[u] = "add"}}

(***************************************************************************)
(* What `active` really counts: the directories queued or in flight, less  *)
(* those pushed and not yet added.  A pushed directory can be stolen and   *)
(* finished in between, so the difference may even be negative, and        *)
(* `active` then wraps; but once no worker is between its push and its     *)
(* fetch_add the count is exact, so termination is detected.               *)
(***************************************************************************)
ActiveAccounts ==
  active = (Cardinality(Outstanding) - Cardinality(Uncounted)) % UsizeMod

(***************************************************************************)
(* The claim of internal.rs:150: `active` "reaches 0 only once every       *)
(* pushed dir has been processed".  It does not hold: see ActiveAccounts.  *)
(***************************************************************************)
ActiveZeroMeansDrained == active = 0 => Outstanding = {}

-----------------------------------------------------------------------------
(* The records and the arena.                                              *)

\* What worker t has recorded, handed over or not.
Bucket(t) == local[t] \cup recs[t]

Records == UNION {Bucket(t) : t \in Workers}

Stating == {t \in Workers : pc[t] = "stat"}

(***************************************************************************)
(* "ids are 0..n, each written exactly once" (internal.rs:263): until the  *)
(* arena is assembled, each id below the counter but the root's belongs to *)
(* one record of one worker, or to one worker that is about to record it,  *)
(* whatever the interleaving of the workers' fetch_adds.                   *)
(***************************************************************************)
NoHole == 1 .. counter - 1 = {r.id : r \in Records} \cup {id[t] : t \in Stating}

NoClash ==
  /\ \A t, u \in Workers : \A q \in Bucket(t), r \in Bucket(u) :
       q.id = r.id => t = u /\ q = r
  /\ \A t \in Stating : \A r \in Records : r.id # id[t]
  /\ \A t, u \in Stating : id[t] = id[u] => t = u

ArenaDense == nodes = <<>> => NoHole /\ NoClash

(***************************************************************************)
(* "parent_id < child_id still holds" (internal.rs:148): in the arena      *)
(* each entry but the root has a smaller-numbered parent, which is its own *)
(* directory; the fold in one reverse pass rests on it.                    *)
(***************************************************************************)
ParentFirst ==
  \A i \in DOMAIN nodes \ {0} :
    /\ nodes[i].parent < i
    /\ nodes[i].entry \in Children(nodes[nodes[i].parent].entry)

EntriesIn(S) == MapThenSumSet(LAMBDA d : Len(Listing[d]), S)

\* The most entries NThreads directories can hold.
InFlightMax == Max({EntriesIn(S) : S \in {T \in SUBSET Entry : Cardinality(T) <= NThreads}})

(***************************************************************************)
(* The entry ceiling is an OOM guard: it is read once per directory, so    *)
(* each worker may pass it by the directory it is reading, but by no more; *)
(* a ceiling of 0 or 1 leaves the root alone.                              *)
(***************************************************************************)
OvershootBounded ==
  counter <= IF cfg.max_entries <= 1 THEN 1 ELSE cfg.max_entries - 1 + InFlightMax

(***************************************************************************)
(* --one-file-system: nothing is recorded below a mount point, except one  *)
(* whose lstat failed, which the code descends into without knowing its    *)
(* device.                                                                 *)
(***************************************************************************)
StaysOnDevice ==
  cfg.one_fs /\ ~cfg.no_stat =>
    \A i \in DOMAIN nodes \ {0} :
      LET d == nodes[nodes[i].parent].entry
      IN d = Root \/ d \in Flaky \/ Meta[d].dev = root_dev

\* What du counts for a set of entries: the blocks of an inode once.
Du(S) ==
  LET single == {e \in S : ~MultiLinked(e)}
      linked == {e \in S : MultiLinked(e)}
      own(i) == Meta[CHOOSE e \in linked : Inode(e) = i].own
  IN MapThenSumSet(LAMBDA e : Meta[e].own, single)
       + MapThenSumSet(own, {Inode(e) : e \in linked})

InArena == {nodes[i].entry : i \in DOMAIN nodes}

Total == MapThenSumSet(LAMBDA i : nodes[i].own, DOMAIN nodes)

\* Entries in the arena whose lstat failed.
Unknown == {nodes[i].entry : i \in {j \in DOMAIN nodes :
              nodes[j].own = 0 /\ nodes[j].entry \in Flaky}}

\* The scanned path has no other name below it.
RootApart ==
  MultiLinked(Root) =>
    \A e \in Entry \ {Root} : MultiLinked(e) => Inode(e) # Inode(Root)

(***************************************************************************)
(* "a multiply-linked inode's blocks are counted once (like du/qdirstat)"  *)
(* (internal.rs:156): the arena's total is du's for the entries it holds   *)
(* and could lstat, whichever worker met which link first.  The scanned    *)
(* path itself is not entered into `seen`: if it is a symbolic link and    *)
(* has another name below what it leads to, it is counted twice.           *)
(***************************************************************************)
TotalIsDu ==
  nodes # <<>> /\ ~cfg.no_stat /\ RootApart => Total = Du(InArena \ Unknown)

-----------------------------------------------------------------------------
(* The walk implements TreeWalk: it finds an entry when it allocates its   *)
(* id, and closes a directory when it pushes its subdirectories.           *)

Reading(t) == pc[t] \in {"guard", "entry", "stat"}

Found ==
  {Root} \cup InArena \cup {r.entry : r \in Records}
    \cup {Head(todo[t]) : t \in Stating}

Open ==
  {x.dir : x \in Queued}
    \cup {item[t].dir : t \in {u \in Workers : Reading(u)}}
    \cup (UNION {{x.dir : x \in ToSet(childdirs[t])} : t \in {u \in Workers : pc[u] # "add"}})
    \cup ({Head(todo[t]) : t \in Stating} \cap Dirs)

Abstract == INSTANCE TreeWalk WITH found <- Found, open <- Open, done <- nodes # <<>>

(***************************************************************************)
(* Each step of the workers is a step of the sequential walk or none: no   *)
(* directory is read by two workers or dropped between two deques, and the *)
(* arena is assembled only when every directory met has been dealt with.   *)
(***************************************************************************)
WalksTheTree == Abstract!Spec

(***************************************************************************)
(* An arena below the ceiling, for which no warning is printed, is whole.  *)
(***************************************************************************)
CompleteUnlessWarned == Abstract!CompleteUnlessWarned

(***************************************************************************)
(* Every scan ends: `active` comes back to 0 whatever was stolen when, and *)
(* each worker sees it.                                                    *)
(***************************************************************************)
Termination == <>(nodes # <<>>)

=============================================================================
