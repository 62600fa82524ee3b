------------------------------ MODULE SizeFold ------------------------------
(***************************************************************************)
(* What `finish` and lib.rs's `scan` do with an arena: the size fold, one  *)
(* reverse pass that adds each node's total to its parent's, and then      *)
(* Csr::from_parents, which builds the children lists in three flat passes *)
(* (count, prefix sum, scatter).  One action is one iteration of a loop.   *)
(*                                                                         *)
(* Any parent-first arena may be given: the walks hand over such arenas    *)
(* (ParallelWalk's ParentFirst).  Beside some definitions stands a variant *)
(* with a slip one could make in the code; none is part of Spec.           *)
(***************************************************************************)
EXTENDS Integers, Sequences, FiniteSetsExt

CONSTANTS
  Arenas,  \* the arenas under study
  U64Mod   \* the number of values of a u64, 2^64 in the code

\* A Vec<Node> of a.n nodes, reduced to `parent` and `own`; node 0 is the root.
IsArena(a) ==
  /\ a.n \in Nat \ {0}
  /\ a.parent \in [0 .. a.n - 1 -> 0 .. a.n - 1]
  /\ a.own \in [0 .. a.n - 1 -> 0 .. U64Mod - 1]

ParentsFirst(a) == \A c \in 1 .. a.n - 1 : a.parent[c] < c

ASSUME SizeFoldAssumption ==
  /\ U64Mod \in Nat \ {0}
  /\ \A a \in Arenas : IsArena(a) /\ ParentsFirst(a)

VARIABLES
  arena,  \* the nodes, less their `sub`
  sub,    \* sub[c]: the total of node c, so far
  off,    \* Csr::off, which first holds the counts
  edges,  \* Csr::edges
  cur,    \* the next free slot of each node's part of `edges`
  i,      \* the index of the running loop
  pc      \* which loop is running

vars == <<arena, sub, off, edges, cur, i, pc>>

n == arena.n

parent == arena.parent

own == arena.own

Ids == 0 .. n - 1

Init ==
  /\ arena \in Arenas
  /\ sub = arena.own
  /\ off = <<>>
  /\ edges = <<>>
  /\ cur = <<>>
  /\ i = arena.n - 1
  /\ pc = "fold"

-----------------------------------------------------------------------------

NewTotalUnwrapped == sub[parent[i]] + sub[i]

NewTotalOfOwn == (sub[parent[i]] + own[i]) % U64Mod

\* u64 addition wraps around in a release build.
NewTotal == (sub[parent[i]] + sub[i]) % U64Mod

Fold ==
  /\ pc = "fold"
  /\ i >= 1
  /\ sub' = [sub EXCEPT ![parent[i]] = NewTotal]
  /\ i' = i - 1
  /\ UNCHANGED <<arena, off, edges, cur, pc>>

StartCount ==
  /\ pc = "fold"
  /\ i < 1
  /\ off' = [j \in 0 .. n |-> 0]
  /\ i' = 1
  /\ pc' = "count"
  /\ UNCHANGED <<arena, sub, edges, cur>>

Count ==
  /\ pc = "count"
  /\ i < n
  /\ off' = [off EXCEPT ![parent[i] + 1] = @ + 1]
  /\ i' = i + 1
  /\ UNCHANGED <<arena, sub, edges, cur, pc>>

StartPrefix ==
  /\ pc = "count"
  /\ i >= n
  /\ i' = 0
  /\ pc' = "prefix"
  /\ UNCHANGED <<arena, sub, off, edges, cur>>

Prefix ==
  /\ pc = "prefix"
  /\ i < n
  /\ off' = [off EXCEPT ![i + 1] = @ + off[i]]
  /\ i' = i + 1
  /\ UNCHANGED <<arena, sub, edges, cur, pc>>

StartScatter ==
  /\ pc = "prefix"
  /\ i >= n
  /\ edges' = [k \in 0 .. off[n] - 1 |-> 0]
  /\ cur' = [p \in Ids |-> off[p]]
  /\ i' = 1
  /\ pc' = "scatter"
  /\ UNCHANGED <<arena, sub, off>>

SlotFromEnd(p) == off[p + 1] - 1 - (cur[p] - off[p])

Slot(p) == cur[p]

Scatter ==
  /\ pc = "scatter"
  /\ i < n
  /\ LET p == parent[i]
     IN /\ edges' = [edges EXCEPT ![Slot(p)] = i]
        /\ cur' = [cur EXCEPT ![p] = @ + 1]
  /\ i' = i + 1
  /\ UNCHANGED <<arena, sub, off, pc>>

Return ==
  /\ pc = "scatter"
  /\ i >= n
  /\ pc' = "done"
  /\ UNCHANGED <<arena, sub, off, edges, cur, i>>

Terminated == pc = "done" /\ UNCHANGED vars

Next ==
  \/ Fold
  \/ StartCount \/ Count
  \/ StartPrefix \/ Prefix
  \/ StartScatter \/ Scatter
  \/ Return
  \/ Terminated

Spec == Init /\ [][Next]_vars

\* Csr::of: the slice of `edges` that belongs to p.
Of(p) == [k \in 1 .. off[p + 1] - off[p] |-> edges[off[p] + k - 1]]

-----------------------------------------------------------------------------

\* The type of off, edges and cur once they exist.
TypeOK ==
  /\ arena \in Arenas
  /\ pc \in {"fold", "count", "prefix", "scatter", "done"}
  /\ i \in 0 .. n
  /\ sub \in [Ids -> 0 .. U64Mod - 1]
  /\ pc # "fold" => off \in [0 .. n -> 0 .. n - 1]
  /\ pc \in {"scatter", "done"} =>
       /\ edges \in [0 .. off[n] - 1 -> Ids]
       /\ cur \in [Ids -> 0 .. n - 1]

\* The nodes on the way from c to the root.
Path[c \in Ids] == {c} \cup IF c = 0 THEN {} ELSE Path[parent[c]]

SumOver(f(_), S) == MapThenSumSet(f, S) % U64Mod

\* The fold has dealt with the nodes above this index.
Folded == IF pc = "fold" THEN i ELSE 0

(***************************************************************************)
(* "subtree = own + sum of children" (README.md:83), at every moment of    *)
(* the pass: the total of a node counts itself once, and exactly those     *)
(* nodes below it whose whole way up to it has been folded.                *)
(***************************************************************************)
SubtreeTotals ==
  \A p \in Ids :
    LET counted == {c \in Ids : p \in Path[c] /\ \A q \in Path[c] \ Path[p] : q > Folded}
    IN sub[p] = SumOver(LAMBDA c : own[c], counted)

Children(p) == {c \in 1 .. n - 1 : parent[c] = p}

(***************************************************************************)
(* Each node's slice of the index holds all of its children and nothing    *)
(* else, "in ascending id order" (hash.rs:115); and while it is filled, no *)
(* child lands outside its own parent's part of `edges` (hash.rs:126),     *)
(* where it would overwrite another's or, past the end, abort the program. *)
(***************************************************************************)
ChildrenListed ==
  /\ pc = "scatter" /\ i < n =>
       /\ off[n] = n - 1
       /\ Slot(parent[i]) \in off[parent[i]] .. off[parent[i] + 1] - 1
  /\ pc = "done" =>
       \A p \in Ids :
         /\ {Of(p)[k] : k \in DOMAIN Of(p)} = Children(p)
         /\ \A j, k \in DOMAIN Of(p) : j < k => Of(p)[j] < Of(p)[k]

=============================================================================
