--------------------------- MODULE SizeFoldProofs ---------------------------
(***************************************************************************)
(* For every parent-first arena, of any size: the totals, the index of     *)
(* children, the tree that is emitted and the sizes by type are right.     *)
(***************************************************************************)
EXTENDS FileTypes, DataLemmas

-----------------------------------------------------------------------------
(* Counting the children of a parent map `par` over the ids 0 .. size - 1. *)

IsMap(par, size) == size \in Nat \ {0} /\ par \in [0 .. size - 1 -> 0 .. size - 1]

\* The children of p with an id below m.
Under(par, p, m) == {c \in 1 .. m - 1 : par[c] = p}

\* The nodes whose parent is below j.
Before(par, j, size) == {c \in 1 .. size - 1 : par[c] < j}

LEMMA SmallSets ==
  ASSUME NEW size \in Nat \ {0}, NEW S \in SUBSET (1 .. size - 1)
  PROVE  IsFiniteSet(S) /\ Cardinality(S) \in 0 .. size - 1
<1>1. IsFiniteSet(1 .. size - 1) /\ Cardinality(1 .. size - 1) = size - 1
  BY FS_Interval
<1>2. IsFiniteSet(S) /\ Cardinality(S) <= size - 1
  BY <1>1, FS_Subset
<1>. QED  BY <1>2, FS_CardinalityType

LEMMA UnderSize ==
  ASSUME NEW size, NEW par, IsMap(par, size), NEW m \in 0 .. size, NEW p
  PROVE  IsFiniteSet(Under(par, p, m)) /\ Cardinality(Under(par, p, m)) \in 0 .. size - 1
BY SmallSets DEF Under, IsMap

LEMMA BeforeSize ==
  ASSUME NEW size, NEW par, IsMap(par, size), NEW j
  PROVE  /\ IsFiniteSet(Before(par, j, size))
         /\ Cardinality(Before(par, j, size)) \in 0 .. size - 1
BY SmallSets DEF Before, IsMap

\* No child of any node is below 1.
LEMMA UnderNone ==
  ASSUME NEW par, NEW p
  PROVE  Under(par, p, 1) = {} /\ Cardinality(Under(par, p, 1)) = 0
BY FS_EmptySet DEF Under

\* One more node adds one to the count of its parent only.
LEMMA UnderNext ==
  ASSUME NEW size, NEW par, IsMap(par, size), NEW c \in 1 .. size - 1, NEW p
  PROVE  /\ Under(par, p, c + 1) = Under(par, p, c) \cup IF par[c] = p THEN {c} ELSE {}
         /\ Cardinality(Under(par, p, c + 1)) =
              Cardinality(Under(par, p, c)) + IF par[c] = p THEN 1 ELSE 0
<1>1. size \in Nat /\ c \in Nat
  BY DEF IsMap
<1>2. 1 .. (c + 1) - 1 = (1 .. c - 1) \cup {c}
  BY <1>1
<1>3. Under(par, p, c + 1) = Under(par, p, c) \cup IF par[c] = p THEN {c} ELSE {}
  BY <1>2 DEF Under
<1>4. c \notin Under(par, p, c)
  BY <1>1 DEF Under
<1>5. IsFiniteSet(Under(par, p, c)) /\ Cardinality(Under(par, p, c)) \in Nat
  BY <1>1, UnderSize
<1>6. CASE par[c] = p
  BY <1>3, <1>4, <1>5, <1>6, FS_AddElement
<1>7. CASE par[c] # p
  <2>1. Under(par, p, c + 1) = Under(par, p, c)
    BY <1>3, <1>7
  <2>. QED  BY <1>3, <1>5, <1>7, <2>1
<1>. QED  BY <1>3, <1>6, <1>7

LEMMA UnderGrows ==
  ASSUME NEW size, NEW par, IsMap(par, size), NEW p,
         NEW l \in 0 .. size, NEW m \in 0 .. size, l <= m
  PROVE  Cardinality(Under(par, p, l)) <= Cardinality(Under(par, p, m))
<1>0. size \in Nat
  BY DEF IsMap
<1>1. \A c \in 1 .. l - 1 : c \in 1 .. m - 1
  BY <1>0
<1>2. Under(par, p, l) \subseteq Under(par, p, m)
  BY <1>1 DEF Under
<1>. QED  BY <1>2, UnderSize, FS_Subset

LEMMA BeforeEnds ==
  ASSUME NEW size, NEW par, IsMap(par, size)
  PROVE  /\ Cardinality(Before(par, 0, size)) = 0
         /\ Cardinality(Before(par, size, size)) = size - 1
<1>1. Before(par, 0, size) = {} /\ Before(par, size, size) = 1 .. size - 1
  BY DEF Before, IsMap
<1>2. Cardinality(1 .. size - 1) = size - 1
  <2>1. size \in Nat \ {0}
    BY DEF IsMap
  <2>. QED  BY <2>1, FS_Interval
<1>. QED  BY <1>1, <1>2, FS_EmptySet

\* The prefix sum: the nodes with a parent up to j are those with a parent
\* below j and the children of j.
LEMMA BeforeNext ==
  ASSUME NEW size, NEW par, IsMap(par, size), NEW j \in 0 .. size - 1
  PROVE  Cardinality(Before(par, j + 1, size)) =
           Cardinality(Before(par, j, size)) + Cardinality(Under(par, j, size))
<1> DEFINE B == Before(par, j, size)
           U == Under(par, j, size)
<1>1. size \in Nat \ {0} /\ j \in Nat /\ size \in 0 .. size
  BY DEF IsMap
<1>2. \A c \in 1 .. size - 1 : par[c] \in Nat
  BY DEF IsMap
<1>3. \A c : c \in Before(par, j + 1, size) <=> c \in B \/ c \in U
  BY <1>1, <1>2 DEF Before, Under
<1>4. \A c : ~(c \in B /\ c \in U)
  BY <1>1, <1>2 DEF Before, Under
<1>5. IsFiniteSet(B) /\ Cardinality(B) \in Nat
  BY <1>1, BeforeSize
<1>6. IsFiniteSet(U) /\ Cardinality(U) \in Nat
  BY <1>1, UnderSize
<1> HIDE DEF B, U
<1>7. Before(par, j + 1, size) = B \cup U /\ B \cap U = {}
  BY <1>3, <1>4
<1>8. Cardinality(B \cup U) = Cardinality(B) + Cardinality(U) - Cardinality(B \cap U)
  BY <1>5, <1>6, FS_Union
<1>9. Cardinality(Before(par, j + 1, size)) = Cardinality(B) + Cardinality(U)
  <2>1. Cardinality(B \cap U) = 0
    BY <1>7, FS_EmptySet, Zenon
  <2>2. Cardinality(B \cup U) = Cardinality(B) + Cardinality(U)
    BY <1>5, <1>6, <1>8, <2>1
  <2>. QED  BY <1>7, <2>2, Zenon
<1>. QED  BY <1>9 DEF B, U

LEMMA BeforeGrows ==
  ASSUME NEW size, NEW par, IsMap(par, size),
         NEW j \in 0 .. size, NEW k \in 0 .. size, j <= k
  PROVE  Cardinality(Before(par, j, size)) <= Cardinality(Before(par, k, size))
<1>1. Before(par, j, size) \subseteq Before(par, k, size)
  BY DEF Before, IsMap
<1>. QED  BY <1>1, BeforeSize, FS_Subset

-----------------------------------------------------------------------------
(* The inductive invariant: what each loop has established at its index.   *)

FoldInv ==
  /\ arena \in Arenas
  /\ pc \in {"fold", "count", "prefix", "scatter", "done"}
  /\ sub \in [Ids -> 0 .. U64Mod - 1]
  /\ pc = "fold" => i \in 0 .. n - 1
  /\ pc # "fold" => off \in [0 .. n -> 0 .. n - 1]

CountInv ==
  pc = "count" =>
    /\ i \in 1 .. n
    /\ off[0] = 0
    /\ \A p \in Ids : off[p + 1] = Cardinality(Under(parent, p, i))

PrefixInv ==
  pc = "prefix" =>
    /\ i \in 0 .. n
    /\ \A j \in 0 .. i : off[j] = Cardinality(Before(parent, j, n))
    /\ \A p \in Ids : p >= i => off[p + 1] = Cardinality(Under(parent, p, n))

Scattering == pc \in {"scatter", "done"}

OffsetsInv ==
  Scattering => \A j \in 0 .. n : off[j] = Cardinality(Before(parent, j, n))

\* The slots of p that are filled.
Filled(p) == off[p] .. cur[p] - 1

ScatterInv ==
  Scattering =>
    /\ i \in 1 .. n
    /\ pc = "done" => i = n
    /\ edges \in [0 .. off[n] - 1 -> Ids]
    /\ cur \in [Ids -> 0 .. n - 1]
    /\ \A p \in Ids : cur[p] = off[p] + Cardinality(Under(parent, p, i))

SliceInv ==
  Scattering =>
    \A p \in Ids :
      /\ \A k \in Filled(p) : edges[k] \in Under(parent, p, i)
      /\ \A c \in Under(parent, p, i) : \E k \in Filled(p) : edges[k] = c
      /\ \A j, k \in Filled(p) : j < k => edges[j] < edges[k]

SFInv == FoldInv /\ CountInv /\ PrefixInv /\ OffsetsInv /\ ScatterInv /\ SliceInv

LEMMA ArenaIsMap ==
  ASSUME arena \in Arenas
  PROVE  /\ n \in Nat \ {0}
         /\ IsMap(parent, n)
         /\ \A c \in 1 .. n - 1 : parent[c] \in Ids /\ parent[c] < c
         /\ own \in [Ids -> 0 .. U64Mod - 1]
BY SizeFoldAssumption DEF IsArena, ParentsFirst, IsMap, n, parent, own, Ids

\* Where the slots of each node lie, given the invariant.
LEMMA Room ==
  ASSUME arena \in Arenas, OffsetsInv, ScatterInv, Scattering
  PROVE  /\ off[n] = n - 1
         /\ \A p \in Ids : /\ off[p] \in Nat /\ cur[p] \in Nat /\ off[p + 1] \in Nat
                           /\ off[p] <= cur[p] /\ cur[p] <= off[p + 1]
         /\ \A p \in Ids : p = parent[i] /\ i < n => cur[p] < off[p + 1]
         /\ \A p, q \in Ids : p < q => off[p + 1] <= off[q]
         /\ \A p \in Ids : off[p + 1] <= n - 1
<1>1. /\ n \in Nat \ {0} /\ IsMap(parent, n) /\ i \in 1 .. n
      /\ \A p \in Ids : p \in 0 .. n /\ p + 1 \in 0 .. n
      /\ n \in 0 .. n
  BY ArenaIsMap DEF ScatterInv, Ids
<1>2. off[n] = n - 1
  BY <1>1, BeforeEnds DEF OffsetsInv
<1>3. ASSUME NEW p \in Ids
      PROVE  /\ off[p] \in Nat
             /\ off[p + 1] = off[p] + Cardinality(Under(parent, p, n))
             /\ off[p + 1] <= n - 1
  <2>1. Cardinality(Before(parent, p, n)) \in Nat /\ Cardinality(Before(parent, p + 1, n)) <= n - 1
    BY <1>1, BeforeSize
  <2>. QED  BY <1>1, <2>1, BeforeNext DEF OffsetsInv, Ids
<1>4. ASSUME NEW p \in Ids
      PROVE  /\ cur[p] \in Nat /\ off[p + 1] \in Nat
             /\ off[p] <= cur[p] /\ cur[p] <= off[p + 1]
             /\ p = parent[i] /\ i < n => cur[p] < off[p + 1]
  <2>1. cur[p] = off[p] + Cardinality(Under(parent, p, i))
    BY DEF ScatterInv
  <2>2. Cardinality(Under(parent, p, i)) \in Nat /\ Cardinality(Under(parent, p, n)) \in Nat
    BY <1>1, UnderSize
  <2>3. Cardinality(Under(parent, p, i)) <= Cardinality(Under(parent, p, n))
    BY <1>1, UnderGrows
  <2>4. ASSUME p = parent[i], i < n
        PROVE  Cardinality(Under(parent, p, i)) < Cardinality(Under(parent, p, n))
    <3>1. i \in 1 .. n - 1 /\ i + 1 \in 0 .. n /\ i + 1 <= n
      BY <1>1, <2>4
    <3>2. Cardinality(Under(parent, p, i + 1)) = Cardinality(Under(parent, p, i)) + 1
      BY <1>1, <2>4, <3>1, UnderNext
    <3>3. Cardinality(Under(parent, p, i + 1)) <= Cardinality(Under(parent, p, n))
      BY <1>1, <3>1, UnderGrows
    <3>4. Cardinality(Under(parent, p, i + 1)) \in Nat
      BY <1>1, <3>1, UnderSize
    <3>. QED  BY <2>2, <3>2, <3>3, <3>4
  <2>. QED  BY <1>3, <2>1, <2>2, <2>3, <2>4
<1>5. ASSUME NEW p \in Ids, NEW q \in Ids, p < q
      PROVE  off[p + 1] <= off[q]
  <2>1. p + 1 \in 0 .. n /\ q \in 0 .. n /\ p + 1 <= q
    BY <1>1, <1>5 DEF Ids
  <2>. QED  BY <1>1, <2>1, BeforeGrows DEF OffsetsInv
<1>. QED  BY <1>2, <1>3, <1>4, <1>5

-----------------------------------------------------------------------------

LEMMA SFInit == Init => SFInv
<1> SUFFICES ASSUME Init PROVE SFInv
  OBVIOUS
<1>1. n \in Nat \ {0} /\ own \in [Ids -> 0 .. U64Mod - 1]
  BY ArenaIsMap DEF Init
<1>2. FoldInv
  BY <1>1 DEF Init, FoldInv, n, own
<1>. QED
  BY <1>2 DEF Init, SFInv, CountInv, PrefixInv, OffsetsInv, ScatterInv, SliceInv, Scattering

-----------------------------------------------------------------------------
(* Each action preserves the invariant.                                    *)

LEMMA Frame ==
  ASSUME arena' = arena
  PROVE  n' = n /\ parent' = parent /\ own' = own /\ Ids' = Ids
BY DEF n, parent, own, Ids

LEMMA FoldStep ==
  ASSUME SFInv, Fold
  PROVE  SFInv'
<1>1. arena' = arena /\ n' = n /\ Ids' = Ids /\ pc = "fold" /\ pc' = "fold" /\ arena \in Arenas
  BY Frame DEF Fold, SFInv, FoldInv
<1>2. i \in 1 .. n - 1 /\ i' = i - 1 /\ i' \in 0 .. n - 1
  BY <1>1, ArenaIsMap DEF Fold, SFInv, FoldInv
<1>3. NewTotal \in 0 .. U64Mod - 1
  <2>1. parent[i] \in Ids /\ i \in Ids
    BY <1>1, <1>2, ArenaIsMap DEF Ids
  <2>2. sub[parent[i]] + sub[i] \in Nat /\ U64Mod \in Nat \ {0}
    BY <2>1, SizeFoldAssumption DEF SFInv, FoldInv
  <2>. QED  BY <2>2 DEF NewTotal
<1>4. sub' \in [Ids -> 0 .. U64Mod - 1]
  BY <1>3 DEF Fold, SFInv, FoldInv
<1>5. FoldInv'
  BY <1>1, <1>2, <1>4 DEF FoldInv
<1>. QED
  BY <1>1, <1>5 DEF SFInv, CountInv, PrefixInv, OffsetsInv, ScatterInv, SliceInv, Scattering

LEMMA StartCountStep ==
  ASSUME SFInv, StartCount
  PROVE  SFInv'
<1>1. /\ arena' = arena /\ n' = n /\ Ids' = Ids /\ parent' = parent
      /\ pc' = "count" /\ arena \in Arenas /\ sub' = sub /\ i' = 1
      /\ off' = [j \in 0 .. n |-> 0]
  BY Frame DEF StartCount, SFInv, FoldInv
<1>2. n \in Nat \ {0}
  BY <1>1, ArenaIsMap
<1>3. FoldInv'
  BY <1>1, <1>2 DEF SFInv, FoldInv
<1>4. CountInv'
  <2>1. ASSUME NEW p \in Ids
        PROVE  off'[p + 1] = Cardinality(Under(parent, p, 1))
    <3>1. p + 1 \in 0 .. n
      BY <1>2 DEF Ids
    <3>. QED  BY <1>1, <3>1, UnderNone
  <2>. QED  BY <1>1, <1>2, <2>1 DEF CountInv
<1>. QED
  BY <1>1, <1>3, <1>4 DEF SFInv, PrefixInv, OffsetsInv, ScatterInv, SliceInv, Scattering

LEMMA CountStep ==
  ASSUME SFInv, Count
  PROVE  SFInv'
<1>1. /\ arena' = arena /\ n' = n /\ Ids' = Ids /\ parent' = parent
      /\ pc = "count" /\ pc' = "count" /\ arena \in Arenas /\ sub' = sub /\ i' = i + 1
      /\ off' = [off EXCEPT ![parent[i] + 1] = @ + 1]
      /\ off \in [0 .. n -> 0 .. n - 1]
  BY Frame DEF Count, SFInv, FoldInv
<1>2. n \in Nat \ {0} /\ IsMap(parent, n) /\ i \in 1 .. n - 1 /\ parent[i] \in Ids
  BY <1>1, ArenaIsMap DEF Count, SFInv, CountInv
<1>3. i' \in 1 .. n /\ i + 1 \in 0 .. n
  BY <1>1, <1>2
<1>4. ASSUME NEW p \in Ids
      PROVE  /\ off'[p + 1] = Cardinality(Under(parent, p, i + 1))
             /\ off'[p + 1] \in 0 .. n - 1
  <2>1. p \in Nat /\ parent[i] \in Nat /\ p + 1 \in 0 .. n
    BY <1>2 DEF Ids
  <2>2. off'[p + 1] = off[p + 1] + IF parent[i] = p THEN 1 ELSE 0
    BY <1>1, <2>1
  <2>3. off[p + 1] = Cardinality(Under(parent, p, i))
    BY <1>1 DEF SFInv, CountInv
  <2>4. off'[p + 1] = Cardinality(Under(parent, p, i + 1))
    BY <1>2, <2>2, <2>3, UnderNext
  <2>. QED  BY <1>2, <1>3, <2>4, UnderSize
<1>5. off'[0] = 0
  <2>1. parent[i] + 1 # 0 /\ 0 \in 0 .. n
    BY <1>2 DEF Ids
  <2>2. off[0] = 0
    BY <1>1 DEF SFInv, CountInv
  <2>. QED  BY <1>1, <2>1, <2>2
<1>6. off' \in [0 .. n -> 0 .. n - 1]
  <2>1. off' = [j \in 0 .. n |-> off'[j]]
    BY <1>1
  <2>2. ASSUME NEW j \in 0 .. n PROVE off'[j] \in 0 .. n - 1
    <3>1. CASE j = 0
      BY <1>2, <1>5, <3>1
    <3>2. CASE j # 0
      <4>1. j - 1 \in Ids /\ (j - 1) + 1 = j
        BY <1>2, <3>2 DEF Ids
      <4>. QED  BY <1>4, <4>1
    <3>. QED  BY <3>1, <3>2
  <2>. QED  BY <2>1, <2>2
<1>7. FoldInv'
  BY <1>1, <1>6 DEF SFInv, FoldInv
<1>8. CountInv'
  BY <1>1, <1>3, <1>4, <1>5 DEF CountInv
<1>. QED
  BY <1>1, <1>7, <1>8 DEF SFInv, PrefixInv, OffsetsInv, ScatterInv, SliceInv, Scattering

LEMMA StartPrefixStep ==
  ASSUME SFInv, StartPrefix
  PROVE  SFInv'
<1>1. /\ arena' = arena /\ n' = n /\ Ids' = Ids /\ parent' = parent /\ off' = off
      /\ pc = "count" /\ pc' = "prefix" /\ arena \in Arenas /\ sub' = sub /\ i' = 0
  BY Frame DEF StartPrefix, SFInv, FoldInv
<1>2. n \in Nat \ {0} /\ IsMap(parent, n) /\ i = n
  BY <1>1, ArenaIsMap DEF StartPrefix, SFInv, CountInv
<1>3. FoldInv'
  BY <1>1 DEF SFInv, FoldInv
<1>4. off[0] = Cardinality(Before(parent, 0, n))
  BY <1>1, <1>2, BeforeEnds DEF SFInv, CountInv
<1>5. PrefixInv'
  <2>1. \A p \in Ids : off[p + 1] = Cardinality(Under(parent, p, n))
    BY <1>1, <1>2 DEF SFInv, CountInv
  <2>. QED  BY <1>1, <1>2, <1>4, <2>1 DEF PrefixInv
<1>. QED
  BY <1>1, <1>3, <1>5 DEF SFInv, CountInv, OffsetsInv, ScatterInv, SliceInv, Scattering

LEMMA PrefixStep ==
  ASSUME SFInv, Prefix
  PROVE  SFInv'
<1>1. /\ arena' = arena /\ n' = n /\ Ids' = Ids /\ parent' = parent
      /\ pc = "prefix" /\ pc' = "prefix" /\ arena \in Arenas /\ sub' = sub /\ i' = i + 1
      /\ off' = [off EXCEPT ![i + 1] = @ + off[i]]
      /\ off \in [0 .. n -> 0 .. n - 1]
  BY Frame DEF Prefix, SFInv, FoldInv
<1>2. n \in Nat \ {0} /\ IsMap(parent, n) /\ i \in 0 .. n - 1
  BY <1>1, ArenaIsMap DEF Prefix, SFInv, PrefixInv
<1>3. i' \in 0 .. n /\ i \in Ids /\ i + 1 \in 0 .. n
  BY <1>1, <1>2 DEF Ids
<1>4. off'[i + 1] = Cardinality(Before(parent, i + 1, n))
  <2>1. off[i + 1] = Cardinality(Under(parent, i, n))
    BY <1>1, <1>2, <1>3 DEF SFInv, PrefixInv
  <2>2. off[i] = Cardinality(Before(parent, i, n))
    BY <1>1, <1>2 DEF SFInv, PrefixInv
  <2>3. Cardinality(Before(parent, i, n)) \in Nat /\ Cardinality(Under(parent, i, n)) \in Nat
    <3>1. n \in 0 .. n
      BY <1>2
    <3>. QED  BY <1>2, <3>1, BeforeSize, UnderSize
  <2>4. off'[i + 1] = off[i + 1] + off[i]
    BY <1>1, <1>3
  <2>. QED  BY <1>2, <2>1, <2>2, <2>3, <2>4, BeforeNext
<1>5. off'[i + 1] \in 0 .. n - 1
  BY <1>2, <1>4, BeforeSize
<1>6. \A j \in 0 .. n : j # i + 1 => off'[j] = off[j]
  BY <1>1
<1>7. FoldInv'
  <2>1. off' \in [0 .. n -> 0 .. n - 1]
    BY <1>1, <1>5
  <2>. QED  BY <1>1, <2>1 DEF SFInv, FoldInv
<1>8. PrefixInv'
  <2>1. ASSUME NEW j \in 0 .. i + 1
        PROVE  off'[j] = Cardinality(Before(parent, j, n))
    <3>1. CASE j = i + 1
      BY <1>4, <3>1
    <3>2. CASE j # i + 1
      <4>1. j \in 0 .. i /\ j \in 0 .. n
        BY <1>2, <3>2
      <4>. QED  BY <1>1, <1>6, <3>2, <4>1 DEF SFInv, PrefixInv
    <3>. QED  BY <3>1, <3>2
  <2>2. ASSUME NEW p \in Ids, p >= i + 1
        PROVE  off'[p + 1] = Cardinality(Under(parent, p, n))
    <3>1. p + 1 \in 0 .. n /\ p + 1 # i + 1 /\ p >= i
      BY <1>2, <2>2 DEF Ids
    <3>. QED  BY <1>1, <1>6, <3>1 DEF SFInv, PrefixInv
  <2>. QED  BY <1>1, <1>3, <2>1, <2>2 DEF PrefixInv
<1>. QED
  BY <1>1, <1>7, <1>8 DEF SFInv, CountInv, OffsetsInv, ScatterInv, SliceInv, Scattering

LEMMA StartScatterStep ==
  ASSUME SFInv, StartScatter
  PROVE  SFInv'
<1>1. /\ arena' = arena /\ n' = n /\ Ids' = Ids /\ parent' = parent /\ off' = off
      /\ pc = "prefix" /\ pc' = "scatter" /\ arena \in Arenas /\ sub' = sub /\ i' = 1
      /\ edges' = [k \in 0 .. off[n] - 1 |-> 0]
      /\ cur' = [p \in Ids |-> off[p]]
      /\ off \in [0 .. n -> 0 .. n - 1]
  BY Frame DEF StartScatter, SFInv, FoldInv
<1>2. n \in Nat \ {0} /\ IsMap(parent, n) /\ i = n /\ 0 \in Ids
  BY <1>1, ArenaIsMap DEF StartScatter, SFInv, PrefixInv, Ids
<1>3. FoldInv'
  BY <1>1 DEF SFInv, FoldInv
<1>4. OffsetsInv'
  BY <1>1, <1>2 DEF SFInv, PrefixInv, OffsetsInv
<1>5. ASSUME NEW p \in Ids
      PROVE  /\ off[p] \in 0 .. n - 1 /\ cur'[p] = off[p]
             /\ Under(parent, p, 1) = {} /\ Cardinality(Under(parent, p, 1)) = 0
  <2>1. p \in 0 .. n
    BY <1>2 DEF Ids
  <2>. QED  BY <1>1, <2>1, UnderNone
<1>6. ScatterInv'
  <2>1. edges' \in [0 .. off'[n] - 1 -> Ids] /\ cur' \in [Ids -> 0 .. n - 1]
    BY <1>1, <1>2, <1>5
  <2>2. \A p \in Ids : cur'[p] = off'[p] + Cardinality(Under(parent, p, 1))
    BY <1>1, <1>5
  <2>3. 1 \in 1 .. n
    BY <1>2
  <2>. QED  BY <1>1, <2>1, <2>2, <2>3 DEF ScatterInv
<1>7. SliceInv'
  <2>1. ASSUME NEW p \in Ids PROVE Filled(p)' = {} /\ Under(parent, p, 1) = {}
    BY <1>1, <1>5 DEF Filled
  <2>. QED  BY <1>1, <2>1 DEF SliceInv
<1>. QED  BY <1>1, <1>3, <1>4, <1>6, <1>7 DEF SFInv, CountInv, PrefixInv

LEMMA ScatterStep ==
  ASSUME SFInv, Scatter
  PROVE  SFInv'
<1>1. /\ arena' = arena /\ n' = n /\ Ids' = Ids /\ parent' = parent /\ off' = off
      /\ pc = "scatter" /\ pc' = "scatter" /\ arena \in Arenas /\ sub' = sub /\ i' = i + 1
      /\ edges' = [edges EXCEPT ![cur[parent[i]]] = i]
      /\ cur' = [cur EXCEPT ![parent[i]] = @ + 1]
  BY Frame DEF Scatter, Slot, SFInv, FoldInv
<1>2. /\ n \in Nat \ {0} /\ IsMap(parent, n) /\ i \in 1 .. n - 1 /\ i \in Ids /\ i < n
      /\ parent[i] \in Ids /\ i' \in 1 .. n /\ i + 1 \in 0 .. n
  BY <1>1, ArenaIsMap DEF Scatter, SFInv, ScatterInv, Scattering, Ids
<1>3. /\ edges \in [0 .. off[n] - 1 -> Ids]
      /\ cur \in [Ids -> 0 .. n - 1]
      /\ \A p \in Ids : cur[p] = off[p] + Cardinality(Under(parent, p, i))
  BY <1>1 DEF SFInv, ScatterInv, Scattering
<1>4. /\ off[n] = n - 1
      /\ \A p \in Ids : /\ off[p] \in Nat /\ cur[p] \in Nat /\ off[p + 1] \in Nat
                        /\ off[p] <= cur[p] /\ cur[p] <= off[p + 1]
      /\ cur[parent[i]] < off[parent[i] + 1]
      /\ \A p, q \in Ids : p < q => off[p + 1] <= off[q]
      /\ off[parent[i] + 1] <= n - 1
  BY <1>1, <1>2, Room DEF SFInv, Scattering
<1>5. \A p \in Ids :
        /\ Under(parent, p, i + 1) = Under(parent, p, i) \cup IF parent[i] = p THEN {i} ELSE {}
        /\ Cardinality(Under(parent, p, i + 1)) =
             Cardinality(Under(parent, p, i)) + IF parent[i] = p THEN 1 ELSE 0
  BY <1>2, UnderNext
<1>6. FoldInv' /\ OffsetsInv'
  BY <1>1 DEF SFInv, FoldInv, OffsetsInv, Scattering
<1>7. ASSUME NEW p \in Ids
      PROVE  cur'[p] = cur[p] + IF parent[i] = p THEN 1 ELSE 0
  BY <1>1, <1>2, <1>3
<1>8. ScatterInv'
  <2>1. cur[parent[i]] \in 0 .. off[n] - 1 /\ cur[parent[i]] + 1 \in 0 .. n - 1
    BY <1>2, <1>4 DEF Ids
  <2>2. edges' \in [0 .. off[n] - 1 -> Ids]
    BY <1>1, <1>2, <1>3, <2>1
  <2>3. cur' \in [Ids -> 0 .. n - 1]
    BY <1>1, <1>2, <1>3, <2>1
  <2>4. ASSUME NEW p \in Ids
        PROVE  cur'[p] = off[p] + Cardinality(Under(parent, p, i + 1))
    <3>1. i \in 0 .. n
      BY <1>2
    <3>2. Cardinality(Under(parent, p, i)) \in Nat
      BY <1>2, <3>1, UnderSize
    <3>3. cur[p] = off[p] + Cardinality(Under(parent, p, i)) /\ off[p] \in Nat
      BY <1>3, <1>4
    <3>. QED  BY <1>5, <1>7, <3>2, <3>3
  <2>. QED  BY <1>1, <1>2, <2>2, <2>3, <2>4 DEF ScatterInv, Scattering
<1>9. ASSUME NEW p \in Ids, NEW k \in Filled(p)
      PROVE  k # cur[parent[i]] /\ edges'[k] = edges[k]
  <2>1. p \in Int /\ parent[i] \in Int
    BY <1>2 DEF Ids
  <2>2. k \in Nat /\ off[p] <= k /\ k < cur[p]
    BY <1>4 DEF Filled
  <2>3. CASE p = parent[i]
    BY <1>1, <1>4, <2>2, <2>3
  <2>4. CASE p < parent[i]
    <3>1. /\ off[p + 1] <= off[parent[i]] /\ cur[p] <= off[p + 1]
          /\ off[parent[i]] <= cur[parent[i]]
          /\ {cur[p], off[p + 1], off[parent[i]], cur[parent[i]]} \subseteq Nat
      BY <1>2, <1>4, <2>4
    <3>2. k # cur[parent[i]]
      BY <2>2, <3>1
    <3>. QED  BY <1>1, <3>2
  <2>5. CASE parent[i] < p
    <3>1. /\ off[parent[i] + 1] <= off[p] /\ cur[parent[i]] < off[parent[i] + 1]
          /\ {cur[parent[i]], off[parent[i] + 1], off[p]} \subseteq Nat
      BY <1>2, <1>4, <2>5
    <3>2. k # cur[parent[i]]
      BY <2>2, <3>1
    <3>. QED  BY <1>1, <3>2
  <2>. QED  BY <2>1, <2>3, <2>4, <2>5
<1>10. edges'[cur[parent[i]]] = i
  <2>1. cur[parent[i]] \in 0 .. off[n] - 1
    <3>1. cur[parent[i]] < off[parent[i] + 1] /\ off[parent[i] + 1] <= n - 1 /\ off[n] = n - 1
      BY <1>4
    <3>2. cur[parent[i]] \in Nat /\ off[parent[i] + 1] \in Nat /\ n \in Nat
      BY <1>2, <1>4
    <3>. QED  BY <3>1, <3>2
  <2>. QED  BY <1>1, <1>3, <2>1
<1>11. SliceInv'
  <2> SUFFICES ASSUME NEW p \in Ids
               PROVE  /\ \A k \in Filled(p)' : edges'[k] \in Under(parent, p, i + 1)
                      /\ \A c \in Under(parent, p, i + 1) : \E k \in Filled(p)' : edges'[k] = c
                      /\ \A j, k \in Filled(p)' : j < k => edges'[j] < edges'[k]
    BY <1>1 DEF SliceInv
  <2>1. /\ \A k \in Filled(p) : edges[k] \in Under(parent, p, i)
        /\ \A c \in Under(parent, p, i) : \E k \in Filled(p) : edges[k] = c
        /\ \A j, k \in Filled(p) : j < k => edges[j] < edges[k]
    BY <1>1 DEF SFInv, SliceInv, Scattering
  <2>2. CASE parent[i] # p
    <3>1. Filled(p)' = Filled(p) /\ Under(parent, p, i + 1) = Under(parent, p, i)
      <4>1. cur'[p] = cur[p]
        BY <1>4, <1>7, <2>2
      <4>2. Under(parent, p, i + 1) = Under(parent, p, i)
        BY <1>5, <2>2
      <4>. QED  BY <1>1, <4>1, <4>2 DEF Filled
    <3>. QED  BY <1>9, <2>1, <3>1
  <2>3. CASE parent[i] = p
    <3>1. /\ cur[p] \in Int /\ off[p] \in Int /\ off[p] <= cur[p]
          /\ Filled(p)' = off[p] .. (cur[p] + 1) - 1
      BY <1>1, <1>4, <1>7, <2>3 DEF Filled
    <3>2. \A k : k \in Filled(p)' <=> k \in Filled(p) \/ k = cur[p]
      <4>1. Filled(p) = off[p] .. cur[p] - 1
        BY DEF Filled
      <4>. QED  BY <3>1, <4>1
    <3>3. \A c : c \in Under(parent, p, i + 1) <=> c \in Under(parent, p, i) \/ c = i
      BY <1>5, <2>3
    <3>4. \A k \in Filled(p) : k < cur[p] /\ k \in Int
      BY <3>1 DEF Filled
    <3>5. \A c \in Under(parent, p, i) : c < i /\ c \in Int
      BY <1>2 DEF Under
    <3>6. \A k \in Filled(p)' : edges'[k] \in Under(parent, p, i + 1)
      BY <1>9, <1>10, <2>1, <2>3, <3>2, <3>3
    <3>7. ASSUME NEW c \in Under(parent, p, i + 1)
          PROVE  \E k \in Filled(p)' : edges'[k] = c
      <4>1. CASE c = i
        BY <1>10, <2>3, <3>2, <4>1
      <4>2. CASE c \in Under(parent, p, i)
        BY <1>9, <2>1, <3>2, <4>2
      <4>. QED  BY <3>3, <4>1, <4>2
    <3>8. ASSUME NEW j \in Filled(p)', NEW k \in Filled(p)', j < k
          PROVE  edges'[j] < edges'[k]
      <4>1. j \in Filled(p)
        BY <3>2, <3>4, <3>8, <3>1
      <4>2. CASE k \in Filled(p)
        BY <1>9, <2>1, <3>8, <4>1, <4>2
      <4>3. CASE k = cur[p]
        BY <1>9, <1>10, <2>1, <2>3, <3>5, <4>1, <4>3
      <4>. QED  BY <3>2, <4>2, <4>3
    <3>. QED  BY <3>6, <3>7, <3>8
  <2>. QED  BY <2>2, <2>3
<1>. QED  BY <1>1, <1>6, <1>8, <1>11 DEF SFInv, CountInv, PrefixInv

LEMMA ReturnStep ==
  ASSUME SFInv, Return \/ UNCHANGED vars
  PROVE  SFInv'
<1>1. CASE Return
  <2>1. /\ arena' = arena /\ n' = n /\ Ids' = Ids /\ parent' = parent /\ off' = off
        /\ pc = "scatter" /\ pc' = "done" /\ arena \in Arenas /\ sub' = sub /\ i' = i
        /\ edges' = edges /\ cur' = cur
    BY <1>1, Frame DEF Return, SFInv, FoldInv
  <2>2. i = n
    BY <1>1, <2>1, ArenaIsMap DEF Return, SFInv, ScatterInv, Scattering
  <2>3. FoldInv' /\ OffsetsInv' /\ ScatterInv'
    BY <2>1, <2>2 DEF SFInv, FoldInv, OffsetsInv, ScatterInv, Scattering
  <2>4. SliceInv'
    BY <2>1 DEF SFInv, SliceInv, Scattering, Filled
  <2>. QED  BY <2>1, <2>3, <2>4 DEF SFInv, CountInv, PrefixInv
<1>2. CASE UNCHANGED vars
  <2>1. /\ arena' = arena /\ n' = n /\ Ids' = Ids /\ parent' = parent /\ off' = off
        /\ pc' = pc /\ sub' = sub /\ i' = i /\ edges' = edges /\ cur' = cur
    BY <1>2, Frame DEF vars
  <2>2. FoldInv' /\ CountInv' /\ PrefixInv' /\ OffsetsInv' /\ ScatterInv'
    BY <2>1 DEF SFInv, FoldInv, CountInv, PrefixInv, OffsetsInv, ScatterInv, Scattering
  <2>3. SliceInv'
    BY <2>1 DEF SFInv, SliceInv, Scattering, Filled
  <2>. QED  BY <2>2, <2>3 DEF SFInv
<1>. QED  BY <1>1, <1>2

LEMMA SFStep ==
  ASSUME SFInv, [Next]_vars
  PROVE  SFInv'
<1>1. CASE Fold
  BY <1>1, FoldStep
<1>2. CASE StartCount \/ Count
  BY <1>2, StartCountStep, CountStep
<1>3. CASE StartPrefix \/ Prefix
  BY <1>3, StartPrefixStep, PrefixStep
<1>4. CASE StartScatter \/ Scatter
  BY <1>4, StartScatterStep, ScatterStep
<1>5. CASE Return \/ Terminated \/ UNCHANGED vars
  BY <1>5, ReturnStep DEF Terminated
<1>. QED  BY <1>1, <1>2, <1>3, <1>4, <1>5 DEF Next

-----------------------------------------------------------------------------

LEMMA AlwaysSFInv == Spec => []SFInv
<1>1. SFInv /\ [Next]_vars => SFInv'
  BY SFStep
<1>. QED  BY SFInit, <1>1, PTL DEF Spec

\* No pass writes outside its array: a child's slot is in its parent's part
\* of the edges, which have room for every node but the root.
LEMMA ScatterInBounds ==
  ASSUME SFInv, pc = "scatter", i < n
  PROVE  off[n] = n - 1 /\ Slot(parent[i]) \in off[parent[i]] .. off[parent[i] + 1] - 1
<1>1. parent[i] \in Ids
  BY ArenaIsMap DEF SFInv, FoldInv, ScatterInv, Scattering
<1>2. /\ off[n] = n - 1 /\ off[parent[i]] \in Nat /\ cur[parent[i]] \in Nat
      /\ off[parent[i]] <= cur[parent[i]] /\ cur[parent[i]] < off[parent[i] + 1]
  BY <1>1, Room DEF SFInv, FoldInv, Scattering
<1>3. off[parent[i] + 1] \in Nat
  BY <1>1, Room DEF SFInv, FoldInv, Scattering
<1>. QED  BY <1>2, <1>3 DEF Slot

LEMMA IndexListed ==
  ASSUME SFInv, pc = "done", NEW p \in Ids
  PROVE  /\ {Of(p)[k] : k \in DOMAIN Of(p)} = Children(p)
         /\ \A j, k \in DOMAIN Of(p) : j < k => Of(p)[j] < Of(p)[k]
<1>1. n \in Nat \ {0} /\ IsMap(parent, n) /\ i = n /\ p \in 0 .. n /\ n \in 0 .. n /\ p \in 0 .. n - 1
  BY ArenaIsMap DEF SFInv, FoldInv, ScatterInv, Scattering, Ids
<1>2. Under(parent, p, i) = Children(p)
  BY <1>1 DEF Under, Children
<1>3. off[p] \in Nat /\ cur[p] = off[p + 1] /\ cur[p] \in Nat /\ off[p] <= cur[p]
  <2>1. off[p + 1] = off[p] + Cardinality(Under(parent, p, n))
    <3>1. p + 1 \in 0 .. n
      BY <1>1
    <3>. QED  BY <1>1, <3>1, BeforeNext DEF SFInv, OffsetsInv, Scattering
  <2>2. cur[p] = off[p] + Cardinality(Under(parent, p, n))
    BY <1>1 DEF SFInv, ScatterInv, Scattering
  <2>. QED  BY <2>1, <2>2, Room DEF SFInv, FoldInv, Scattering
<1>4. /\ \A k \in Filled(p) : edges[k] \in Children(p)
      /\ \A c \in Children(p) : \E k \in Filled(p) : edges[k] = c
      /\ \A j, k \in Filled(p) : j < k => edges[j] < edges[k]
  BY <1>2 DEF SFInv, SliceInv, Scattering
<1>5. /\ DOMAIN Of(p) = 1 .. cur[p] - off[p]
      /\ \A k \in DOMAIN Of(p) : off[p] + k - 1 \in Filled(p) /\ Of(p)[k] = edges[off[p] + k - 1]
  BY <1>3 DEF Of, Filled
<1>6. \A k \in Filled(p) : k - off[p] + 1 \in DOMAIN Of(p) /\ Of(p)[k - off[p] + 1] = edges[k]
  BY <1>3 DEF Of, Filled
<1>7. {Of(p)[k] : k \in DOMAIN Of(p)} = Children(p)
  <2>1. \A k \in DOMAIN Of(p) : Of(p)[k] \in Children(p)
    BY <1>4, <1>5
  <2>2. \A c \in Children(p) : \E k \in DOMAIN Of(p) : Of(p)[k] = c
    BY <1>4, <1>6
  <2>. QED  BY <2>1, <2>2
<1>8. ASSUME NEW j \in DOMAIN Of(p), NEW k \in DOMAIN Of(p), j < k
      PROVE  Of(p)[j] < Of(p)[k]
  <2>1. j \in Int /\ k \in Int /\ off[p] + j - 1 < off[p] + k - 1
    BY <1>3, <1>5, <1>8
  <2>. QED  BY <1>4, <1>5, <2>1
<1>. QED  BY <1>7, <1>8

(***************************************************************************)
(* The index that count, prefix sum and scatter build is the children      *)
(* relation: each node's slice lists all of its children, in order, and no *)
(* write of the scatter falls outside the slice it is meant for.           *)
(***************************************************************************)
THEOREM IndexIsChildren == Spec => []ChildrenListed
<1>1. SFInv => ChildrenListed
  BY ScatterInBounds, IndexListed DEF ChildrenListed
<1>. QED  BY AlwaysSFInv, <1>1, PTL

(***************************************************************************)
(* The types, for every arena: totals stay in a u64, and the offsets and   *)
(* cursors in range.                                                       *)
(***************************************************************************)
THEOREM FoldTypeCorrect == Spec => []TypeOK
<1>1. SFInv => TypeOK
  <2> SUFFICES ASSUME SFInv PROVE TypeOK
    OBVIOUS
  <2>1. n \in Nat \ {0}
    BY ArenaIsMap DEF SFInv, FoldInv
  <2>2. i \in 0 .. n
    BY <2>1 DEF SFInv, FoldInv, CountInv, PrefixInv, ScatterInv, Scattering
  <2>. QED  BY <2>2 DEF TypeOK, SFInv, FoldInv, ScatterInv, Scattering
<1>. QED  BY AlwaysSFInv, <1>1, PTL

-----------------------------------------------------------------------------
(* Arithmetic modulo the number of u64 values.                             *)

LEMMA NoMultipleBetween ==
  ASSUME NEW M \in Nat \ {0}, NEW d \in Int, -M < M * d, M * d < M
  PROVE  d = 0
<1>1. CASE d >= 1
  <2>1. d - 1 \in Nat /\ M * d = M * (d - 1) + M
    BY <1>1
  <2>2. M * (d - 1) >= 0
    BY <2>1
  <2>. QED  BY <2>1, <2>2
<1>2. CASE d <= -1
  <2>1. -1 - d \in Nat /\ M * d = - (M * (-1 - d)) - M
    BY <1>2
  <2>2. M * (-1 - d) >= 0
    BY <2>1
  <2>. QED  BY <2>1, <2>2
<1>. QED  BY <1>1, <1>2

LEMMA ModUnique ==
  ASSUME NEW M \in Nat \ {0}, NEW k \in Int, NEW r \in 0 .. M - 1
  PROVE  (M * k + r) % M = r
<1> DEFINE x == M * k + r
           q == x \div M
           m == x % M
<1>1. x \in Int /\ M * k \in Int
  OBVIOUS
<1>2. q \in Int /\ m \in 0 .. M - 1 /\ x = M * q + m
  <2> HIDE DEF x
  <2>. QED  BY <1>1
<1>3. M * (k - q) = M * k - M * q /\ k - q \in Int
  <2> HIDE DEF q, m, x
  <2>. QED  BY <1>2
<1>4. M * (k - q) = m - r
  <2> HIDE DEF q, m
  <2>1. M * q \in Int
    BY <1>2
  <2>. QED  BY <1>1, <1>2, <1>3, <2>1
<1>5. k - q = 0
  <2> HIDE DEF q, m, x
  <2>. QED  BY <1>2, <1>3, <1>4, NoMultipleBetween
<1>6. m = r
  <2> HIDE DEF q, m, x
  <2>1. M * (k - q) = 0
    BY <1>5
  <2>. QED  BY <1>2, <1>4, <2>1
<1>. QED  BY <1>6

LEMMA Divided ==
  ASSUME NEW M \in Nat \ {0}, NEW x \in Int
  PROVE  \E k \in Int : x = M * k + (x % M)
<1>1. x \div M \in Int /\ x = M * (x \div M) + (x % M)
  OBVIOUS
<1>. WITNESS x \div M \in Int
<1>. QED  BY <1>1

LEMMA ModAdds ==
  ASSUME NEW M \in Nat \ {0}, NEW a \in Int, NEW b \in Int
  PROVE  ((a % M) + (b % M)) % M = (a + b) % M
<1>1. PICK ka \in Int : a = M * ka + (a % M)
  BY Divided
<1>2. PICK kb \in Int : b = M * kb + (b % M)
  BY Divided
<1>3. PICK ra \in Int, rb \in Int : ra = a % M /\ rb = b % M
  OBVIOUS
<1>4. PICK ks \in Int : ra + rb = M * ks + ((ra + rb) % M)
  <2>1. PICK z \in Int : z = ra + rb
    OBVIOUS
  <2>2. \E k \in Int : z = M * k + (z % M)
    BY Divided
  <2>. QED  BY <2>1, <2>2
<1>5. PICK rs \in 0 .. M - 1 : rs = (ra + rb) % M
  OBVIOUS
<1>6. a + b = M * (ka + kb + ks) + rs
  <2>1. a = M * ka + ra /\ b = M * kb + rb /\ ra + rb = M * ks + rs
    BY <1>1, <1>2, <1>3, <1>4, <1>5
  <2>2. M * (ka + kb + ks) = M * ka + M * kb + M * ks
    OBVIOUS
  <2>. QED  BY <2>1, <2>2
<1>7. (a + b) % M = rs
  BY <1>6, ModUnique, ka + kb + ks \in Int
<1>. QED  BY <1>3, <1>5, <1>7

LEMMA ModSmall ==
  ASSUME NEW M \in Nat \ {0}, NEW r \in 0 .. M - 1
  PROVE  r % M = r
BY ModUnique, M * 0 = 0

-----------------------------------------------------------------------------
(* The way from a node up to the root.                                     *)

\* A parent map that points backwards.
Backwards(par, size) == size \in Nat /\ \A c \in 1 .. size - 1 : par[c] \in 0 .. c - 1

WayRec(par, size, w) ==
  w = [c \in 0 .. size - 1 |-> {c} \cup IF c = 0 THEN {} ELSE w[par[c]]]

LEMMA WayAt ==
  ASSUME NEW size, NEW par, NEW w, WayRec(par, size, w), NEW c \in 0 .. size - 1
  PROVE  w[c] = {c} \cup IF c = 0 THEN {} ELSE w[par[c]]
BY DEF WayRec

\* The recursion has a solution: take one for a size less, apply it once more.
LEMMA WayExists ==
  ASSUME NEW size, NEW par, Backwards(par, size)
  PROVE  \E w : WayRec(par, size, w)
<1> DEFINE S == {m \in 0 .. size : ~ \E w : WayRec(par, m, w)}
<1>1. SUFFICES ASSUME S # {} PROVE FALSE
  BY DEF Backwards
<1>2. S \subseteq Nat
  BY DEF Backwards
<1>3. PICK m \in S : \A l \in S : m <= l
  <2> HIDE DEF S
  <2>. QED  BY <1>1, <1>2, SmallestNumber
<1>4. m # 0
  <2> DEFINE e == [c \in 0 .. 0 - 1 |-> {}]
  <2>1. e = [c \in 0 .. 0 - 1 |-> {c} \cup IF c = 0 THEN {} ELSE e[par[c]]]
    OBVIOUS
  <2> HIDE DEF e
  <2>2. WayRec(par, 0, e)
    BY <2>1 DEF WayRec
  <2>. QED  BY <1>3, <2>2
<1>5. m \in Nat \ {0} /\ m - 1 \in 0 .. size /\ m <= size
  BY <1>2, <1>3, <1>4 DEF Backwards
<1>6. PICK w : WayRec(par, m - 1, w)
  BY <1>3, <1>5
<1> DEFINE up == [c \in 0 .. m - 1 |-> {c} \cup IF c = 0 THEN {} ELSE w[par[c]]]
<1>7. \A c \in 0 .. m - 2 : up[c] = w[c]
  <2>1. \A c \in 0 .. (m - 1) - 1 : w[c] = {c} \cup IF c = 0 THEN {} ELSE w[par[c]]
    BY <1>6, WayAt
  <2>2. \A c \in 0 .. m - 2 : c \in 0 .. m - 1 /\ c \in 0 .. (m - 1) - 1
    BY <1>5
  <2>3. \A c \in 0 .. m - 1 : up[c] = {c} \cup IF c = 0 THEN {} ELSE w[par[c]]
    OBVIOUS
  <2> HIDE DEF up
  <2>. QED  BY <2>1, <2>2, <2>3
<1>8. \A c \in 0 .. m - 1 : c # 0 => up[par[c]] = w[par[c]]
  <2>1. \A c \in 1 .. m - 1 : par[c] \in 0 .. m - 2
    BY <1>5 DEF Backwards
  <2> HIDE DEF up
  <2>. QED  BY <1>5, <1>7, <2>1
<1>9. WayRec(par, m, up)
  <2>1. \A c \in 0 .. m - 1 : up[c] = {c} \cup IF c = 0 THEN {} ELSE up[par[c]]
    BY <1>8
  <2>2. up = [c \in 0 .. m - 1 |-> up[c]]
    OBVIOUS
  <2> HIDE DEF up
  <2>. QED  BY <2>1, <2>2 DEF WayRec
<1>. QED  BY <1>3, <1>9

\* It leads downwards in ids, holds the ways of those on it, and is a chain.
WayIsChain(w, c) ==
  /\ w[c] \subseteq 0 .. c /\ c \in w[c]
  /\ \A q \in w[c] : w[q] \subseteq w[c]
  /\ \A q, r \in w[c] : q \in w[r] \/ r \in w[q]

LEMMA WayFacts ==
  ASSUME NEW size, NEW par, Backwards(par, size), NEW w, WayRec(par, size, w)
  PROVE  \A c \in 0 .. size - 1 : WayIsChain(w, c)
<1> DEFINE S == {c \in 0 .. size - 1 : ~ WayIsChain(w, c)}
<1>1. SUFFICES ASSUME S # {} PROVE FALSE
  OBVIOUS
<1>2. S \subseteq Nat
  BY DEF Backwards
<1>3. PICK c \in S : \A d \in S : c <= d
  <2> HIDE DEF S
  <2>. QED  BY <1>1, <1>2, SmallestNumber
<1>4. c \in 0 .. size - 1 /\ ~ WayIsChain(w, c) /\ size \in Nat
  BY <1>3 DEF Backwards
<1>5. CASE c = 0
  <2>1. w[0] = {0}
    BY <1>4, <1>5, WayAt
  <2>. QED  BY <1>4, <1>5, <2>1 DEF WayIsChain
<1>6. CASE c # 0
  <2>1. PICK p : p = par[c]
    OBVIOUS
  <2>2. p \in 0 .. c - 1 /\ p \in 0 .. size - 1
    BY <1>4, <1>6, <2>1 DEF Backwards
  <2>3. WayIsChain(w, p)
    BY <1>3, <1>4, <2>2
  <2>4. w[c] = {c} \cup w[p]
    BY <1>4, <1>6, <2>1, WayAt
  <2>5. w[c] \subseteq 0 .. c /\ c \in w[c]
    BY <1>4, <2>2, <2>3, <2>4 DEF WayIsChain
  <2>6. \A q \in w[c] : w[q] \subseteq w[c]
    BY <2>3, <2>4 DEF WayIsChain
  <2>7. \A q, r \in w[c] : q \in w[r] \/ r \in w[q]
    BY <2>3, <2>4 DEF WayIsChain
  <2>. QED  BY <1>4, <2>5, <2>6, <2>7 DEF WayIsChain
<1>. QED  BY <1>5, <1>6

-----------------------------------------------------------------------------
(* What the total of a node counts.                                        *)

\* The nodes below p whose way up to p is above m throughout.
Counted(w, size, p, m) ==
  {c \in 0 .. size - 1 : p \in w[c] /\ \A q \in w[c] \ w[p] : q > m}

LEMMA CountedFirst ==
  ASSUME NEW size, NEW par, Backwards(par, size), NEW w, WayRec(par, size, w),
         NEW p \in 0 .. size - 1
  PROVE  Counted(w, size, p, size - 1) = {p}
<1>1. \A c \in 0 .. size - 1 : WayIsChain(w, c)
  BY WayFacts
<1>2. size \in Nat /\ p \in Counted(w, size, p, size - 1)
  BY <1>1 DEF Counted, WayIsChain, Backwards
<1>3. ASSUME NEW c \in Counted(w, size, p, size - 1) PROVE c = p
  <2>1. c \in 0 .. size - 1 /\ p \in w[c] /\ \A q \in w[c] \ w[p] : q > size - 1
    BY <1>3 DEF Counted
  <2>2. c \in w[c] /\ w[c] \subseteq 0 .. c
    BY <1>1, <2>1 DEF WayIsChain
  <2>3. c \in w[p]
    BY <1>2, <2>1, <2>2
  <2>4. c \in 0 .. p
    BY <1>1, <2>3 DEF WayIsChain
  <2>. QED  BY <1>2, <2>1, <2>2, <2>4
<1>. QED  BY <1>2, <1>3

\* Folding node m into its parent adds what its own total counts.
LEMMA CountedNext ==
  ASSUME NEW size, NEW par, Backwards(par, size), NEW w, WayRec(par, size, w),
         NEW m \in 1 .. size - 1, NEW p \in 0 .. size - 1
  PROVE  /\ p # par[m] => Counted(w, size, p, m - 1) = Counted(w, size, p, m)
         /\ p = par[m] =>
              /\ Counted(w, size, p, m - 1) = Counted(w, size, p, m) \cup Counted(w, size, m, m)
              /\ Counted(w, size, p, m) \cap Counted(w, size, m, m) = {}
<1>1. \A c \in 0 .. size - 1 : WayIsChain(w, c)
  BY WayFacts
<1>2. size \in Nat /\ m \in Nat \ {0} /\ p \in Nat /\ m \in 0 .. size - 1
  BY DEF Backwards
<1>3. PICK u : u = par[m]
  OBVIOUS
<1>4. u \in 0 .. m - 1 /\ u \in 0 .. size - 1 /\ w[m] = {m} \cup w[u]
  <2>1. w[m] = {m} \cup w[u]
    BY <1>2, <1>3, WayAt
  <2>. QED  BY <1>2, <1>3, <2>1 DEF Backwards
<1>5. \A c \in 0 .. size - 1 : \A q \in w[c] : q \in Nat
  BY <1>1 DEF WayIsChain
<1>6. Counted(w, size, p, m) \subseteq Counted(w, size, p, m - 1)
  BY <1>2, <1>5 DEF Counted
<1>7. ASSUME NEW c \in Counted(w, size, p, m - 1), c \notin Counted(w, size, p, m)
      PROVE  p = u /\ c \in Counted(w, size, m, m)
  <2>1. c \in 0 .. size - 1 /\ p \in w[c] /\ \A q \in w[c] \ w[p] : q > m - 1
    BY <1>7 DEF Counted
  <2>2. PICK q \in w[c] \ w[p] : ~(q > m)
    BY <1>7, <2>1 DEF Counted
  <2>3. q = m
    BY <1>2, <1>5, <2>1, <2>2
  <2>4. p \in w[m] /\ p # m
    BY <1>1, <2>1, <2>2, <2>3 DEF WayIsChain
  <2>5. p \in w[u]
    BY <1>4, <2>4
  <2>6. u \in w[c]
    BY <1>1, <1>4, <2>1, <2>2, <2>3 DEF WayIsChain
  <2>7. u \in w[p]
    <3>1. ~(u > m - 1)
      BY <1>2, <1>4
    <3>. QED  BY <2>1, <2>6, <3>1
  <2>8. p = u
    <3>1. p \in 0 .. u /\ u \in 0 .. p
      BY <1>1, <1>4, <2>5, <2>7 DEF WayIsChain
    <3>. QED  BY <3>1
  <2>9. \A r \in w[c] \ w[m] : r > m
    BY <1>1, <1>2, <1>4, <1>5, <2>1, <2>8 DEF WayIsChain
  <2>. QED  BY <2>1, <2>2, <2>3, <2>8, <2>9 DEF Counted
<1>8. ASSUME p = u, NEW c \in Counted(w, size, m, m)
      PROVE  c \in Counted(w, size, p, m - 1) /\ c \notin Counted(w, size, p, m)
  <2>1. c \in 0 .. size - 1 /\ m \in w[c] /\ \A q \in w[c] \ w[m] : q > m
    BY <1>8 DEF Counted
  <2>2. p \in w[c]
    BY <1>1, <1>4, <1>8, <2>1 DEF WayIsChain
  <2>3. \A q \in w[c] \ w[p] : q > m - 1
    BY <1>2, <1>4, <1>5, <1>8, <2>1
  <2>4. m \notin w[p]
    <3>1. w[p] \subseteq 0 .. p
      BY <1>1 DEF WayIsChain
    <3>. QED  BY <1>2, <1>4, <1>8, <3>1
  <2>5. ~(m > m)
    BY <1>2
  <2>. QED  BY <2>1, <2>2, <2>3, <2>4, <2>5 DEF Counted
<1>. QED  BY <1>3, <1>6, <1>7, <1>8

-----------------------------------------------------------------------------
(* The fold, step by step.                                                 *)

LEMMA PathIsWay ==
  ASSUME arena \in Arenas
  PROVE  Backwards(parent, n) /\ WayRec(parent, n, Path)
<1>1. Backwards(parent, n)
  BY ArenaIsMap DEF Backwards, Ids
<1>2. Path = CHOOSE w : WayRec(parent, n, w)
  BY DEF Path, WayRec, Ids
<1>. QED  BY <1>1, <1>2, WayExists

TotalInv ==
  \A p \in Ids : sub[p] = Sum(own, Counted(Path, n, p, Folded)) % U64Mod

LEMMA CountedOwn ==
  ASSUME arena \in Arenas, NEW p, NEW m
  PROVE  /\ IsFiniteSet(Counted(Path, n, p, m)) /\ IntOn(own, Counted(Path, n, p, m))
         /\ Sum(own, Counted(Path, n, p, m)) \in Int
<1>1. n \in Nat /\ own \in [0 .. n - 1 -> 0 .. U64Mod - 1]
  BY ArenaIsMap DEF Ids
<1>2. IsFiniteSet(0 .. n - 1)
  BY <1>1, FS_Interval
<1>3. Counted(Path, n, p, m) \subseteq 0 .. n - 1
  BY DEF Counted
<1>4. IsFiniteSet(Counted(Path, n, p, m)) /\ IntOn(own, Counted(Path, n, p, m))
  BY <1>1, <1>2, <1>3, FS_Subset, SizeFoldAssumption DEF IntOn
<1>. QED  BY <1>4, SumInt

LEMMA TotalInit == Init => TotalInv
<1> SUFFICES ASSUME Init, NEW p \in Ids
             PROVE  sub[p] = Sum(own, Counted(Path, n, p, Folded)) % U64Mod
  BY DEF TotalInv
<1>1. arena \in Arenas /\ Folded = n - 1 /\ sub = own
  BY DEF Init, Folded, n, own
<1>2. Counted(Path, n, p, n - 1) = {p}
  BY <1>1, PathIsWay, CountedFirst DEF Ids
<1>3. own[p] \in 0 .. U64Mod - 1
  BY <1>1, ArenaIsMap
<1>4. Sum(own, {p}) = own[p]
  <2>1. IsFiniteSet({p}) /\ IntOn(own, {p}) /\ {p} \ {p} = {}
    <3>1. own[p] \in Int
      BY <1>3, SizeFoldAssumption
    <3>2. IsFiniteSet({p}) /\ {p} \ {p} = {}
      BY FS_Singleton, Zenon
    <3>. QED  BY <3>1, <3>2 DEF IntOn
  <2>2. Sum(own, {p}) = own[p] + Sum(own, {p} \ {p})
    BY <2>1, SumRemove
  <2>3. Sum(own, {p} \ {p}) = 0
    BY <2>1, SumEmpty
  <2>. QED  BY <1>3, <2>2, <2>3, SizeFoldAssumption
<1>. QED  BY <1>1, <1>2, <1>3, <1>4, ModSmall, SizeFoldAssumption

LEMMA TotalFold ==
  ASSUME SFInv, TotalInv, Fold
  PROVE  TotalInv'
<1>1. /\ arena' = arena /\ n' = n /\ Ids' = Ids /\ own' = own /\ parent' = parent
      /\ arena \in Arenas /\ Folded = i /\ Folded' = i - 1 /\ Path' = Path
  <2>1. arena' = arena /\ n' = n /\ Ids' = Ids /\ own' = own /\ parent' = parent
    BY Frame DEF Fold
  <2>. QED  BY <2>1 DEF Fold, SFInv, FoldInv, Folded, Path
<1>2. i \in 1 .. n - 1 /\ Ids = 0 .. n - 1 /\ n \in Nat /\ i \in Ids
  BY <1>1, ArenaIsMap DEF Fold, SFInv, FoldInv, Ids
<1>3. PICK u \in Ids : u = parent[i]
  BY <1>1, <1>2, ArenaIsMap
<1>4. /\ sub' = [sub EXCEPT ![u] = (sub[u] + sub[i]) % U64Mod]
      /\ sub \in [Ids -> 0 .. U64Mod - 1] /\ U64Mod \in Nat \ {0}
  BY <1>3, SizeFoldAssumption DEF Fold, NewTotal, SFInv, FoldInv
<1>5. Backwards(parent, n) /\ WayRec(parent, n, Path)
  BY <1>1, PathIsWay
<1>6. ASSUME NEW p \in Ids, p # u
      PROVE  sub'[p] = Sum(own, Counted(Path, n, p, i - 1)) % U64Mod
  <2>1. Counted(Path, n, p, i - 1) = Counted(Path, n, p, i)
    BY <1>2, <1>3, <1>5, <1>6, CountedNext
  <2>2. sub'[p] = sub[p]
    BY <1>4, <1>6
  <2>. QED  BY <1>1, <1>6, <2>1, <2>2 DEF TotalInv
<1>7. sub'[u] = Sum(own, Counted(Path, n, u, i - 1)) % U64Mod
  <2>1. /\ Counted(Path, n, u, i - 1) = Counted(Path, n, u, i) \cup Counted(Path, n, i, i)
        /\ Counted(Path, n, u, i) \cap Counted(Path, n, i, i) = {}
    BY <1>2, <1>3, <1>5, CountedNext
  <2>2. PICK A, B : A = Counted(Path, n, u, i) /\ B = Counted(Path, n, i, i)
    OBVIOUS
  <2>3. /\ IsFiniteSet(A) /\ IsFiniteSet(B)
        /\ IntOn(own, A) /\ IntOn(own, B) /\ Sum(own, A) \in Int /\ Sum(own, B) \in Int
    BY <1>1, <2>2, CountedOwn
  <2>4. IntOn(own, A \cup B)
    BY <2>3 DEF IntOn
  <2>5. Sum(own, A \cup B) = Sum(own, A) + Sum(own, B)
    BY <2>1, <2>2, <2>3, <2>4, SumUnion
  <2>6. sub[u] = Sum(own, A) % U64Mod /\ sub[i] = Sum(own, B) % U64Mod
    BY <1>1, <1>2, <2>2 DEF TotalInv
  <2>7. sub'[u] = (sub[u] + sub[i]) % U64Mod
    BY <1>4
  <2>8. PICK a \in Int, b \in Int : a = Sum(own, A) /\ b = Sum(own, B)
    BY <2>3
  <2>9. ((a % U64Mod) + (b % U64Mod)) % U64Mod = (a + b) % U64Mod
    BY <1>4, ModAdds
  <2>. QED  BY <2>1, <2>2, <2>5, <2>6, <2>7, <2>8, <2>9
<1>. QED  BY <1>1, <1>6, <1>7 DEF TotalInv

\* Only Fold changes the totals, and how far the fold is.
LEMMA FoldedStays ==
  ASSUME SFInv, [Next]_vars, ~Fold
  PROVE  arena' = arena /\ sub' = sub /\ Folded' = Folded
<1>1. arena' = arena /\ sub' = sub
  BY DEF Next, StartCount, Count, StartPrefix, Prefix, StartScatter, Scatter,
         Return, Terminated, vars
<1>2. CASE StartCount
  <2>1. n \in Nat \ {0} /\ i \in 0 .. n - 1
    BY <1>2, ArenaIsMap DEF StartCount, SFInv, FoldInv
  <2>. QED  BY <1>1, <1>2, <2>1 DEF StartCount, Folded
<1>3. CASE ~StartCount
  BY <1>1, <1>3 DEF Next, Count, StartPrefix, Prefix, StartScatter, Scatter,
                    Return, Terminated, vars, Folded
<1>. QED  BY <1>2, <1>3

LEMMA TotalStep ==
  ASSUME SFInv, TotalInv, [Next]_vars
  PROVE  TotalInv'
<1>1. CASE Fold
  BY <1>1, TotalFold
<1>2. CASE ~Fold
  <2>1. arena' = arena /\ sub' = sub
    BY <1>2, FoldedStays
  <2>2. Folded' = Folded
    BY <1>2, FoldedStays
  <2>3. n' = n /\ Ids' = Ids /\ own' = own /\ parent' = parent
    BY <2>1, Frame
  <2>4. Path' = Path
    BY <2>3 DEF Path
  <2>. QED  BY <2>1, <2>2, <2>3, <2>4 DEF TotalInv
<1>. QED  BY <1>1, <1>2

(***************************************************************************)
(* The one reverse pass computes what its recursive reading promises, for  *)
(* every parent-first arena and at every moment of the pass: a node's      *)
(* total is the sum, modulo 2^64, of its own size and those of the nodes   *)
(* below it that have been folded all the way up to it; when the pass has  *)
(* ended, of all nodes below it.                                           *)
(***************************************************************************)
THEOREM FoldIsSubtreeSum == Spec => []SubtreeTotals
<1>1. SFInv /\ TotalInv /\ [Next]_vars => (SFInv /\ TotalInv)'
  BY SFStep, TotalStep
<1>2. TotalInv => SubtreeTotals
  BY DEF TotalInv, SubtreeTotals, SumOver, Sum, Counted, Ids
<1>. QED  BY SFInit, TotalInit, <1>1, <1>2, PTL DEF Spec

-----------------------------------------------------------------------------
(* A total is a node's own size and the totals of its folded children.     *)

Handed(p) == {c \in Children(p) : c > Folded}

ShareInv == \A p \in Ids : sub[p] = (own[p] + Sum(sub, Handed(p))) % U64Mod

LEMMA HandedTotals ==
  ASSUME SFInv, NEW p \in Ids
  PROVE  /\ IsFiniteSet(Children(p)) /\ IsFiniteSet(Handed(p)) /\ Children(p) \subseteq Ids
         /\ IntOn(sub, Handed(p)) /\ IntOn(sub, Children(p))
         /\ Sum(sub, Handed(p)) \in Int /\ Sum(sub, Children(p)) \in Int
         /\ own[p] \in 0 .. U64Mod - 1 /\ sub[p] \in 0 .. U64Mod - 1 /\ U64Mod \in Nat \ {0}
<1>1. n \in Nat \ {0} /\ U64Mod \in Nat \ {0} /\ sub \in [Ids -> 0 .. U64Mod - 1]
  BY ArenaIsMap, SizeFoldAssumption DEF SFInv, FoldInv
<1>2. Handed(p) \subseteq Children(p) /\ Children(p) \subseteq 1 .. n - 1
  BY DEF Handed, Children
<1>3. IsFiniteSet(Children(p)) /\ IsFiniteSet(Handed(p))
  <2>1. IsFiniteSet(1 .. n - 1)
    BY <1>1, FS_Interval
  <2>2. IsFiniteSet(Children(p))
    BY <1>2, <2>1, FS_Subset
  <2>. QED  BY <1>2, <2>2, FS_Subset
<1>4. Children(p) \subseteq Ids
  BY <1>1, <1>2 DEF Ids
<1>5. IntOn(sub, Handed(p)) /\ IntOn(sub, Children(p))
  BY <1>1, <1>2, <1>4 DEF IntOn
<1>6. own[p] \in 0 .. U64Mod - 1 /\ sub[p] \in 0 .. U64Mod - 1
  BY <1>1, ArenaIsMap DEF SFInv, FoldInv
<1>. QED  BY <1>1, <1>3, <1>4, <1>5, <1>6, SumInt

LEMMA ShareInit == Init => ShareInv
<1> SUFFICES ASSUME Init, NEW p \in Ids
             PROVE  sub[p] = (own[p] + Sum(sub, Handed(p))) % U64Mod
  BY DEF ShareInv
<1>1. arena \in Arenas /\ Folded = n - 1 /\ sub = own /\ n \in Nat \ {0}
  BY ArenaIsMap DEF Init, Folded, n, own
<1>2. Handed(p) = {}
  BY <1>1 DEF Handed, Children
<1>3. own[p] \in 0 .. U64Mod - 1 /\ own[p] + 0 = own[p]
  BY <1>1, ArenaIsMap, SizeFoldAssumption
<1>. QED  BY <1>1, <1>2, <1>3, SumEmpty, ModSmall, SizeFoldAssumption

LEMMA ShareFold ==
  ASSUME SFInv, ShareInv, Fold
  PROVE  ShareInv'
<1>1. /\ arena' = arena /\ n' = n /\ Ids' = Ids /\ own' = own /\ parent' = parent
      /\ arena \in Arenas /\ Folded = i /\ Folded' = i - 1
  <2>1. arena' = arena /\ n' = n /\ Ids' = Ids /\ own' = own /\ parent' = parent
    BY Frame DEF Fold
  <2>. QED  BY <2>1 DEF Fold, SFInv, FoldInv, Folded
<1>2. i \in 1 .. n - 1 /\ Ids = 0 .. n - 1 /\ n \in Nat /\ i \in Ids
  BY <1>1, ArenaIsMap DEF Fold, SFInv, FoldInv, Ids
<1>3. PICK u \in Ids : u = parent[i] /\ u < i
  BY <1>1, <1>2, ArenaIsMap
<1>4. /\ sub' = [sub EXCEPT ![u] = (sub[u] + sub[i]) % U64Mod]
      /\ sub \in [Ids -> 0 .. U64Mod - 1] /\ U64Mod \in Nat \ {0}
  BY <1>3, SizeFoldAssumption DEF Fold, NewTotal, SFInv, FoldInv
<1>5. \A p : Handed(p)' = IF p = u THEN Handed(p) \cup {i} ELSE Handed(p)
  BY <1>1, <1>2, <1>3 DEF Handed, Children
<1>6. \A p : i \notin Handed(p)
  BY <1>1, <1>2 DEF Handed
<1>7. ASSUME NEW p \in Ids
      PROVE  \A c \in Handed(p) \cup {i} : sub'[c] = sub[c]
  <2>1. \A c \in Handed(p) : c \in Ids /\ c # u
    BY <1>1, <1>2, <1>3 DEF Handed, Children
  <2>. QED  BY <1>2, <1>3, <1>4, <2>1
<1>8. ASSUME NEW p \in Ids
      PROVE  /\ Sum(sub', Handed(p)) = Sum(sub, Handed(p))
             /\ Sum(sub', Handed(p) \cup {i}) = sub[i] + Sum(sub, Handed(p))
             /\ Sum(sub, Handed(p)) \in Int
  <2>1. IsFiniteSet(Handed(p)) /\ IntOn(sub, Handed(p)) /\ Sum(sub, Handed(p)) \in Int
    BY HandedTotals
  <2>2. IsFiniteSet(Handed(p) \cup {i}) /\ IntOn(sub, Handed(p) \cup {i})
    <3>1. sub[i] \in Int
      BY <1>2, <1>4
    <3>2. IntOn(sub, Handed(p) \cup {i})
      BY <2>1, <3>1 DEF IntOn
    <3>. QED  BY <2>1, <3>2, FS_AddElement
  <2>3. Sum(sub', Handed(p)) = Sum(sub, Handed(p))
    BY <1>7, <2>1, SumSame
  <2>4. Sum(sub', Handed(p) \cup {i}) = Sum(sub, Handed(p) \cup {i})
    BY <1>7, <2>2, SumSame
  <2>5. Sum(sub, Handed(p) \cup {i}) = sub[i] + Sum(sub, Handed(p))
    BY <1>6, <2>1, <2>2, SumAdd
  <2>. QED  BY <2>1, <2>3, <2>4, <2>5
<1>9. ASSUME NEW p \in Ids, p # u
      PROVE  sub'[p] = (own[p] + Sum(sub', Handed(p)')) % U64Mod
  <2>1. sub'[p] = sub[p] /\ Handed(p)' = Handed(p)
    BY <1>4, <1>5, <1>9
  <2>2. sub[p] = (own[p] + Sum(sub, Handed(p))) % U64Mod
    BY DEF ShareInv
  <2>. QED  BY <1>8, <2>1, <2>2
<1>10. sub'[u] = (own[u] + Sum(sub', Handed(u)')) % U64Mod
  <2>1. PICK a \in Int, b \in 0 .. U64Mod - 1 : a = own[u] + Sum(sub, Handed(u)) /\ b = sub[i]
    <3>1. own[u] \in 0 .. U64Mod - 1 /\ Sum(sub, Handed(u)) \in Int
      BY HandedTotals
    <3>2. own[u] + Sum(sub, Handed(u)) \in Int
      BY <1>4, <3>1
    <3>3. sub[i] \in 0 .. U64Mod - 1
      BY <1>2, <1>4
    <3>. QED  BY <3>2, <3>3
  <2>2. sub[u] = a % U64Mod /\ b = b % U64Mod
    BY <1>4, <2>1, ModSmall DEF ShareInv
  <2>3. ((a % U64Mod) + (b % U64Mod)) % U64Mod = (a + b) % U64Mod
    <3>1. a \in Int /\ b \in Int /\ U64Mod \in Nat \ {0}
      BY <1>4, <2>1
    <3>. QED  BY <3>1, ModAdds
  <2>4. sub'[u] = (sub[u] + b) % U64Mod
    BY <1>4, <2>1
  <2>5. Sum(sub', Handed(u)') = b + Sum(sub, Handed(u))
    BY <1>5, <1>8, <2>1
  <2>6. own[u] + (b + Sum(sub, Handed(u))) = a + b
    BY <1>8, <2>1, HandedTotals
  <2>. QED  BY <2>2, <2>3, <2>4, <2>5, <2>6
<1>. QED  BY <1>1, <1>9, <1>10 DEF ShareInv

LEMMA ShareStep ==
  ASSUME SFInv, ShareInv, [Next]_vars
  PROVE  ShareInv'
<1>1. CASE Fold
  BY <1>1, ShareFold
<1>2. CASE ~Fold
  <2>1. arena' = arena /\ sub' = sub /\ Folded' = Folded
    BY <1>2, FoldedStays
  <2>2. n' = n /\ Ids' = Ids /\ own' = own /\ parent' = parent
    BY <2>1, Frame
  <2>3. \A p : Handed(p)' = Handed(p)
    BY <2>1, <2>2 DEF Handed, Children
  <2>. QED  BY <2>1, <2>2, <2>3 DEF ShareInv
<1>. QED  BY <1>1, <1>2

LEMMA AlwaysShareInv == Spec => [](SFInv /\ ShareInv)
<1>1. SFInv /\ ShareInv /\ [Next]_vars => (SFInv /\ ShareInv)'
  BY SFStep, ShareStep
<1>. QED  BY SFInit, ShareInit, <1>1, PTL DEF Spec

-----------------------------------------------------------------------------
(* The tree that is emitted.                                               *)

\* The slice of p names each child once.
LEMMA SliceOfChildren ==
  ASSUME SFInv, pc = "done", NEW p \in Ids
  PROVE  Of(p) \in Seq(Children(p)) /\ ToSet(Of(p)) = Children(p)
         /\ Len(Of(p)) = Cardinality(Children(p))
<1>1. /\ {Of(p)[k] : k \in DOMAIN Of(p)} = Children(p)
      /\ \A j, k \in DOMAIN Of(p) : j < k => Of(p)[j] < Of(p)[k]
  BY IndexListed
<1>2. off[p] \in Nat /\ off[p + 1] \in Nat /\ off[p] <= off[p + 1]
  <2>1. cur[p] \in Nat /\ off[p] <= cur[p] /\ cur[p] <= off[p + 1] /\ off[p + 1] \in Nat /\ off[p] \in Nat
    BY Room DEF SFInv, FoldInv, Scattering
  <2>. QED  BY <2>1
<1>3. PICK m \in Nat : m = off[p + 1] - off[p]
  BY <1>2
<1>4. Of(p) \in Seq(Children(p)) /\ DOMAIN Of(p) = 1 .. m
  <2>1. DOMAIN Of(p) = 1 .. m /\ Of(p) = [k \in 1 .. m |-> Of(p)[k]]
    BY <1>3 DEF Of
  <2>2. \A k \in 1 .. m : Of(p)[k] \in Children(p)
    BY <1>1, <2>1
  <2>3. Of(p) \in [1 .. m -> Children(p)]
    BY <2>1, <2>2
  <2>. QED  BY <1>3, <2>1, <2>3
<1>5. ToSet(Of(p)) = Children(p)
  BY <1>1 DEF ToSet
<1>6. IsInjective(Of(p))
  <2>1. ASSUME NEW j \in DOMAIN Of(p), NEW k \in DOMAIN Of(p), Of(p)[j] = Of(p)[k], j # k
        PROVE  FALSE
    <3>1. j \in Nat /\ k \in Nat /\ (j < k \/ k < j)
      BY <1>4, <2>1
    <3>2. Of(p)[j] < Of(p)[k] \/ Of(p)[k] < Of(p)[j]
      BY <1>1, <3>1
    <3>3. Of(p)[j] \in Children(p)
      BY <1>1
    <3>4. Of(p)[j] \in Int
      BY <3>3, ArenaIsMap DEF Children, SFInv, FoldInv
    <3>. QED  BY <2>1, <3>2, <3>4
  <2>. QED  BY <2>1 DEF IsInjective
<1>. QED  BY <1>4, <1>5, <1>6, LenIsCardinality

\* The order in which children are ranked.
Order(p) == {r \in Children(p) \X Children(p) : Precedes(r[1], r[2])}

LEMMA OrderOfChildren ==
  ASSUME SFInv, NEW p \in Ids
  PROVE  StrictlyOrders(Order(p), Children(p))
<1>1. /\ \A a \in Children(p) : a \in Int /\ sub[a] \in Int
  <2>1. Children(p) \subseteq Ids /\ n \in Nat /\ Children(p) \subseteq 1 .. n - 1
    BY HandedTotals, ArenaIsMap DEF SFInv, FoldInv, Children
  <2>2. \A a \in Ids : sub[a] \in 0 .. U64Mod - 1 /\ U64Mod \in Nat
    BY HandedTotals
  <2>. QED  BY <2>1, <2>2
<1>2. \A a, b \in Children(p) : <<a, b>> \in Order(p) <=> Precedes(a, b)
  BY DEF Order
<1>3. \A a \in Children(p) : ~Precedes(a, a)
  BY <1>1 DEF Precedes
<1>4. \A a, b, c \in Children(p) : Precedes(a, b) /\ Precedes(b, c) => Precedes(a, c)
  BY <1>1 DEF Precedes
<1>5. \A a, b \in Children(p) : a # b => Precedes(a, b) \/ Precedes(b, a)
  BY <1>1 DEF Precedes
<1> HIDE DEF Order
<1>. QED  BY <1>2, <1>3, <1>4, <1>5 DEF StrictlyOrders

\* The ranking lists each child once, larger totals first.
LEMMA RankedFacts ==
  ASSUME SFInv, pc = "done", NEW p \in Ids
  PROVE  /\ Ranked(p) \in [1 .. Cardinality(Children(p)) -> Children(p)]
         /\ Cardinality(Children(p)) \in Nat
         /\ \A c \in Children(p) : \E k \in 1 .. Cardinality(Children(p)) : Ranked(p)[k] = c
         /\ \A j, k \in 1 .. Cardinality(Children(p)) :
              j < k => Ranked(p)[j] # Ranked(p)[k] /\ sub[Ranked(p)[k]] <= sub[Ranked(p)[j]]
<1> DEFINE S == Children(p)
           m == Cardinality(S)
           place(c) == Cardinality(Earlier(Order(p), S, c))
<1>1. IsFiniteSet(S) /\ m \in Nat /\ StrictlyOrders(Order(p), S)
  BY HandedTotals, OrderOfChildren, FS_CardinalityType
<1>2. /\ \A c \in S : place(c) \in 0 .. m - 1
      /\ \A b, c \in S : <<b, c>> \in Order(p) => place(b) < place(c)
      /\ \A k \in 0 .. m - 1 : \E c \in S : place(c) = k
  <2> HIDE DEF S
  <2>. QED  BY <1>1, Places
<1>3. ToSet(Of(p)) = S /\ Len(Of(p)) = m
  BY SliceOfChildren
<1>4. \A c \in S : Cardinality({d \in ToSet(Of(p)) : Precedes(d, c)}) = place(c)
  <2>1. \A c \in S : {d \in S : Precedes(d, c)} = Earlier(Order(p), S, c)
    BY DEF Order, Earlier
  <2>. QED  BY <1>3, <2>1
<1>5. ASSUME NEW k \in 1 .. m
      PROVE  Ranked(p)[k] \in S /\ place(Ranked(p)[k]) = k - 1
  <2>1. PICK c0 \in S : place(c0) = k - 1
    BY <1>1, <1>2, k - 1 \in 0 .. m - 1
  <2> DEFINE T == ToSet(Of(p))
             before(c) == Cardinality({d \in T : Precedes(d, c)})
  <2>2. c0 \in T /\ before(c0) = k - 1
    BY <1>3, <1>4, <2>1
  <2>3. Ranked(p)[k] = CHOOSE c \in T : before(c) = k - 1
    BY <1>3 DEF Ranked
  <2>4. Ranked(p)[k] \in T /\ before(Ranked(p)[k]) = k - 1
    <3> HIDE DEF T, before
    <3>. QED  BY <2>2, <2>3
  <2>. QED  BY <1>3, <1>4, <2>4
<1>6. Ranked(p) \in [1 .. m -> S]
  <2> DEFINE chosen(k) ==
        CHOOSE c \in ToSet(Of(p)) : Cardinality({d \in ToSet(Of(p)) : Precedes(d, c)}) = k - 1
  <2>1. Ranked(p) = [k \in 1 .. Len(Of(p)) |-> chosen(k)]
    BY Zenon DEF Ranked
  <2>2. Ranked(p) = [k \in 1 .. m |-> Ranked(p)[k]]
    <3> HIDE DEF chosen
    <3>. QED  BY <1>3, <2>1
  <2> HIDE DEF S, m, place
  <2>. QED  BY <1>5, <2>2
<1>7. \A b, c \in S : place(b) = place(c) => b = c
  <2> SUFFICES ASSUME NEW b \in S, NEW c \in S, b # c PROVE place(b) # place(c)
    OBVIOUS
  <2>1. <<b, c>> \in Order(p) \/ <<c, b>> \in Order(p)
    BY <1>1 DEF StrictlyOrders
  <2>2. place(b) \in Nat /\ place(c) \in Nat /\ (place(b) < place(c) \/ place(c) < place(b))
    BY <1>1, <1>2, <2>1
  <2> HIDE DEF place
  <2>. QED  BY <2>2
<1>8. ASSUME NEW c \in S PROVE \E k \in 1 .. m : Ranked(p)[k] = c
  <2>1. PICK k \in 1 .. m : k = place(c) + 1
    BY <1>1, <1>2
  <2>2. place(Ranked(p)[k]) = place(c) /\ Ranked(p)[k] \in S
    BY <1>1, <1>2, <1>5, <2>1
  <2>. QED  BY <1>7, <2>2
<1>9. ASSUME NEW j \in 1 .. m, NEW k \in 1 .. m, j < k
      PROVE  Ranked(p)[j] # Ranked(p)[k] /\ sub[Ranked(p)[k]] <= sub[Ranked(p)[j]]
  <2>1. PICK a \in S, b \in S : a = Ranked(p)[j] /\ b = Ranked(p)[k]
    BY <1>5
  <2>2. place(a) < place(b) /\ place(a) \in Nat /\ place(b) \in Nat
    BY <1>1, <1>2, <1>5, <1>9, <2>1
  <2>3. a # b /\ ~(place(b) < place(a))
    <3> HIDE DEF place
    <3>. QED  BY <2>2
  <2>4. <<a, b>> \in Order(p)
    BY <1>1, <1>2, <2>3 DEF StrictlyOrders
  <2>5. Precedes(a, b)
    BY <2>4 DEF Order
  <2>6. sub[a] \in Int /\ sub[b] \in Int
    BY HandedTotals, <2>1 DEF IntOn
  <2>. QED  BY <2>1, <2>3, <2>5, <2>6 DEF Precedes
<1>. QED  BY <1>1, <1>6, <1>8, <1>9

\* What is emitted for p, if e holds what is emitted for its children.
EmittedFor(p, top, e) ==
  LET ranked == Ranked(p)
      keep == Keep(ranked, top)
      kept == [j \in 1 .. keep |-> e[ranked[j]]]
  IN [n |-> <<p>>, v |-> sub[p],
      c |-> IF Len(ranked) > keep THEN Append(kept, MoreLeaf(p, Rest(ranked, keep))) ELSE kept]

EmitRec(top, e) == e = [p \in Ids |-> EmittedFor(p, top, e)]

LEMMA RankedIsSeq ==
  ASSUME SFInv, pc = "done", NEW p \in Ids, NEW top \in Nat
  PROVE  /\ Ranked(p) \in Seq(Children(p)) /\ Len(Ranked(p)) = Cardinality(Children(p))
         /\ Len(Ranked(p)) \in Nat
         /\ Keep(Ranked(p), top) \in 0 .. Len(Ranked(p)) /\ Keep(Ranked(p), top) <= top
         /\ \A k \in 1 .. Len(Ranked(p)) : Ranked(p)[k] \in Children(p)
<1>1. PICK m \in Nat : m = Cardinality(Children(p))
  BY RankedFacts
<1>2. Ranked(p) \in [1 .. m -> Children(p)]
  BY <1>1, RankedFacts
<1>3. Ranked(p) \in Seq(Children(p)) /\ Len(Ranked(p)) = m
  BY <1>2
<1>. QED  BY <1>1, <1>2, <1>3 DEF Keep

\* It looks at the children only.
LEMMA EmittedSame ==
  ASSUME SFInv, pc = "done", NEW p \in Ids, NEW top \in Nat, NEW e, NEW f,
         \A c \in Children(p) : e[c] = f[c]
  PROVE  EmittedFor(p, top, e) = EmittedFor(p, top, f)
<1> DEFINE keep == Keep(Ranked(p), top)
           ke == [j \in 1 .. keep |-> e[Ranked(p)[j]]]
           kf == [j \in 1 .. keep |-> f[Ranked(p)[j]]]
<1>1. ke = kf
  <2>1. \A j \in 1 .. keep : Ranked(p)[j] \in Children(p)
    BY RankedIsSeq
  <2> HIDE DEF keep
  <2>. QED  BY <2>1
<1>2. /\ EmittedFor(p, top, e) = [n |-> <<p>>, v |-> sub[p],
           c |-> IF Len(Ranked(p)) > keep THEN Append(ke, MoreLeaf(p, Rest(Ranked(p), keep))) ELSE ke]
      /\ EmittedFor(p, top, f) = [n |-> <<p>>, v |-> sub[p],
           c |-> IF Len(Ranked(p)) > keep THEN Append(kf, MoreLeaf(p, Rest(Ranked(p), keep))) ELSE kf]
  BY DEF EmittedFor
<1> HIDE DEF ke, kf, keep
<1>. QED  BY <1>1, <1>2

\* The recursion has a solution: one for the nodes from m + 1 on, applied
\* once more, is one from m on.
LEMMA EmitExists ==
  ASSUME SFInv, pc = "done", NEW top \in Nat
  PROVE  \E e : EmitRec(top, e)
<1> DEFINE Solves(e, m) == \A p \in Ids : p >= m => e[p] = EmittedFor(p, top, e)
           S == {m \in 0 .. n : ~ \E e : Solves(e, m)}
<1>1. n \in Nat /\ Ids = 0 .. n - 1 /\ n \in Nat \ {0}
  BY ArenaIsMap DEF SFInv, FoldInv, Ids
<1>2. \A p \in Ids : \A c \in Children(p) : c \in Ids /\ c > p
  <2>1. arena \in Arenas
    BY DEF SFInv, FoldInv
  <2>2. \A c \in 1 .. n - 1 : parent[c] \in Ids /\ parent[c] < c
    BY <2>1, ArenaIsMap
  <2>3. \A c \in 1 .. n - 1 : c \in Ids /\ c \in Int
    BY <1>1
  <2>4. \A p \in Ids : \A c \in Children(p) : c \in 1 .. n - 1 /\ parent[c] = p
    BY DEF Children
  <2>. QED  BY <2>2, <2>3, <2>4
<1>3. S = {}
  <2> SUFFICES ASSUME S # {} PROVE FALSE
    OBVIOUS
  <2>1. PICK m \in S : \A l \in S : l <= m
    <3>1. S \subseteq Nat /\ \A l \in S : l <= n
      BY <1>1
    <3> HIDE DEF S
    <3>. QED  BY <1>1, <3>1, LargestNumber
  <2>2. m \in 0 .. n /\ ~ \E e : Solves(e, m)
    BY <2>1
  <2>3. m # n
    <3>1. Solves(<<>>, n)
      BY <1>1
    <3> HIDE DEF Solves
    <3>. QED  BY <2>2, <3>1
  <2>4. m \in Ids /\ m + 1 \in 0 .. n /\ m + 1 \notin S
    <3>1. m \in Ids /\ m + 1 \in 0 .. n /\ ~(m + 1 <= m)
      BY <1>1, <2>2, <2>3
    <3> HIDE DEF S
    <3>. QED  BY <2>1, <3>1
  <2>5. PICK e : Solves(e, m + 1)
    <3> HIDE DEF Solves
    <3>. QED  BY <2>4
  <2> DEFINE f == [p \in Ids |-> IF p = m THEN EmittedFor(m, top, e) ELSE e[p]]
  <2>6. \A c \in Ids : c > m => f[c] = e[c]
    BY <1>1, <2>2
  <2>7. f[m] = EmittedFor(m, top, e)
    BY <2>4
  <2> HIDE DEF f
  <2>8. ASSUME NEW p \in Ids, p >= m
        PROVE  f[p] = EmittedFor(p, top, f)
    <3>1. \A c \in Children(p) : c \in Ids /\ c > m
      <4>1. \A c \in Children(p) : c \in Ids /\ c > p
        BY <1>2
      <4>. QED  BY <1>1, <2>4, <2>8, <4>1
    <3>2. EmittedFor(p, top, f) = EmittedFor(p, top, e)
      BY <2>6, <3>1, EmittedSame
    <3>3. CASE p = m
      BY <2>7, <3>2, <3>3
    <3>4. CASE p # m
      <4>1. p > m /\ p >= m + 1
        BY <1>1, <2>4, <2>8, <3>4
      <4>2. e[p] = EmittedFor(p, top, e)
        BY <2>5, <4>1
      <4>. QED  BY <2>6, <3>2, <4>1, <4>2
    <3>. QED  BY <3>3, <3>4
  <2>9. Solves(f, m)
    BY <2>8
  <2> HIDE DEF Solves
  <2>. QED  BY <2>2, <2>9
<1>4. PICK e : Solves(e, 0)
  <2>1. 0 \in 0 .. n
    BY <1>1
  <2> HIDE DEF Solves
  <2>. QED  BY <1>3, <2>1
<1> DEFINE g == [p \in Ids |-> e[p]]
<1>5. \A p \in Ids : g[p] = EmittedFor(p, top, g)
  <2> SUFFICES ASSUME NEW p \in Ids PROVE g[p] = EmittedFor(p, top, g)
    OBVIOUS
  <2>1. g[p] = e[p] /\ \A c \in Children(p) : g[c] = e[c]
    BY <1>2
  <2> HIDE DEF g
  <2>2. EmittedFor(p, top, g) = EmittedFor(p, top, e)
    BY <2>1, EmittedSame
  <2>. QED  BY <1>1, <1>4, <2>1, <2>2
<1>6. g = [p \in Ids |-> g[p]]
  OBVIOUS
<1>7. EmitRec(top, g)
  <2> HIDE DEF g
  <2>. QED  BY <1>5, <1>6 DEF EmitRec
<1>. QED  BY <1>7

LEMMA EmitAt ==
  ASSUME SFInv, pc = "done", NEW top \in Nat
  PROVE  \A p \in Ids : Emit(top)[p] = EmittedFor(p, top, Emit(top))
<1>1. Emit(top) = CHOOSE e : EmitRec(top, e)
  BY Zenon DEF Emit, EmitRec, EmittedFor
<1>2. EmitRec(top, Emit(top))
  BY <1>1, EmitExists
<1>. QED  BY <1>2 DEF EmitRec

LEMMA ModJoin ==
  ASSUME NEW M \in Nat \ {0}, NEW a \in Int, NEW b \in Int
  PROVE  (a + (b % M)) % M = (a + b) % M
<1>1. PICK r \in 0 .. M - 1 : r = b % M
  OBVIOUS
<1>2. r % M = r
  BY ModSmall
<1>3. ((a % M) + (r % M)) % M = (a + r) % M
  <2>1. r \in Int
    OBVIOUS
  <2>. QED  BY <2>1, ModAdds
<1>4. ((a % M) + (b % M)) % M = (a + b) % M
  BY ModAdds
<1>. QED  BY <1>1, <1>2, <1>3, <1>4

\* What p shows: its first children by rank, as they are emitted themselves,
\* and the leaf if there are more.
Shows(p, top, m, keep, rk, t) ==
  /\ m = Cardinality(Children(p)) /\ m \in Nat /\ keep \in 0 .. m /\ keep <= top
  /\ rk = Ranked(p) /\ rk \in [1 .. m -> Children(p)]
  /\ t = Emit(top)[p] /\ t.v = sub[p]
  /\ DOMAIN t.c = 1 .. (IF m > keep THEN keep + 1 ELSE keep)
  /\ Len(t.c) = (IF m > keep THEN keep + 1 ELSE keep)
  /\ \A j \in 1 .. keep : t.c[j] = Emit(top)[rk[j]]
  /\ m > keep => t.c[keep + 1] = MoreLeaf(p, Rest(rk, keep))

LEMMA EmittedShows ==
  ASSUME SFInv, pc = "done", NEW top \in Nat, NEW p \in Ids
  PROVE  \E m, keep, rk, t : Shows(p, top, m, keep, rk, t)
<1>1. PICK m \in Nat : m = Len(Ranked(p)) /\ m = Cardinality(Children(p))
  BY RankedIsSeq
<1>2. PICK keep \in 0 .. m : keep = Keep(Ranked(p), top) /\ keep <= top
  BY <1>1, RankedIsSeq
<1>3. PICK rk \in [1 .. m -> Children(p)] : rk = Ranked(p)
  BY <1>1, RankedFacts
<1>4. PICK t : t = Emit(top)[p]
  OBVIOUS
<1> DEFINE kept == [j \in 1 .. keep |-> Emit(top)[rk[j]]]
           leaf == MoreLeaf(p, Rest(rk, keep))
<1>5. t = [n |-> <<p>>, v |-> sub[p], c |-> IF m > keep THEN Append(kept, leaf) ELSE kept]
  BY <1>1, <1>2, <1>3, <1>4, EmitAt DEF EmittedFor
<1>6. keep \in Nat /\ kept \in Seq({kept[j] : j \in 1 .. keep}) /\ Len(kept) = keep
  OBVIOUS
<1>7. /\ DOMAIN Append(kept, leaf) = 1 .. keep + 1 /\ Len(Append(kept, leaf)) = keep + 1
      /\ \A j \in 1 .. keep : Append(kept, leaf)[j] = kept[j]
      /\ Append(kept, leaf)[keep + 1] = leaf
  <2>1. PICK S : kept \in Seq(S)
    BY <1>6
  <2>2. kept \in Seq(S \cup {leaf}) /\ leaf \in S \cup {leaf}
    BY <2>1
  <2> HIDE DEF kept, leaf
  <2>. QED  BY <1>6, <2>2
<1>8. t.v = sub[p] /\ t.c = IF m > keep THEN Append(kept, leaf) ELSE kept
  <2> HIDE DEF kept, leaf
  <2>. QED  BY <1>5
<1>9. /\ DOMAIN t.c = 1 .. (IF m > keep THEN keep + 1 ELSE keep)
      /\ Len(t.c) = (IF m > keep THEN keep + 1 ELSE keep)
      /\ \A j \in 1 .. keep : t.c[j] = kept[j]
      /\ m > keep => t.c[keep + 1] = leaf
  <2> HIDE DEF leaf
  <2>1. DOMAIN kept = 1 .. keep
    OBVIOUS
  <2> HIDE DEF kept
  <2>. QED  BY <1>6, <1>7, <1>8, <2>1
<1>10. \A j \in 1 .. keep : kept[j] = Emit(top)[rk[j]]
  OBVIOUS
<1>11. Shows(p, top, m, keep, rk, t)
  <2> HIDE DEF kept
  <2>. QED  BY <1>1, <1>2, <1>3, <1>4, <1>8, <1>9, <1>10 DEF Shows
<1>. QED  BY <1>11

\* The leaf stands for the children that are not shown.
LEMMA LeafFacts ==
  ASSUME SFInv, pc = "done", NEW p \in Ids,
         NEW m \in Nat, NEW keep \in 0 .. m, NEW rk \in [1 .. m -> Children(p)]
  PROVE  /\ ToSet(Rest(rk, keep)) = {rk[j] : j \in keep + 1 .. m}
         /\ MoreLeaf(p, Rest(rk, keep)).v = Sum(sub, {rk[j] : j \in keep + 1 .. m}) % U64Mod
         /\ Len(MoreLeaf(p, Rest(rk, keep)).n) = 2
<1>1. rk \in Seq(Children(p)) /\ Len(rk) = m
  OBVIOUS
<1>2. /\ DOMAIN Rest(rk, keep) = 1 .. m - keep
      /\ \A j \in 1 .. m - keep : Rest(rk, keep)[j] = rk[keep + j]
  BY <1>1 DEF Rest
<1>3. ToSet(Rest(rk, keep)) = {rk[j] : j \in keep + 1 .. m}
  <2>1. \A j \in keep + 1 .. m : j - keep \in 1 .. m - keep /\ keep + (j - keep) = j
    OBVIOUS
  <2>2. \A j \in 1 .. m - keep : keep + j \in keep + 1 .. m
    OBVIOUS
  <2>3. PICK rest : rest = Rest(rk, keep)
    OBVIOUS
  <2>4. \A x \in {rk[j] : j \in keep + 1 .. m} : \E k \in DOMAIN rest : x = rest[k]
    <3>1. TAKE x \in {rk[j] : j \in keep + 1 .. m}
    <3>2. PICK j \in keep + 1 .. m : x = rk[j]
      OBVIOUS
    <3>3. j - keep \in DOMAIN rest /\ rest[j - keep] = rk[j]
      BY <1>2, <2>1, <2>3
    <3>. QED  BY <3>2, <3>3
  <2>5. \A k \in DOMAIN rest : \E j \in keep + 1 .. m : rest[k] = rk[j]
    BY <1>2, <2>2, <2>3
  <2>6. ToSet(rest) = {rk[j] : j \in keep + 1 .. m}
    BY <2>4, <2>5 DEF ToSet
  <2>. QED  BY <2>3, <2>6
<1>4. MoreLeaf(p, Rest(rk, keep)).v = Sum(sub, ToSet(Rest(rk, keep))) % U64Mod
  <2>1. MoreLeaf(p, Rest(rk, keep))
          = [n |-> <<p, "more">>, v |-> Sum(sub, ToSet(Rest(rk, keep))) % U64Mod, c |-> <<>>]
    BY Zenon DEF MoreLeaf, SumOver, Sum
  <2>. QED  BY <2>1
<1>5. Len(MoreLeaf(p, Rest(rk, keep)).n) = 2
  <2>1. MoreLeaf(p, Rest(rk, keep)).n = <<p, "more">>
    BY DEF MoreLeaf
  <2>2. \A a, b : Len(<<a, b>>) = 2
    OBVIOUS
  <2>. QED  BY <2>1, <2>2
<1>. QED  BY <1>3, <1>4, <1>5

\* What is shown of p's children, and what else.
LEMMA ShownFacts ==
  ASSUME SFInv, pc = "done", NEW top \in Nat, NEW p \in Ids,
         NEW m, NEW keep, NEW rk, NEW t, Shows(p, top, m, keep, rk, t)
  PROVE  /\ {c \in Children(p) : Emit(top)[c] \in ToSet(t.c)} = {rk[j] : j \in 1 .. keep}
         /\ {x \in ToSet(t.c) : Len(x.n) = 2}
              = IF m > keep THEN {MoreLeaf(p, Rest(rk, keep))} ELSE {}
<1> DEFINE leaf == MoreLeaf(p, Rest(rk, keep))
           E == Emit(top)
<1>1. /\ m \in Nat /\ keep \in 0 .. m /\ rk \in [1 .. m -> Children(p)]
      /\ DOMAIN t.c = 1 .. (IF m > keep THEN keep + 1 ELSE keep)
      /\ \A j \in 1 .. keep : t.c[j] = E[rk[j]]
      /\ m > keep => t.c[keep + 1] = leaf
  BY DEF Shows
<1>2. \A c \in Ids : E[c].n = <<c>>
  <2>1. TAKE c \in Ids
  <2>2. Emit(top)[c] = EmittedFor(c, top, Emit(top))
    BY EmitAt
  <2>3. EmittedFor(c, top, Emit(top)).n = <<c>>
    BY DEF EmittedFor
  <2>. QED  BY <2>2, <2>3
<1>3. \A c \in Children(p) : E[c].n = <<c>> /\ Len(E[c].n) = 1
  <2>1. Children(p) \subseteq Ids
    BY HandedTotals
  <2>2. \A a : Len(<<a>>) = 1
    OBVIOUS
  <2> HIDE DEF E
  <2>. QED  BY <1>2, <2>1, <2>2
<1>4. Len(leaf.n) = 2
  BY <1>1, LeafFacts
<1>5. ToSet(t.c) = {E[rk[j]] : j \in 1 .. keep} \cup IF m > keep THEN {leaf} ELSE {}
  <2> HIDE DEF leaf, E
  <2>1. CASE m > keep
    <3>1. DOMAIN t.c = (1 .. keep) \cup {keep + 1}
      BY <1>1, <2>1
    <3>. QED  BY <1>1, <2>1, <3>1 DEF ToSet
  <2>2. CASE ~(m > keep)
    BY <1>1, <2>2 DEF ToSet
  <2>. QED  BY <2>1, <2>2
<1>6. \A j \in 1 .. keep : rk[j] \in Children(p)
  BY <1>1
<1>7. {c \in Children(p) : E[c] \in ToSet(t.c)} = {rk[j] : j \in 1 .. keep}
  <2> HIDE DEF leaf, E
  <2>1. \A c \in Children(p) : E[c] # leaf
    BY <1>3, <1>4
  <2>2. \A c, d \in Children(p) : E[c] = E[d] => c = d
    <3>1. \A c, d : <<c>> = <<d>> => c = d
      OBVIOUS
    <3>. QED  BY <1>3, <3>1
  <2>3. ASSUME NEW c \in Children(p), E[c] \in ToSet(t.c)
        PROVE  c \in {rk[j] : j \in 1 .. keep}
    <3>1. PICK j \in 1 .. keep : E[c] = E[rk[j]]
      BY <1>5, <2>1, <2>3
    <3>. QED  BY <1>6, <2>2, <3>1
  <2>. QED  BY <1>5, <1>6, <2>3
<1>8. {x \in ToSet(t.c) : Len(x.n) = 2} = IF m > keep THEN {leaf} ELSE {}
  <2> HIDE DEF leaf, E
  <2>1. \A j \in 1 .. keep : Len(E[rk[j]].n) = 1
    BY <1>3, <1>6
  <2>. QED  BY <1>4, <1>5, <2>1
<1>. QED  BY <1>7, <1>8

\* The children shown, and the others.
Above(rk, keep) == {rk[j] : j \in 1 .. keep}
Below(rk, keep, m) == {rk[j] : j \in keep + 1 .. m}

\* Shown or not, each child is there once, and those not shown are smaller.
LEMMA RanksSplit ==
  ASSUME SFInv, pc = "done", NEW top \in Nat, NEW p \in Ids,
         NEW m, NEW keep, NEW rk, NEW t, Shows(p, top, m, keep, rk, t)
  PROVE  /\ Above(rk, keep) \cup Below(rk, keep, m) = Children(p)
         /\ Above(rk, keep) \cap Below(rk, keep, m) = {}
         /\ \A j, k \in 1 .. keep : rk[j] = rk[k] => j = k
         /\ IsFiniteSet(Above(rk, keep)) /\ Cardinality(Above(rk, keep)) = keep
         /\ \A c \in Above(rk, keep), d \in Below(rk, keep, m) : sub[d] <= sub[c]
<1> DEFINE above == {rk[j] : j \in 1 .. keep}
           below == {rk[j] : j \in keep + 1 .. m}
<1>1. /\ m \in Nat /\ keep \in 0 .. m /\ rk \in [1 .. m -> Children(p)]
      /\ \A c \in Children(p) : \E k \in 1 .. m : rk[k] = c
      /\ \A j, k \in 1 .. m : j < k => rk[j] # rk[k] /\ sub[rk[k]] <= sub[rk[j]]
  BY RankedFacts DEF Shows
<1>2. \A j \in 1 .. m : j \in 1 .. keep \/ j \in keep + 1 .. m
  BY <1>1
<1>3. (1 .. keep) \subseteq 1 .. m /\ (keep + 1 .. m) \subseteq 1 .. m
  BY <1>1
<1>4. above \cup below = Children(p)
  BY <1>1, <1>2, <1>3
<1>5. \A j \in 1 .. keep, k \in keep + 1 .. m : j < k
  BY <1>1
<1>6. above \cap below = {} /\ \A c \in above, d \in below : sub[d] <= sub[c]
  BY <1>1, <1>3, <1>5
<1>7. \A j, k \in 1 .. keep : rk[j] = rk[k] => j = k
  <2> SUFFICES ASSUME NEW j \in 1 .. keep, NEW k \in 1 .. keep, j # k PROVE rk[j] # rk[k]
    OBVIOUS
  <2>1. j < k \/ k < j
    BY <1>1
  <2>. QED  BY <1>1, <1>3, <2>1
<1>8. IsFiniteSet(above) /\ Cardinality(above) = keep
  <2> DEFINE b == [j \in 1 .. keep |-> rk[j]]
  <2>1. b \in Bijection(1 .. keep, above)
    BY <1>7 DEF Bijection, Injection, Surjection, IsInjective
  <2>2. IsFiniteSet(1 .. keep) /\ Cardinality(1 .. keep) = keep
    <3>1. Cardinality(1 .. keep) = IF 1 > keep THEN 0 ELSE keep - 1 + 1
      BY <1>1, FS_Interval
    <3>. QED  BY <1>1, <3>1, FS_Interval
  <2> HIDE DEF b, above
  <2>. QED  BY <2>1, <2>2, FS_Bijection DEF ExistsBijection
<1>. QED  BY <1>4, <1>6, <1>7, <1>8 DEF Above, Below


\* The leaf has the weight of the children it stands for.
LEMMA ShownTotal ==
  ASSUME SFInv, ShareInv, pc = "done", NEW top \in Nat, NEW p \in Ids,
         NEW m, NEW keep, NEW rk, NEW t, Shows(p, top, m, keep, rk, t)
  PROVE  LET values == [k \in DOMAIN t.c |-> t.c[k].v]
         IN t.v = (own[p] + (Sum(values, DOMAIN t.c) % U64Mod)) % U64Mod
<1> DEFINE above == Above(rk, keep)
           below == Below(rk, keep, m)
           values == [k \in DOMAIN t.c |-> t.c[k].v]
<1>1. /\ m \in Nat /\ keep \in 0 .. m /\ rk \in [1 .. m -> Children(p)] /\ t.v = sub[p]
      /\ DOMAIN t.c = 1 .. (IF m > keep THEN keep + 1 ELSE keep)
      /\ \A j \in 1 .. keep : t.c[j] = Emit(top)[rk[j]]
      /\ m > keep => t.c[keep + 1] = MoreLeaf(p, Rest(rk, keep))
  BY DEF Shows
<1>2. /\ above \cup below = Children(p) /\ above \cap below = {}
      /\ \A j, k \in 1 .. keep : rk[j] = rk[k] => j = k
  BY RanksSplit
<1> HIDE DEF above, below, values
<1>3. /\ IsFiniteSet(Children(p)) /\ Children(p) \subseteq Ids /\ IntOn(sub, Children(p))
      /\ own[p] \in Int /\ U64Mod \in Nat \ {0}
      /\ \A c \in Ids : sub[c] \in 0 .. U64Mod - 1
  <2>1. own[p] \in 0 .. U64Mod - 1 /\ U64Mod \in Nat \ {0}
    BY HandedTotals
  <2>2. own[p] \in Int
    BY <2>1
  <2>3. \A c \in Ids : sub[c] \in 0 .. U64Mod - 1
    BY HandedTotals
  <2>. QED  BY <2>1, <2>2, <2>3, HandedTotals
<1>4. sub[p] = (own[p] + Sum(sub, Children(p))) % U64Mod
  <2>1. Handed(p) = Children(p)
    <3>1. \A c \in Children(p) : c \in Nat /\ c > 0
      BY DEF Children
    <3>. QED  BY <3>1 DEF Handed, Folded
  <2>. QED  BY <2>1 DEF ShareInv
<1>5. /\ IsFiniteSet(above) /\ IsFiniteSet(below)
      /\ IntOn(sub, above) /\ IntOn(sub, below)
      /\ Sum(sub, above) \in Int /\ Sum(sub, below) \in Int
  <2>1. IsFiniteSet(above) /\ IsFiniteSet(below)
    BY <1>2, <1>3, FS_Subset
  <2>2. IntOn(sub, above) /\ IntOn(sub, below)
    BY <1>2, <1>3 DEF IntOn
  <2>. QED  BY <2>1, <2>2, SumInt
<1>6. Sum(sub, Children(p)) = Sum(sub, above) + Sum(sub, below)
  BY <1>2, <1>3, <1>5, SumUnion
<1>7. \A c \in Ids : Emit(top)[c].v = sub[c]
  <2>1. TAKE c \in Ids
  <2>2. Emit(top)[c] = EmittedFor(c, top, Emit(top))
    BY EmitAt
  <2>3. EmittedFor(c, top, Emit(top)).v = sub[c]
    BY DEF EmittedFor
  <2>. QED  BY <2>2, <2>3
<1>8. \A j \in 1 .. keep : values[j] = sub[rk[j]] /\ values[j] \in Int
  <2>1. TAKE j \in 1 .. keep
  <2>2. rk[j] \in Ids /\ j \in DOMAIN t.c /\ t.c[j] = Emit(top)[rk[j]]
    BY <1>1, <1>3
  <2>3. values[j] = sub[rk[j]]
    BY <1>7, <2>2 DEF values
  <2>4. sub[rk[j]] \in Int
    BY <1>3, <2>2
  <2>. QED  BY <2>3, <2>4
<1>9. IsFiniteSet(1 .. keep) /\ Sum(values, 1 .. keep) = Sum(sub, above)
  <2>1. IsFiniteSet(1 .. keep)
    BY <1>1, FS_Interval
  <2>2. PICK S : S = 1 .. keep
    OBVIOUS
  <2>3. IsFiniteSet(S) /\ \A j, k \in S : rk[j] = rk[k] => j = k
    BY <1>2, <2>1, <2>2
  <2>4. \A j \in S : values[j] = sub[rk[j]] /\ values[j] \in Int
    BY <1>8, <2>2
  <2>5. Sum(sub, {rk[j] : j \in S}) = Sum(values, S)
    BY <2>3, <2>4, SumImage
  <2>. QED  BY <2>1, <2>2, <2>5 DEF above, Above
<1>10. Sum(values, DOMAIN t.c) % U64Mod = Sum(sub, Children(p)) % U64Mod
  <2>1. CASE m > keep
    <3>1. DOMAIN t.c = (1 .. keep) \cup {keep + 1} /\ keep + 1 \notin 1 .. keep
      BY <1>1, <2>1
    <3>2. values[keep + 1] = Sum(sub, below) % U64Mod
      <4>1. values[keep + 1] = MoreLeaf(p, Rest(rk, keep)).v
        BY <1>1, <2>1, <3>1 DEF values
      <4>. QED  BY <1>1, <4>1, LeafFacts DEF below, Below
    <3>3. PICK b \in Int : b = Sum(sub, below)
      BY <1>5
    <3>4. PICK a \in Int : a = Sum(sub, above)
      BY <1>5
    <3>5. b % U64Mod \in Int
      BY <1>3, <3>3
    <3>6. IntOn(values, (1 .. keep) \cup {keep + 1})
      BY <1>8, <3>2, <3>3, <3>5 DEF IntOn
    <3>7. Sum(values, DOMAIN t.c) = (b % U64Mod) + a
      <4>1. Sum(values, (1 .. keep) \cup {keep + 1}) = values[keep + 1] + Sum(values, 1 .. keep)
        BY <1>9, <3>1, <3>6, SumAdd
      <4>. QED  BY <1>9, <3>1, <3>2, <3>3, <3>4, <4>1
    <3>8. (a + (b % U64Mod)) % U64Mod = (a + b) % U64Mod
      BY <1>3, ModJoin
    <3>9. (b % U64Mod) + a = a + (b % U64Mod)
      BY <3>5
    <3>. QED  BY <1>6, <3>3, <3>4, <3>7, <3>8, <3>9
  <2>2. CASE ~(m > keep)
    <3>1. keep = m /\ DOMAIN t.c = 1 .. keep
      BY <1>1, <2>2
    <3>2. below = {}
      BY <1>1, <3>1 DEF below, Below
    <3>3. Sum(sub, below) = 0
      BY <3>2, SumEmpty
    <3>. QED  BY <1>5, <1>6, <1>9, <3>1, <3>3
  <2>. QED  BY <2>1, <2>2
<1>11. (own[p] + (Sum(sub, Children(p)) % U64Mod)) % U64Mod
         = (own[p] + Sum(sub, Children(p))) % U64Mod
  <2>1. PICK s \in Int : s = Sum(sub, Children(p))
    BY HandedTotals
  <2>2. (own[p] + (s % U64Mod)) % U64Mod = (own[p] + s) % U64Mod
    BY <1>3, ModJoin
  <2>. QED  BY <2>1, <2>2
<1>. QED  BY <1>1, <1>4, <1>10, <1>11 DEF values

(***************************************************************************)
(* emit_json, whatever the tree, its sizes and top: what a directory shows *)
(* adds up, the leaf included, to its total; it shows at most top entries  *)
(* and the leaf; and the leaf stands for none larger than one shown.       *)
(***************************************************************************)
THEOREM EmittedTreeIsExact == Spec => []EmittedTotals
<1>1. SFInv /\ ShareInv => EmittedTotals
  <2> SUFFICES ASSUME SFInv, ShareInv, pc = "done", NEW top \in Tops, NEW p \in Ids
               PROVE  LET t == Emit(top)[p]
                          shown == {c \in Children(p) : Emit(top)[c] \in ToSet(t.c)}
                          bucket == {x \in ToSet(t.c) : Len(x.n) = 2}
                          values == [k \in DOMAIN t.c |-> t.c[k].v]
                      IN /\ t.v = (own[p] + SumOver(LAMBDA k : values[k], DOMAIN values)) % U64Mod
                         /\ Len(t.c) <= top + 1
                         /\ Len(t.c) = Cardinality(shown) + Cardinality(bucket)
                         /\ \A c \in shown, d \in Children(p) \ shown : sub[d] <= sub[c]
    BY DEF EmittedTotals
  <2>1. top \in Nat
    BY TopsAssumption
  <2>2. PICK m, keep, rk, t : Shows(p, top, m, keep, rk, t)
    BY <2>1, EmittedShows
  <2>3. t = Emit(top)[p]
    BY <2>2 DEF Shows
  <2> DEFINE shown == {c \in Children(p) : Emit(top)[c] \in ToSet(t.c)}
             bucket == {x \in ToSet(t.c) : Len(x.n) = 2}
             values == [k \in DOMAIN t.c |-> t.c[k].v]
             above == Above(rk, keep)
             below == Below(rk, keep, m)
             leaf == MoreLeaf(p, Rest(rk, keep))
  <2>4. shown = above /\ bucket = IF m > keep THEN {leaf} ELSE {}
    BY <2>1, <2>2, ShownFacts DEF Above
  <2>5. t.v = (own[p] + SumOver(LAMBDA k : values[k], DOMAIN values)) % U64Mod
    <3>1. t.v = (own[p] + (Sum(values, DOMAIN t.c) % U64Mod)) % U64Mod
      BY <2>1, <2>2, ShownTotal
    <3>2. DOMAIN values = DOMAIN t.c
      OBVIOUS
    <3> HIDE DEF values
    <3>3. SumOver(LAMBDA k : values[k], DOMAIN values) = Sum(values, DOMAIN values) % U64Mod
      BY Zenon DEF SumOver, Sum
    <3>. QED  BY <3>1, <3>2, <3>3
  <2>6. /\ above \cup below = Children(p) /\ above \cap below = {}
        /\ Cardinality(above) = keep
        /\ \A c \in above, d \in below : sub[d] <= sub[c]
    BY <2>1, <2>2, RanksSplit
  <2>7. m \in Nat /\ keep \in 0 .. m /\ keep <= top
        /\ Len(t.c) = (IF m > keep THEN keep + 1 ELSE keep)
    BY <2>2 DEF Shows
  <2>8. Cardinality({leaf}) = 1 /\ Cardinality({}) = 0
    BY FS_Singleton, FS_EmptySet
  <2> HIDE DEF shown, bucket, values, above, below, leaf
  <2>9. Len(t.c) <= top + 1
    BY <2>1, <2>7
  <2>10. Len(t.c) = Cardinality(shown) + Cardinality(bucket)
    BY <2>4, <2>6, <2>7, <2>8
  <2>11. \A c \in shown, d \in Children(p) \ shown : sub[d] <= sub[c]
    BY <2>4, <2>6
  <2>. QED  BY <2>3, <2>5, <2>9, <2>10, <2>11 DEF shown, bucket, values
<1>. QED  BY <1>1, AlwaysShareInv, PTL

-----------------------------------------------------------------------------
(* The sizes by type.                                                      *)

\* Taking the terms of a sum modulo M does not change the sum modulo M.
LEMMA SumMods ==
  ASSUME NEW M \in Nat \ {0}, NEW D, IsFiniteSet(D), NEW f, NEW g,
         \A k \in D : f[k] \in Int /\ g[k] = f[k] % M
  PROVE  Sum(g, D) \in Int /\ Sum(g, D) % M = Sum(f, D) % M
<1> DEFINE T == {s \in SUBSET D : Sum(g, s) % M # Sum(f, s) % M}
<1>1. \A k \in D : g[k] \in Int
  <2>1. \A a \in Int : a % M \in Int
    OBVIOUS
  <2>. QED  BY <2>1
<1>2. \A s \in SUBSET D : IsFiniteSet(s) /\ IntOn(f, s) /\ IntOn(g, s)
                          /\ Sum(f, s) \in Int /\ Sum(g, s) \in Int
  <2>1. \A s \in SUBSET D : IsFiniteSet(s) /\ IntOn(f, s) /\ IntOn(g, s)
    BY <1>1, FS_Subset DEF IntOn
  <2>. QED  BY <2>1, SumInt
<1>3. SUFFICES ASSUME T # {} PROVE FALSE
  BY <1>2
<1>4. PICK s \in T : \A u \in T : u \subseteq s => u = s
  <2>1. \A u \in T : IsFiniteSet(u)
    BY <1>2
  <2> HIDE DEF T
  <2>. QED  BY <1>3, <2>1, SmallestSet
<1>5. s # {}
  BY SumEmpty
<1>6. PICK x \in s : TRUE
  BY <1>5
<1>7. /\ Sum(f, s) = f[x] + Sum(f, s \ {x})
      /\ Sum(g, s) = g[x] + Sum(g, s \ {x})
  BY <1>2, SumRemove
<1>8. s \ {x} \in SUBSET D /\ Sum(g, s \ {x}) % M = Sum(f, s \ {x}) % M
  BY <1>4
<1>9. PICK a \in Int, b \in Int, c \in Int, d \in Int :
        a = f[x] /\ b = Sum(f, s \ {x}) /\ c = Sum(g, s \ {x}) /\ d = g[x]
  BY <1>1, <1>2, <1>8
<1>10. d = a % M /\ c % M = b % M
  BY <1>8, <1>9
<1>11. (d + c) % M = (a + b) % M
  <2>1. (c + (a % M)) % M = (c + a) % M
    BY ModJoin
  <2>2. (a + (c % M)) % M = (a + c) % M
    BY ModJoin
  <2>3. (a + (b % M)) % M = (a + b) % M
    BY ModJoin
  <2>4. c + a = a + c /\ d + c = c + d
    OBVIOUS
  <2>. QED  BY <1>10, <2>1, <2>2, <2>3, <2>4
<1>. QED  BY <1>4, <1>7, <1>9, <1>11

\* The files of a type.
FilesOf(w, t) == {c \in Typed : Ext(w.name[c]) = t.e}

\* The folders and links, and the files of the listed types.
Untyped == {c \in Ids : IsDir(c) \/ IsLink(c)}
Covered(w, listed) == UNION {FilesOf(w, t) : t \in listed}

LEMMA TypeStatsFacts ==
  ASSUME NEW w
  PROVE  /\ \A t \in TypeStats(w) : /\ t.v = Sum(sub, FilesOf(w, t)) % U64Mod
                                    /\ t.c = Cardinality(FilesOf(w, t))
         /\ \A s, t \in TypeStats(w) : s.e = t.e => s = t
         /\ \A t \in TypeStats(w) : \E c \in Typed : Ext(w.name[c]) = t.e
         /\ \A c \in Typed : \E t \in TypeStats(w) : c \in FilesOf(w, t)
<1> DEFINE Kind(e) == {c \in Typed : Ext(w.name[c]) = e}
           St(e) == [e |-> e, v |-> Sum(sub, Kind(e)) % U64Mod, c |-> Cardinality(Kind(e))]
<1>1. TypeStats(w) = {St(e) : e \in {Ext(w.name[c]) : c \in Typed}}
  BY Zenon DEF TypeStats, SumOver, Sum
<1>2. \A e : St(e).e = e /\ St(e).v = Sum(sub, Kind(e)) % U64Mod /\ St(e).c = Cardinality(Kind(e))
  OBVIOUS
<1>3. \A t : FilesOf(w, t) = Kind(t.e)
  BY DEF FilesOf
<1> HIDE DEF St, Kind
<1>4. \A t \in TypeStats(w) : t = St(t.e)
  BY <1>1, <1>2
<1>5. \A t \in TypeStats(w) : /\ t.v = Sum(sub, FilesOf(w, t)) % U64Mod
                              /\ t.c = Cardinality(FilesOf(w, t))
  BY <1>2, <1>3, <1>4
<1>6. \A c \in Typed : \E t \in TypeStats(w) : c \in FilesOf(w, t)
  <2>1. TAKE c \in Typed
  <2>2. St(Ext(w.name[c])) \in TypeStats(w)
    BY <1>1
  <2>3. c \in Kind(Ext(w.name[c]))
    BY DEF Kind
  <2>. QED  BY <1>2, <1>3, <2>2, <2>3
<1>. QED  BY <1>1, <1>2, <1>4, <1>5, <1>6

LEMMA TypedFacts ==
  ASSUME SFInv, ShareInv, pc = "done"
  PROVE  /\ Typed \cup Untyped = Ids /\ Typed \cap Untyped = {}
         /\ IsFiniteSet(Ids) /\ Cardinality(Ids) = n
         /\ IsFiniteSet(Typed) /\ IsFiniteSet(Untyped)
         /\ IntOn(sub, Ids) /\ IntOn(own, Ids)
         /\ \A c \in Typed : sub[c] = own[c]
<1>1. n \in Nat \ {0} /\ Ids = 0 .. n - 1
  BY ArenaIsMap DEF SFInv, FoldInv, Ids
<1>2. IsFiniteSet(Ids) /\ Cardinality(Ids) = n
  <2>1. IsFiniteSet(0 .. n - 1)
    BY <1>1, FS_Interval
  <2>2. Cardinality(0 .. n - 1) = IF 0 > n - 1 THEN 0 ELSE n - 1 - 0 + 1
    BY <1>1, FS_Interval
  <2>3. (IF 0 > n - 1 THEN 0 ELSE n - 1 - 0 + 1) = n
    BY <1>1
  <2>. QED  BY <1>1, <2>1, <2>2, <2>3
<1>3. Typed \cup Untyped = Ids /\ Typed \cap Untyped = {}
  BY DEF Typed, Untyped
<1>4. IsFiniteSet(Typed) /\ IsFiniteSet(Untyped)
  BY <1>2, <1>3, FS_Subset
<1>5. \A c \in Ids : own[c] \in 0 .. U64Mod - 1 /\ sub[c] \in 0 .. U64Mod - 1
  BY HandedTotals
<1>6. IntOn(sub, Ids) /\ IntOn(own, Ids)
  BY <1>5 DEF IntOn
<1>7. ASSUME NEW c \in Typed
      PROVE  sub[c] = own[c]
  <2>1. c \in Ids /\ Children(c) = {}
    BY DEF Typed, IsDir
  <2>2. Handed(c) = {}
    BY <2>1 DEF Handed
  <2>3. sub[c] = (own[c] + Sum(sub, {})) % U64Mod
    BY <2>1, <2>2 DEF ShareInv
  <2>4. own[c] + Sum(sub, {}) = own[c]
    BY <1>5, <2>1, SumEmpty
  <2>5. own[c] % U64Mod = own[c]
    BY <1>5, <2>1, ModSmall, SizeFoldAssumption
  <2>. QED  BY <2>3, <2>4, <2>5
<1>. QED  BY <1>2, <1>3, <1>4, <1>6, <1>7

LEMMA StatsFinite ==
  ASSUME SFInv, ShareInv, pc = "done", NEW w
  PROVE  IsFiniteSet(TypeStats(w))
<1> DEFINE Stat(c) == CHOOSE t \in TypeStats(w) : c \in FilesOf(w, t)
           f == [c \in Typed |-> Stat(c)]
<1>1. \A c \in Typed : Stat(c) \in TypeStats(w) /\ c \in FilesOf(w, Stat(c))
  BY TypeStatsFacts
<1>2. \A c \in Typed : f[c] = Stat(c)
  OBVIOUS
<1> HIDE DEF Stat
<1>3. ASSUME NEW t \in TypeStats(w)
      PROVE  \E c \in Typed : f[c] = t
  <2>1. PICK c \in Typed : Ext(w.name[c]) = t.e
    BY TypeStatsFacts
  <2>2. Stat(c).e = t.e
    BY <1>1, <2>1 DEF FilesOf
  <2>. QED  BY <1>1, <1>2, <2>2, TypeStatsFacts
<1>4. f \in Surjection(Typed, TypeStats(w))
  <2>1. f \in [Typed -> TypeStats(w)]
    BY <1>1
  <2> HIDE DEF f
  <2>. QED  BY <1>3, <2>1 DEF Surjection
<1>5. IsFiniteSet(Typed)
  BY TypedFacts
<1> HIDE DEF f
<1>. QED  BY <1>4, <1>5, FS_Surjection DEF ExistsSurjection

\* What the listed types add up to: the number and the sizes of their files.
LEMMA ListedTotals ==
  ASSUME SFInv, ShareInv, pc = "done", NEW w, NEW listed \in TypesListed(w)
  PROVE  LET count == [t \in listed |-> t.c]
             size == [t \in listed |-> t.v]
         IN /\ Covered(w, listed) \subseteq Typed
            /\ Sum(count, listed) = Cardinality(Covered(w, listed))
            /\ Sum(size, listed) \in Int
            /\ Sum(size, listed) % U64Mod = Sum(sub, Covered(w, listed)) % U64Mod
<1>1. listed \subseteq TypeStats(w)
  BY DEF TypesListed, kSubset
<1>2. IsFiniteSet(listed)
  <2>1. IsFiniteSet(TypeStats(w))
    BY StatsFinite
  <2>. QED  BY <1>1, <2>1, FS_Subset
<1>3. IsFiniteSet(Typed) /\ IntOn(sub, Ids) /\ Typed \subseteq Ids /\ U64Mod \in Nat \ {0}
  <2>1. Typed \subseteq Ids
    BY DEF Typed
  <2>. QED  BY <2>1, TypedFacts, SizeFoldAssumption
<1> DEFINE part == [t \in listed |-> FilesOf(w, t)]
           one == [c \in Typed |-> 1]
           count == [t \in listed |-> t.c]
           size == [t \in listed |-> t.v]
           whole == [t \in listed |-> Sum(sub, part[t])]
<1>4. \A t \in listed : /\ part[t] = FilesOf(w, t) /\ count[t] = t.c /\ size[t] = t.v
                        /\ whole[t] = Sum(sub, part[t])
  OBVIOUS
<1>5. \A t \in listed : part[t] \subseteq Typed
  BY DEF FilesOf
<1>6. \A s, t \in listed : s # t => part[s] \cap part[t] = {}
  <2>1. \A s, t \in listed : s # t => s.e # t.e
    BY <1>1, TypeStatsFacts
  <2>. QED  BY <2>1 DEF FilesOf
<1>7. Covered(w, listed) = UNION {part[t] : t \in listed}
  BY DEF Covered
<1>8. \A c \in Typed : one[c] = 1 /\ one[c] \in Int
  OBVIOUS
<1> HIDE DEF part, one, count, size, whole
<1>9. \A t \in listed : /\ IsFiniteSet(part[t]) /\ IntOn(sub, part[t]) /\ IntOn(one, part[t])
                        /\ \A c \in part[t] : one[c] = 1
  <2>1. TAKE t \in listed
  <2>2. part[t] \subseteq Typed
    BY <1>5
  <2>. QED  BY <1>3, <1>8, <2>2, FS_Subset DEF IntOn
<1>10. \A t \in listed : count[t] = Sum(one, part[t])
  <2>1. TAKE t \in listed
  <2>2. Sum(one, part[t]) = Cardinality(part[t])
    BY <1>9, CountIsSum
  <2>. QED  BY <1>1, <1>4, <2>2, TypeStatsFacts
<1>11. Sum(one, Covered(w, listed)) = Sum(count, listed)
  BY <1>2, <1>6, <1>7, <1>9, <1>10, SumParts
<1>12. Covered(w, listed) \subseteq Typed
  BY <1>5, <1>7
<1>13. Sum(one, Covered(w, listed)) = Cardinality(Covered(w, listed))
  <2>1. IsFiniteSet(Covered(w, listed))
    BY <1>3, <1>12, FS_Subset
  <2>. QED  BY <1>8, <1>12, <2>1, CountIsSum
<1>14. Sum(sub, Covered(w, listed)) = Sum(whole, listed)
  <2>1. \A t \in listed : /\ IsFiniteSet(part[t]) /\ IntOn(sub, part[t])
                          /\ whole[t] = Sum(sub, part[t])
    BY <1>4, <1>9
  <2>2. Sum(sub, UNION {part[t] : t \in listed}) = Sum(whole, listed)
    BY <1>2, <1>6, <2>1, SumParts
  <2>. QED  BY <1>7, <2>2
<1>15. \A t \in listed : whole[t] \in Int /\ size[t] = whole[t] % U64Mod
  <2>1. TAKE t \in listed
  <2>2. Sum(sub, part[t]) \in Int
    BY <1>9, SumInt
  <2>3. t.v = Sum(sub, FilesOf(w, t)) % U64Mod
    BY <1>1, TypeStatsFacts
  <2>. QED  BY <1>4, <2>2, <2>3
<1>16. Sum(size, listed) \in Int /\ Sum(size, listed) % U64Mod = Sum(whole, listed) % U64Mod
  BY <1>2, <1>3, <1>15, SumMods
<1>. QED  BY <1>11, <1>12, <1>13, <1>14, <1>16 DEF count, size

\* At the end the root's total is the sum of all sizes.
LEMMA RootTotal ==
  ASSUME SFInv, SubtreeTotals, pc = "done"
  PROVE  sub[0] = Sum(own, Ids) % U64Mod
<1>1. n \in Nat \ {0} /\ Ids = 0 .. n - 1 /\ 0 \in Ids /\ Folded = 0
      /\ Backwards(parent, n) /\ WayRec(parent, n, Path)
  BY ArenaIsMap, PathIsWay DEF SFInv, FoldInv, Ids, Folded
<1>2. Path[0] = {0}
  BY <1>1, WayAt
<1>3. \A c \in Ids : 0 \in Path[c]
  <2> DEFINE S == {c \in Ids : 0 \notin Path[c]}
  <2>1. SUFFICES ASSUME S # {} PROVE FALSE
    OBVIOUS
  <2>2. S \subseteq Nat
    BY <1>1
  <2>3. PICK m \in S : \A c \in S : m <= c
    <3> HIDE DEF S
    <3>. QED  BY <2>1, <2>2, SmallestNumber
  <2>4. m \in 1 .. n - 1 /\ m \in 0 .. n - 1
    BY <1>1, <1>2
  <2>5. Path[m] = {m} \cup Path[parent[m]]
    BY <1>1, <2>4, WayAt
  <2>6. parent[m] \in 0 .. m - 1
    BY <1>1, <2>4 DEF Backwards
  <2>7. parent[m] \in Ids /\ parent[m] < m
    BY <1>1, <2>4, <2>6
  <2>8. parent[m] \in S
    BY <2>3, <2>5, <2>7
  <2>. QED  BY <1>1, <2>3, <2>7, <2>8
<1>4. \A c \in Ids : \A q \in Path[c] : q \in Nat
  BY <1>1, WayFacts DEF WayIsChain
<1>5. {c \in Ids : 0 \in Path[c] /\ \A q \in Path[c] \ Path[0] : q > Folded} = Ids
  BY <1>1, <1>2, <1>3, <1>4
<1>6. sub[0] = SumOver(LAMBDA c : own[c], Ids)
  BY <1>1, <1>5 DEF SubtreeTotals
<1>. QED  BY <1>6 DEF SumOver, Sum

(***************************************************************************)
(* type_stats_into, whatever the tree, the names and the number of types   *)
(* listed: the listed types never count more files than there are, and if  *)
(* none is cut off they account, with the folders and links, for every     *)
(* node and for the whole total of the scan.                               *)
(***************************************************************************)
THEOREM TypesAreTheWholeScan == Spec => []TypesMakeTotal
<1>1. SFInv /\ ShareInv /\ SubtreeTotals => TypesMakeTotal
  <2> SUFFICES ASSUME SFInv, ShareInv, SubtreeTotals, pc = "done",
                      NEW w \in Namings, NEW listed \in TypesListed(w)
               PROVE  LET other == {c \in Ids : IsDir(c) \/ IsLink(c)}
                          count == [t \in listed |-> t.c]
                          size == [t \in listed |-> t.v]
                          files == MapThenSumSet(LAMBDA t : count[t], listed)
                          complete == Cardinality(listed) = Cardinality(TypeStats(w))
                      IN /\ files + Cardinality(other) <= n
                         /\ complete =>
                              /\ files + Cardinality(other) = n
                              /\ (SumOver(LAMBDA t : size[t], listed)
                                    + SumOver(LAMBDA c : own[c], other)) % U64Mod = sub[0]
    BY DEF TypesMakeTotal
  <2> DEFINE count == [t \in listed |-> t.c]
             size == [t \in listed |-> t.v]
             files == MapThenSumSet(LAMBDA t : count[t], listed)
             covered == Covered(w, listed)
  <2>1. files = Sum(count, listed)
    BY Zenon DEF Sum
  <2>2. /\ covered \subseteq Typed /\ Sum(count, listed) = Cardinality(covered)
        /\ Sum(size, listed) \in Int
        /\ Sum(size, listed) % U64Mod = Sum(sub, covered) % U64Mod
    BY ListedTotals
  <2>3. /\ Typed \cup Untyped = Ids /\ Typed \cap Untyped = {}
        /\ IsFiniteSet(Ids) /\ Cardinality(Ids) = n
        /\ IsFiniteSet(Typed) /\ IsFiniteSet(Untyped)
        /\ IntOn(sub, Ids) /\ IntOn(own, Ids)
        /\ \A c \in Typed : sub[c] = own[c]
    BY TypedFacts
  <2>4. Untyped = {c \in Ids : IsDir(c) \/ IsLink(c)}
    BY DEF Untyped
  <2>5. /\ SumOver(LAMBDA t : size[t], listed) = Sum(size, listed) % U64Mod
        /\ SumOver(LAMBDA c : own[c], Untyped) = Sum(own, Untyped) % U64Mod
    <3> HIDE DEF size
    <3>. QED  BY Zenon DEF SumOver, Sum
  <2> HIDE DEF count, size, files, covered
  <2>6. /\ IsFiniteSet(covered) /\ covered \cap Untyped = {}
        /\ covered \cup Untyped \subseteq Ids
        /\ Cardinality(covered \cup Untyped) = Cardinality(covered) + Cardinality(Untyped)
    <3>1. IsFiniteSet(covered) /\ covered \cap Untyped = {} /\ covered \cup Untyped \subseteq Ids
      BY <2>2, <2>3, FS_Subset
    <3>2. Cardinality(covered \cup Untyped)
            = Cardinality(covered) + Cardinality(Untyped) - Cardinality(covered \cap Untyped)
      BY <2>3, <3>1, FS_Union
    <3>3. Cardinality(covered \cap Untyped) = 0
      BY <3>1, FS_EmptySet
    <3>4. Cardinality(covered) \in Nat /\ Cardinality(Untyped) \in Nat
      BY <2>3, <3>1, FS_CardinalityType
    <3>. QED  BY <3>1, <3>2, <3>3, <3>4
  <2>7. files + Cardinality(Untyped) <= n
    <3>1. Cardinality(covered \cup Untyped) <= Cardinality(Ids)
      BY <2>3, <2>6, FS_Subset
    <3>. QED  BY <2>1, <2>2, <2>3, <2>6, <3>1
  <2>8. ASSUME Cardinality(listed) = Cardinality(TypeStats(w))
        PROVE  /\ files + Cardinality(Untyped) = n
               /\ (SumOver(LAMBDA t : size[t], listed)
                     + SumOver(LAMBDA c : own[c], Untyped)) % U64Mod = sub[0]
    <3>1. listed = TypeStats(w)
      <4>1. listed \subseteq TypeStats(w)
        BY DEF TypesListed, kSubset
      <4>. QED  BY <2>8, <4>1, StatsFinite, FS_Subset
    <3>2. covered = Typed
      <4>1. \A c \in Typed : c \in covered
        BY <3>1, TypeStatsFacts DEF covered, Covered
      <4>. QED  BY <2>2, <4>1
    <3>3. files + Cardinality(Untyped) = n
      BY <2>1, <2>2, <2>3, <2>6, <3>2
    <3>4. IntOn(own, Typed) /\ IntOn(own, Untyped) /\ IntOn(own, Typed \cup Untyped)
      BY <2>3 DEF IntOn
    <3>5. Sum(sub, Typed) = Sum(own, Typed)
      BY <2>3, SumSame
    <3>6. Sum(own, Ids) = Sum(own, Typed) + Sum(own, Untyped)
      BY <2>3, <3>4, SumUnion
    <3>7. PICK a \in Int, b \in Int : a = Sum(own, Typed) /\ b = Sum(own, Untyped)
      BY <2>3, <3>4, SumInt
    <3>8. ((a % U64Mod) + (b % U64Mod)) % U64Mod = (a + b) % U64Mod
      BY SizeFoldAssumption, ModAdds
    <3>9. sub[0] = (a + b) % U64Mod
      BY <3>6, <3>7, RootTotal
    <3>. QED  BY <2>2, <2>5, <3>2, <3>3, <3>5, <3>7, <3>8, <3>9
  <2>. QED  BY <2>4, <2>7, <2>8 DEF count, size, files
<1>. QED  BY <1>1, AlwaysShareInv, FoldIsSubtreeSum, PTL
=============================================================================
