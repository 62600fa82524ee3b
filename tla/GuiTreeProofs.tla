--------------------------- MODULE GuiTreeProofs ---------------------------
(***************************************************************************)
(* The tree the GUI shows, for any folder, any depths and any number of    *)
(* handlers: it stays a tree, its sizes add up, and they are the disk's.   *)
(***************************************************************************)
EXTENDS GuiTree, DataLemmas
-----------------------------------------------------------------------------
(* The way up of a path.                                                   *)

\* A property of paths that goes from each parent to its children holds.
LEMMA TopDown ==
  ASSUME NEW Bad \in SUBSET Path,
         \A p \in Path : p = Root \/ Parent[p] \notin Bad => p \notin Bad
  PROVE  Bad = {}
BY TreeAssumption

UpClosed(S) == \A p \in S : p # Root => Parent[p] \in S

AboveRec(w) == w = [p \in Path |-> {p} \cup IF p = Root THEN {} ELSE w[Parent[p]]]

\* What every set that holds p and is closed under Parent holds, solves it.
LEMMA AboveExists == \E w : AboveRec(w)
<1> DEFINE Least(p) == {q \in Path : \A S \in SUBSET Path : p \in S /\ UpClosed(S) => q \in S}
           w == [p \in Path |-> Least(p)]
<1>1. ASSUME NEW p \in Path
      PROVE  Least(p) = {p} \cup IF p = Root THEN {} ELSE Least(Parent[p])
  <2>1. p \in Least(p)
    OBVIOUS
  <2>2. ASSUME p # Root PROVE Least(Parent[p]) \subseteq Least(p)
    BY <2>2 DEF UpClosed
  <2>3. ASSUME NEW q \in Least(p)
        PROVE  q = p \/ (p # Root /\ q \in Least(Parent[p]))
    <3> DEFINE S == {p} \cup IF p = Root THEN {} ELSE Least(Parent[p])
    <3>1. S \in SUBSET Path /\ p \in S
      OBVIOUS
    <3>2. UpClosed(S)
      <4> SUFFICES ASSUME NEW x \in S, x # Root PROVE Parent[x] \in S
        BY DEF UpClosed
      <4>1. CASE x = p
        <5>1. Parent[p] \in Least(Parent[p])
          BY <4>1, GuiTreeAssumption
        <5>. QED  BY <4>1, <5>1
      <4>2. CASE x # p
        <5>1. p # Root /\ x \in Least(Parent[p]) /\ x \in Path /\ Parent[x] \in Path
          BY <4>2, GuiTreeAssumption
        <5>2. Parent[x] \in Least(Parent[p])
          BY <5>1 DEF UpClosed
        <5>. QED  BY <5>1, <5>2
      <4>. QED  BY <4>1, <4>2
    <3>3. q \in S
      <4> HIDE DEF S
      <4>. QED  BY <2>3, <3>1, <3>2
    <3>. QED  BY <3>3
  <2>. QED  BY <2>1, <2>2, <2>3
<1>2. \A p \in Path : w[p] = {p} \cup IF p = Root THEN {} ELSE w[Parent[p]]
  <2> HIDE DEF Least
  <2>. QED  BY <1>1, GuiTreeAssumption
<1>3. w = [p \in Path |-> w[p]]
  OBVIOUS
<1> HIDE DEF w
<1>4. AboveRec(w)
  BY <1>2, <1>3 DEF AboveRec
<1>. QED  BY <1>4

LEMMA AboveAt ==
  \A p \in Path : Above[p] = {p} \cup IF p = Root THEN {} ELSE Above[Parent[p]]
<1>1. AboveRec(Above)
  BY AboveExists DEF Above, AboveRec
<1>. QED  BY <1>1 DEF AboveRec

\* The paths above one are a chain that ends in Root.
WayUp(p) ==
  /\ Above[p] \subseteq Path /\ p \in Above[p] /\ Root \in Above[p]
  /\ \A q \in Above[p] : Above[q] \subseteq Above[p] /\ (p \in Above[q] => q = p)
  /\ \A q, r \in Above[p] : q \in Above[r] \/ r \in Above[q]

LEMMA WayFacts == \A p \in Path : WayUp(p)
<1> DEFINE Bad == {p \in Path : ~WayUp(p)}
<1>1. ASSUME NEW p \in Path, p = Root \/ Parent[p] \notin Bad
      PROVE  p \notin Bad
  <2>1. CASE p = Root
    <3>1. Above[p] = {p}
      BY <2>1, AboveAt
    <3>. QED  BY <2>1, <3>1 DEF WayUp
  <2>2. CASE p # Root
    <3>1. PICK u \in Path : u = Parent[p]
      BY GuiTreeAssumption
    <3>2. WayUp(u) /\ Above[p] = {p} \cup Above[u]
      BY <1>1, <2>2, <3>1, AboveAt
    <3>3. u # p
      <4>1. \E x \in {p} : x = Root \/ Parent[x] \notin {p}
        BY TreeAssumption
      <4>. QED  BY <2>2, <3>1, <4>1
    <3>4. p \notin Above[u]
      BY <3>2, <3>3 DEF WayUp
    <3>. QED  BY <3>2, <3>4 DEF WayUp
  <2>. QED  BY <2>1, <2>2
<1>2. Bad = {}
  <2> HIDE DEF Bad
  <2>1. \A p \in Path : p = Root \/ Parent[p] \notin Bad => p \notin Bad
    BY <1>1
  <2>2. Bad \in SUBSET Path
    BY DEF Bad
  <2>. QED  BY <2>1, <2>2, TopDown
<1>. QED  BY <1>2

LEMMA RootAbove == Above[Root] = {Root}
BY AboveAt, GuiTreeAssumption

LEMMA ParentAbove ==
  ASSUME NEW p \in Path, p # Root
  PROVE  /\ Parent[p] \in Path /\ Parent[p] \in Above[p]
         /\ Above[p] = {p} \cup Above[Parent[p]] /\ p \notin Above[Parent[p]]
<1>1. Parent[p] \in Path /\ Above[p] = {p} \cup Above[Parent[p]]
  BY AboveAt, GuiTreeAssumption
<1>2. WayUp(p) /\ WayUp(Parent[p])
  BY <1>1, WayFacts
<1>3. Parent[p] # p
  <2>1. \E x \in {p} : x = Root \/ Parent[x] \notin {p}
    BY TreeAssumption
  <2>. QED  BY <2>1
<1>. QED  BY <1>1, <1>2, <1>3 DEF WayUp

LEMMA BelowIs ==
  /\ \A p, q : q \in Below(p) <=> q \in Path /\ p \in Above[q]
  /\ \A p : IsFiniteSet(Below(p)) /\ Below(p) \subseteq Path
<1>1. \A p : Below(p) \subseteq Path
  BY DEF Below
<1>. QED  BY <1>1, FS_Subset, GuiTreeAssumption DEF Below

LEMMA AboveLevel ==
  ASSUME NEW p \in Path
  PROVE  /\ IsFiniteSet(Above[p]) /\ Cardinality(Above[p]) \in Nat
         /\ p # Root => Cardinality(Above[p]) = Cardinality(Above[Parent[p]]) + 1
<1>1. \A q \in Path : IsFiniteSet(Above[q]) /\ Cardinality(Above[q]) \in Nat
  <2>1. \A q \in Path : Above[q] \subseteq Path
    BY WayFacts DEF WayUp
  <2>. QED  BY <2>1, FS_Subset, FS_CardinalityType, GuiTreeAssumption
<1>2. ASSUME p # Root PROVE Cardinality(Above[p]) = Cardinality(Above[Parent[p]]) + 1
  <2>1. IsFiniteSet(Above[Parent[p]]) /\ p \notin Above[Parent[p]]
        /\ Above[p] = Above[Parent[p]] \cup {p}
    BY <1>1, <1>2, ParentAbove
  <2>. QED  BY <2>1, FS_AddElement
<1>. QED  BY <1>1, <1>2

\* From q down to x there is a child of q on the way.
LEMMA ChildToward ==
  ASSUME NEW q \in Path
  PROVE  \A x \in Path : q \in Above[x] /\ q # x =>
           \E e \in Above[x] : e # Root /\ Parent[e] = q
<1> DEFINE Bad == {x \in Path : q \in Above[x] /\ q # x
                                /\ ~ \E e \in Above[x] : e # Root /\ Parent[e] = q}
<1>1. ASSUME NEW x \in Path, x = Root \/ Parent[x] \notin Bad PROVE x \notin Bad
  <2>1. CASE x = Root
    BY <2>1, RootAbove
  <2>2. CASE x # Root
    BY <1>1, <2>2, ParentAbove
  <2>. QED  BY <2>1, <2>2
<1>2. Bad = {}
  <2> HIDE DEF Bad
  <2>1. \A x \in Path : x = Root \/ Parent[x] \notin Bad => x \notin Bad
    BY <1>1
  <2>2. Bad \in SUBSET Path
    BY DEF Bad
  <2>. QED  BY <2>1, <2>2, TopDown
<1>. QED  BY <1>2

\* Two children of one path are not above one path.
LEMMA ChildrenApart ==
  ASSUME NEW x \in Path, NEW d \in Above[x], NEW e \in Above[x],
         d # Root, e # Root, Parent[d] = Parent[e]
  PROVE  d = e
<1>1. d \in Path /\ e \in Path /\ (d \in Above[e] \/ e \in Above[d])
  BY WayFacts DEF WayUp
<1>. QED  BY <1>1, ParentAbove

-----------------------------------------------------------------------------
(* Totals over the paths below one, and what an answer says of them.       *)

TotalIn(C, q) == Sum(Own, Below(q) \cap C)

\* C holds paths below p, each with those between.
ClosedIn(C, p) == C \subseteq Below(p) /\ \A x \in C : x # p => Parent[x] \in C

LEMMA ClosedUp ==
  ASSUME NEW p \in Path, NEW C, ClosedIn(C, p)
  PROVE  \A x \in C : \A e \in Above[x] : p \in Above[e] => e \in C
<1> DEFINE Bad == {x \in C : \E e \in Above[x] : p \in Above[e] /\ e \notin C}
<1>1. C \subseteq Path /\ \A x \in C : p \in Above[x]
  BY BelowIs DEF ClosedIn
<1>2. ASSUME NEW x \in Path, x = Root \/ Parent[x] \notin Bad PROVE x \notin Bad
  <2> SUFFICES ASSUME x \in C, NEW e \in Above[x], p \in Above[e], e # x PROVE e \in C
    OBVIOUS
  <2>1. x # Root /\ e \in Above[Parent[x]]
    BY RootAbove, AboveAt
  <2>2. x # p
    BY WayFacts DEF WayUp
  <2>3. Parent[x] \in C
    BY <2>2 DEF ClosedIn
  <2>. QED  BY <1>2, <2>1, <2>3
<1>3. Bad = {}
  <2> HIDE DEF Bad
  <2>1. \A x \in Path : x = Root \/ Parent[x] \notin Bad => x \notin Bad
    BY <1>2
  <2>2. Bad \in SUBSET Path
    BY <1>1 DEF Bad
  <2>. QED  BY <2>1, <2>2, TopDown
<1>. QED  BY <1>3

LEMMA TotalIsNat ==
  ASSUME NEW C, NEW q
  PROVE  /\ IsFiniteSet(Below(q) \cap C) /\ IntOn(Own, Below(q) \cap C)
         /\ TotalIn(C, q) \in Nat
<1>1. IsFiniteSet(Below(q) \cap C) /\ Below(q) \cap C \subseteq Path
  BY BelowIs, FS_Subset
<1>2. \A x \in Below(q) \cap C : Own[x] \in Nat
  BY <1>1, GuiTreeAssumption
<1>. QED  BY <1>1, <1>2, SumNat DEF TotalIn, IntOn

LEMMA TotalNat == \A C, q : TotalIn(C, q) \in Nat
BY TotalIsNat

\* A total is the path's own size and the totals of its entries.
LEMMA TotalDown ==
  ASSUME NEW p \in Path, NEW C, ClosedIn(C, p), NEW q \in C,
         NEW f, \A e \in Entries(C, q) : f[e] = TotalIn(C, e)
  PROVE  /\ IsFiniteSet(Entries(C, q)) /\ \A e \in Entries(C, q) : f[e] \in Nat
         /\ TotalIn(C, q) = Own[q] + Sum(f, Entries(C, q))
<1> DEFINE E == Entries(C, q)
           part == [e \in E |-> Below(e) \cap C]
<1>1. C \subseteq Path /\ q \in Path /\ p \in Above[q] /\ E \subseteq Path
      /\ \A e \in E : e \in C /\ e # Root /\ Parent[e] = q
  BY BelowIs DEF ClosedIn, Entries
<1>2. IsFiniteSet(E)
  BY <1>1, FS_Subset, GuiTreeAssumption
<1>3. \A e \in E : f[e] \in Nat
  BY TotalIsNat
<1>4. \A e \in E : IsFiniteSet(part[e]) /\ IntOn(Own, part[e]) /\ f[e] = Sum(Own, part[e])
  BY TotalIsNat DEF TotalIn
<1>5. ASSUME NEW d \in E, NEW e \in E, d # e PROVE part[d] \cap part[e] = {}
  <2> SUFFICES ASSUME NEW x \in Below(d), x \in Below(e) PROVE FALSE
    OBVIOUS
  <2>1. x \in Path /\ d \in Above[x] /\ e \in Above[x]
    BY BelowIs
  <2>. QED  BY <1>1, <1>5, <2>1, ChildrenApart
<1>6. UNION {part[e] : e \in E} = (Below(q) \cap C) \ {q}
  <2>1. ASSUME NEW e \in E, NEW x \in Below(e) PROVE x \in Below(q) /\ x # q
    <3>1. x \in Path /\ e \in Above[x] /\ q \in Above[e] /\ e \notin Above[q]
      BY <1>1, BelowIs, ParentAbove
    <3>. QED  BY <3>1, BelowIs, WayFacts DEF WayUp
  <2>2. ASSUME NEW x \in Below(q) \cap C, x # q PROVE \E e \in E : x \in Below(e)
    <3>1. x \in Path /\ q \in Above[x]
      BY BelowIs
    <3>2. PICK e \in Above[x] : e # Root /\ Parent[e] = q
      BY <1>1, <2>2, <3>1, ChildToward
    <3>3. e \in Path
      BY <3>1, WayFacts DEF WayUp
    <3>4. p \in Above[e]
      BY <1>1, <3>2, <3>3, ParentAbove
    <3>5. e \in C
      BY <2>2, <3>4, ClosedUp
    <3>. QED  BY <3>1, <3>2, <3>5, BelowIs DEF Entries
  <2>. QED  BY <2>1, <2>2
<1>7. Sum(Own, UNION {part[e] : e \in E}) = Sum(f, E)
  <2> HIDE DEF E, part
  <2>. QED  BY <1>2, <1>4, <1>5, SumParts
<1>8. q \in Below(q) \cap C
  BY <1>1, BelowIs, WayFacts DEF WayUp
<1>9. TotalIn(C, q) = Own[q] + Sum(Own, (Below(q) \cap C) \ {q})
  <2>1. PICK S : S = Below(q) \cap C
    OBVIOUS
  <2>2. IsFiniteSet(S) /\ IntOn(Own, S) /\ q \in S
    BY <1>8, <2>1, TotalIsNat
  <2>3. Sum(Own, S) = Own[q] + Sum(Own, S \ {q})
    BY <2>2, SumRemove
  <2>. QED  BY <2>1, <2>3 DEF TotalIn
<1>. QED  BY <1>2, <1>3, <1>6, <1>7, <1>9

\* What is known of an answer to a request about p.
GoodAnswer(a, p) ==
  /\ a.saw \subseteq Path /\ UpClosed(a.saw) /\ Root \in a.saw
  /\ a.counted \subseteq a.saw /\ ClosedIn(a.counted, p)
  /\ p \in a.saw => p \in a.counted
  /\ a.hides \subseteq Path \ {Root} /\ a.hides \cap Above[p] = {}
  /\ \A q \in Below(p) : a.v[q] = TotalIn(a.counted, q)

LEMMA AnswerIsGood ==
  ASSUME NEW D \in SUBSET Path, UpClosed(D), Root \in D, NEW p \in Path, NEW depth \in Nat \ {0},
         NEW hides \in SUBSET (Path \ {Root}), hides \cap Above[p] = {}
  PROVE  GoodAnswer(Answer(D, p, depth, hides), p)
<1> DEFINE a == Answer(D, p, depth, hides)
           C == Counted(D, p, depth)
<1>1. /\ a.saw = D /\ a.counted = C /\ a.hides = hides
      /\ a.v = [q \in Below(p) |-> SumOf(LAMBDA e : Own[e], Below(q) \cap C)]
  BY DEF Answer, Totals
<1>2. C \subseteq D /\ C \subseteq Below(p)
  BY DEF Counted, Within
<1>3. ASSUME NEW x \in C, x # p PROVE Parent[x] \in C
  <2>1. x \in Path /\ p \in Above[x] /\ x \in D
        /\ Cardinality(Above[x]) - Cardinality(Above[p]) < depth
    BY BelowIs DEF Counted, Within
  <2>2. x # Root
    BY <1>3, <2>1, RootAbove
  <2>3. PICK u \in Path : u = Parent[x]
    BY <2>1, <2>2, ParentAbove
  <2>4. u \in D /\ p \in Above[u]
    BY <1>3, <2>1, <2>2, <2>3, ParentAbove DEF UpClosed
  <2>5. Cardinality(Above[x]) = Cardinality(Above[u]) + 1 /\ Cardinality(Above[u]) \in Nat
        /\ Cardinality(Above[p]) \in Nat
    BY <2>1, <2>2, <2>3, AboveLevel
  <2>6. Cardinality(Above[u]) - Cardinality(Above[p]) < depth
    BY <2>1, <2>5
  <2>. QED  BY <2>3, <2>4, <2>6, BelowIs DEF Counted, Within
<1>4. ASSUME p \in D PROVE p \in C
  <2>1. p \in Below(p) /\ Cardinality(Above[p]) - Cardinality(Above[p]) < depth
    BY AboveLevel, BelowIs, WayFacts DEF WayUp
  <2>. QED  BY <1>4, <2>1 DEF Counted, Within
<1>5. \A q \in Below(p) : a.v[q] = TotalIn(C, q)
  BY <1>1, Zenon DEF TotalIn, Sum, SumOf
<1> HIDE DEF a, C
<1>6. ClosedIn(a.counted, p)
  BY <1>1, <1>2, <1>3 DEF ClosedIn
<1>7. GoodAnswer(a, p)
  BY <1>1, <1>2, <1>4, <1>5, <1>6 DEF GoodAnswer
<1>. QED  BY <1>7 DEF a

-----------------------------------------------------------------------------
(* The objects of the client.                                              *)

Ob == Path \X (0 .. MaxOps)

ObjType ==
  [v : Int, par : Ob \cup {NoObj}, kids : SUBSET Ob, more : Nat,
   pruned : BOOLEAN, loaded : BOOLEAN]

\* How an object hangs together with those it names.
KidsLinked(H, o) ==
  /\ H[o].kids \subseteq DOMAIN H
  /\ \A k \in H[o].kids : H[k].par = o /\ PathOf(k) # Root /\ Parent[PathOf(k)] = PathOf(o)
  /\ \A k, l \in H[o].kids : k[2] = l[2]

ParLinked(H, o) ==
  IF PathOf(o) = Root THEN H[o].par = NoObj
  ELSE H[o].par \in DOMAIN H /\ PathOf(H[o].par) = Parent[PathOf(o)]

HeapOK(H) ==
  /\ DOMAIN H \subseteq Ob /\ H \in [DOMAIN H -> ObjType]
  /\ \A o \in DOMAIN H : KidsLinked(H, o) /\ ParLinked(H, o)

LEMMA ObFacts ==
  /\ NoObj \notin Ob
  /\ \A o \in Ob : PathOf(o) \in Path /\ o[2] \in 0 .. MaxOps /\ o = <<PathOf(o), o[2]>>
  /\ \A q, g : PathOf(<<q, g>>) = q /\ <<q, g>>[2] = g
  /\ \A q, g : q \in Path /\ g \in 0 .. MaxOps => <<q, g>> \in Ob
BY DEF Ob, NoObj, PathOf

LEMMA PairFacts == \A q, g : PathOf(<<q, g>>) = q /\ <<q, g>>[2] = g
BY DEF PathOf

\* The paths below p for which an object is made.
ShownIn(a, p) == {q \in a.counted \ {p} : Above[q] \cap a.hides = {}}

LEMMA ShownFacts ==
  ASSUME NEW p \in Path, NEW a, GoodAnswer(a, p)
  PROVE  \A q \in ShownIn(a, p) :
           /\ q \in Path /\ q # Root /\ q \in Below(p) /\ q # p /\ Parent[q] \in Below(p)
           /\ Above[q] \cap a.hides = {} /\ Above[Parent[q]] \cap a.hides = {}
           /\ Parent[q] # p => Parent[q] \in ShownIn(a, p)
<1> SUFFICES ASSUME NEW q \in ShownIn(a, p)
             PROVE  /\ q \in Path /\ q # Root /\ q \in Below(p) /\ q # p /\ Parent[q] \in Below(p)
                    /\ Above[q] \cap a.hides = {} /\ Above[Parent[q]] \cap a.hides = {}
                    /\ Parent[q] # p => Parent[q] \in ShownIn(a, p)
  OBVIOUS
<1>1. q \in Below(p) /\ q # p /\ Above[q] \cap a.hides = {} /\ q \in a.counted
  BY DEF ShownIn, GoodAnswer, ClosedIn
<1>2. q \in Path /\ p \in Above[q] /\ q # Root
  BY <1>1, BelowIs, RootAbove
<1>3. PICK u \in Path : u = Parent[q] /\ Above[q] = {q} \cup Above[u] /\ u \in a.counted
  BY <1>1, <1>2, ParentAbove DEF GoodAnswer, ClosedIn
<1>4. p \in Above[u] /\ Above[u] \cap a.hides = {}
  BY <1>1, <1>2, <1>3
<1>5. u # p => u \in ShownIn(a, p)
  BY <1>3, <1>4 DEF ShownIn
<1>6. u \in Below(p)
  BY <1>4, BelowIs
<1>. QED  BY <1>1, <1>2, <1>3, <1>4, <1>5, <1>6

LEMMA KidsFacts ==
  ASSUME NEW p \in Path, NEW a, GoodAnswer(a, p),
         NEW q \in Below(p), Above[q] \cap a.hides = {}, NEW g
  PROVE  /\ KidsIn(a, q, g) = {<<e, g>> : e \in Entries(a.counted, q) \ a.hides}
         /\ InBucket(a, q) = Entries(a.counted, q) \cap a.hides
         /\ \A e \in Entries(a.counted, q) :
              /\ e \in Below(p) /\ e # Root /\ Parent[e] = q /\ a.v[e] = TotalIn(a.counted, e)
              /\ e \notin a.hides => e \in ShownIn(a, p)
         /\ IsFiniteSet(Entries(a.counted, q))
         /\ Bucket(a, q) = Sum(a.v, InBucket(a, q)) /\ Bucket(a, q) \in Nat
<1>1. KidsIn(a, q, g) = {<<e, g>> : e \in Entries(a.counted, q) \ a.hides}
  BY DEF KidsIn, Entries
<1>2. InBucket(a, q) = Entries(a.counted, q) \cap a.hides
  BY DEF InBucket, Entries, GoodAnswer
<1>3. q \in Path /\ p \in Above[q]
  BY BelowIs
<1>4. ASSUME NEW e \in Entries(a.counted, q)
      PROVE  /\ e \in Below(p) /\ e # Root /\ Parent[e] = q /\ a.v[e] = TotalIn(a.counted, e)
             /\ e \notin a.hides => e \in ShownIn(a, p)
  <2>1. e \in a.counted /\ e \in Below(p) /\ e # Root /\ Parent[e] = q
    BY DEF Entries, GoodAnswer, ClosedIn
  <2>2. e \in Path /\ Above[e] = {e} \cup Above[q] /\ e \notin Above[q]
    BY <2>1, BelowIs, ParentAbove
  <2>3. e # p
    BY <1>3, <2>2
  <2>4. a.v[e] = TotalIn(a.counted, e)
    BY <2>1 DEF GoodAnswer
  <2>5. e \notin a.hides => Above[e] \cap a.hides = {}
    BY <2>2
  <2>6. e \notin a.hides => e \in ShownIn(a, p)
    BY <2>1, <2>3, <2>5 DEF ShownIn
  <2>. QED  BY <2>1, <2>4, <2>6
<1>5. Entries(a.counted, q) \subseteq Path
  BY <1>4, BelowIs
<1>6. IsFiniteSet(Entries(a.counted, q)) /\ IsFiniteSet(InBucket(a, q))
  BY <1>2, <1>5, FS_Subset, GuiTreeAssumption
<1>7. Bucket(a, q) = Sum(a.v, InBucket(a, q))
  BY Zenon DEF Bucket, SumOf, Sum
<1>8. \A e \in InBucket(a, q) : a.v[e] \in Nat
  <2>1. TAKE e \in InBucket(a, q)
  <2>2. e \in Entries(a.counted, q)
    BY <1>2
  <2>3. a.v[e] = TotalIn(a.counted, e)
    BY <1>4, <2>2
  <2>4. TotalIn(a.counted, e) \in Nat
    BY TotalIsNat
  <2>. QED  BY <2>3, <2>4
<1>9. Sum(a.v, InBucket(a, q)) \in Nat
  BY <1>6, <1>8, SumNat
<1>. QED  BY <1>1, <1>2, <1>4, <1>6, <1>7, <1>9

\* What is made for q adds up.
LEMMA AnswerAdds ==
  ASSUME NEW p \in Path, NEW a, GoodAnswer(a, p),
         NEW q \in a.counted, Above[q] \cap a.hides = {}
  PROVE  a.v[q] = Own[q] + Bucket(a, q) + Sum(a.v, Entries(a.counted, q) \ a.hides)
<1>1. q \in Below(p) /\ ClosedIn(a.counted, p)
  BY DEF GoodAnswer, ClosedIn
<1> DEFINE E == Entries(a.counted, q)
<1>2. PICK E0 : E0 = E
  OBVIOUS
<1>3. \A e \in E : a.v[e] = TotalIn(a.counted, e)
  BY <1>1, KidsFacts
<1>4. IsFiniteSet(E) /\ (\A e \in E : a.v[e] \in Nat) /\ a.v[q] = Own[q] + Sum(a.v, E)
  <2>1. TotalIn(a.counted, q) = Own[q] + Sum(a.v, E) /\ IsFiniteSet(E) /\ \A e \in E : a.v[e] \in Nat
    BY <1>1, <1>3, TotalDown
  <2>. QED  BY <1>1, <2>1 DEF GoodAnswer
<1>5. PICK A, B : A = E \cap a.hides /\ B = E \ a.hides
  OBVIOUS
<1>6. IsFiniteSet(A) /\ IsFiniteSet(B) /\ A \cap B = {} /\ A \cup B = E /\ IntOn(a.v, A \cup B)
  BY <1>4, <1>5, FS_Subset DEF IntOn
<1>7. Sum(a.v, A \cup B) = Sum(a.v, A) + Sum(a.v, B)
  BY <1>6, SumUnion
<1>8. Bucket(a, q) = Sum(a.v, A)
  BY <1>1, <1>5, KidsFacts
<1>9. Sum(a.v, A) \in Int /\ Sum(a.v, B) \in Int /\ Own[q] \in Int
  <2>1. IntOn(a.v, A) /\ IntOn(a.v, B)
    BY <1>6 DEF IntOn
  <2>2. q \in Path
    BY <1>1, BelowIs
  <2>. QED  BY <1>6, <2>1, <2>2, SumInt, GuiTreeAssumption
<1>10. a.v[q] = Own[q] + (Sum(a.v, A) + Sum(a.v, B))
  BY <1>4, <1>6, <1>7
<1> HIDE DEF E
<1>11. a.v[q] = Own[q] + Bucket(a, q) + Sum(a.v, B)
  BY <1>8, <1>9, <1>10
<1>. QED  BY <1>5, <1>11 DEF E

-----------------------------------------------------------------------------
(* What an answer makes.                                                   *)

MadeOf(a, p, g, o, q) == Made(a, q, g, LinkedTo(q, g, o), a.v[q], FALSE)

\* H holds what answer a makes below o.
HasMade(H, a, g, o) ==
  /\ o \in DOMAIN H /\ H[o].kids = KidsIn(a, PathOf(o), g) /\ H[o].more = Bucket(a, PathOf(o))
  /\ \A q \in ShownIn(a, PathOf(o)) :
       <<q, g>> \in DOMAIN H /\ H[<<q, g>>] = MadeOf(a, PathOf(o), g, o, q)

\* No object is of generation g.
Fresh(H, g) == \A x \in DOMAIN H : x[2] # g

MadeObs(a, p, g) == {<<q, g>> : q \in ShownIn(a, p)}

LEMMA MadeBelowIs ==
  ASSUME NEW a, NEW p, NEW g, NEW o
  PROVE  /\ DOMAIN MadeBelow(a, p, g, o) = MadeObs(a, p, g)
         /\ \A q \in ShownIn(a, p) : MadeBelow(a, p, g, o)[<<q, g>>] = MadeOf(a, p, g, o, q)
<1>1. MadeBelow(a, p, g, o) =
        [x \in MadeObs(a, p, g) |->
           Made(a, PathOf(x), g, LinkedTo(PathOf(x), g, o), a.v[PathOf(x)], FALSE)]
  BY DEF MadeBelow, MadeObs, ShownIn
<1>2. \A q \in ShownIn(a, p) : <<q, g>> \in MadeObs(a, p, g) /\ PathOf(<<q, g>>) = q
  BY ObFacts DEF MadeObs
<1>. QED  BY <1>1, <1>2 DEF MadeOf

LEMMA MadeTyped ==
  ASSUME NEW p \in Path, NEW a, GoodAnswer(a, p), NEW q \in Below(p), Above[q] \cap a.hides = {},
         NEW g \in 0 .. MaxOps, NEW par \in Ob \cup {NoObj}, NEW total \in Int,
         NEW loaded \in BOOLEAN
  PROVE  Made(a, q, g, par, total, loaded) \in ObjType
<1>1. KidsIn(a, q, g) \subseteq Ob
  <2>1. \A e \in Entries(a.counted, q) : e \in Path
    BY KidsFacts, BelowIs
  <2>. QED  BY <2>1, KidsFacts, ObFacts
<1>2. Bucket(a, q) \in Nat
  BY KidsFacts
<1>3. (InBucket(a, q) # {}) \in BOOLEAN
  OBVIOUS
<1>. QED  BY <1>1, <1>2, <1>3 DEF Made, ObjType

\* What is made hangs together.
LEMMA ContainedLinked ==
  ASSUME NEW H, NEW a, NEW g, NEW o, HasMade(H, a, g, o), PathOf(o) \in Path,
         GoodAnswer(a, PathOf(o))
  PROVE  /\ KidsLinked(H, o)
         /\ \A q \in ShownIn(a, PathOf(o)) : KidsLinked(H, <<q, g>>) /\ ParLinked(H, <<q, g>>)
<1> DEFINE p == PathOf(o)
<1>1. p \in Path /\ p \in Below(p)
  BY BelowIs, WayFacts DEF WayUp
<1>2. ASSUME NEW q \in ShownIn(a, p)
      PROVE  /\ <<q, g>> \in DOMAIN H /\ PathOf(<<q, g>>) = q /\ <<q, g>>[2] = g
             /\ H[<<q, g>>].par = LinkedTo(q, g, o) /\ H[<<q, g>>].kids = KidsIn(a, q, g)
  <2>1. <<q, g>> \in DOMAIN H /\ H[<<q, g>>] = MadeOf(a, p, g, o, q)
    BY DEF HasMade
  <2>2. MadeOf(a, p, g, o, q).par = LinkedTo(q, g, o) /\ MadeOf(a, p, g, o, q).kids = KidsIn(a, q, g)
    BY DEF MadeOf, Made
  <2>. QED  BY <2>1, <2>2, PairFacts
<1>3. ASSUME NEW q \in Below(p), Above[q] \cap a.hides = {}, NEW x, PathOf(x) = q,
             H[x].kids = KidsIn(a, q, g),
             q = p => x = o, q # p => x = <<q, g>>
      PROVE  KidsLinked(H, x)
  <2>1. \A k \in H[x].kids : \E e \in ShownIn(a, p) : k = <<e, g>> /\ e # Root /\ Parent[e] = q
    BY <1>1, <1>3, KidsFacts
  <2>2. ASSUME NEW k \in H[x].kids
        PROVE  k \in DOMAIN H /\ k[2] = g /\ H[k].par = x /\ PathOf(k) # Root
               /\ Parent[PathOf(k)] = PathOf(x)
    <3>1. PICK e \in ShownIn(a, p) : k = <<e, g>> /\ e # Root /\ Parent[e] = q
      BY <2>1
    <3>2. LinkedTo(e, g, o) = x
      BY <1>3, <3>1 DEF LinkedTo
    <3>. QED  BY <1>2, <1>3, <3>1, <3>2
  <2>. QED  BY <2>2 DEF KidsLinked
<1>4. KidsLinked(H, o)
  <2>1. Above[p] \cap a.hides = {} /\ H[o].kids = KidsIn(a, p, g)
    BY DEF GoodAnswer, HasMade
  <2>. QED  BY <1>1, <1>3, <2>1
<1>5. ASSUME NEW q \in ShownIn(a, p)
      PROVE  KidsLinked(H, <<q, g>>) /\ ParLinked(H, <<q, g>>)
  <2>1. /\ q \in Path /\ q # Root /\ q \in Below(p) /\ q # p /\ Parent[q] \in Below(p)
        /\ Above[q] \cap a.hides = {}
        /\ Parent[q] # p => Parent[q] \in ShownIn(a, p)
    BY <1>1, ShownFacts
  <2>2. KidsLinked(H, <<q, g>>)
    <3>1. PICK x : x = <<q, g>>
      OBVIOUS
    <3>2. PathOf(x) = q /\ H[x].kids = KidsIn(a, q, g)
      BY <1>2, <3>1
    <3> HIDE DEF p
    <3>3. KidsLinked(H, x)
      BY <1>3, <2>1, <3>1, <3>2
    <3>. QED  BY <3>1, <3>3
  <2>3. ParLinked(H, <<q, g>>)
    <3>1. CASE Parent[q] = p
      BY <1>2, <2>1, <3>1 DEF ParLinked, LinkedTo, HasMade
    <3>2. CASE Parent[q] # p
      <4>1. PICK u : u = Parent[q] /\ u \in ShownIn(a, p)
        BY <2>1, <3>2
      <4>2. H[<<q, g>>].par = <<u, g>> /\ PathOf(<<q, g>>) = q
        <5>1. LinkedTo(q, g, o) = <<Parent[q], g>>
          BY <3>2 DEF LinkedTo
        <5>. QED  BY <1>2, <4>1, <5>1
      <4>3. <<u, g>> \in DOMAIN H /\ PathOf(<<u, g>>) = u
        BY <1>2, <4>1
      <4>. QED  BY <2>1, <4>1, <4>2, <4>3 DEF ParLinked
    <3>. QED  BY <3>1, <3>2
  <2>. QED  BY <2>2, <2>3
<1>. QED  BY <1>4, <1>5

\* Objects J that replace those below o by what answer a of number g shows.
Grafted(J, a, g, o) ==
  LET M == MadeObs(a, PathOf(o), g)
  IN /\ HeapOK(J) /\ HasMade(J, a, g, o)
     /\ DOMAIN J = DOMAIN heap \cup M /\ DOMAIN heap \cap M = {}
     /\ J[o].par = heap[o].par
     /\ \A x \in DOMAIN heap \ {o} :
          J[x].par = heap[x].par /\ J[x].kids = heap[x].kids /\ J[x].more = heap[x].more

LEMMA GraftIs ==
  ASSUME HeapOK(heap), NEW o \in DOMAIN heap, NEW a, GoodAnswer(a, PathOf(o)),
         NEW g \in 0 .. MaxOps, Fresh(heap, g), NEW total \in Int
  PROVE  /\ Grafted(Graft(a, g, o, total), a, g, o) /\ Graft(a, g, o, total)[o].v = total
         /\ \A x \in DOMAIN heap \ {o} : Graft(a, g, o, total)[x] = heap[x]
<1> DEFINE p == PathOf(o)
           M == MadeObs(a, p, g)
           H == Graft(a, g, o, total)
           made == MadeBelow(a, p, g, o)
           top == Made(a, p, g, heap[o].par, total, TRUE)
<1>1. o \in Ob /\ p \in Path /\ p \in Below(p) /\ Above[p] \cap a.hides = {}
  BY ObFacts, BelowIs, WayFacts DEF HeapOK, WayUp, GoodAnswer
<1>2. DOMAIN made = M /\ \A q \in ShownIn(a, p) : made[<<q, g>>] = MadeOf(a, p, g, o, q)
  BY MadeBelowIs
<1>3. DOMAIN heap \cap M = {}
  BY ObFacts DEF Fresh, MadeObs
<1>4. H = [x \in DOMAIN heap \cup M |->
             IF x \in M THEN made[x] ELSE IF x = o THEN top ELSE heap[x]]
  BY <1>2 DEF Graft
<1>5. /\ DOMAIN H = DOMAIN heap \cup M
      /\ \A x \in DOMAIN heap \ {o} : H[x] = heap[x]
      /\ H[o] = top
      /\ \A q \in ShownIn(a, p) : <<q, g>> \in DOMAIN H /\ H[<<q, g>>] = MadeOf(a, p, g, o, q)
  <2> HIDE DEF top, made, H
  <2>1. \A q \in ShownIn(a, p) : <<q, g>> \in M
    BY DEF MadeObs
  <2> HIDE DEF M
  <2>. QED  BY <1>2, <1>3, <1>4, <2>1
<1>6. H[o].v = total /\ H[o].par = heap[o].par /\ H[o].kids = KidsIn(a, p, g)
      /\ H[o].more = Bucket(a, p)
  BY <1>5 DEF Made
<1>7. HasMade(H, a, g, o)
  BY <1>5, <1>6 DEF HasMade
<1> HIDE DEF H, made, M
<1>8. KidsLinked(H, o) /\ \A q \in ShownIn(a, p) : KidsLinked(H, <<q, g>>) /\ ParLinked(H, <<q, g>>)
  BY <1>1, <1>7, ContainedLinked
<1>9. \A x \in DOMAIN heap : /\ x \in Ob /\ heap[x] \in ObjType
                             /\ KidsLinked(heap, x) /\ ParLinked(heap, x)
  BY DEF HeapOK
<1>10. \A x \in DOMAIN heap : x \in DOMAIN H /\ H[x].par = heap[x].par
  BY <1>5, <1>6
<1>11. \A x \in DOMAIN heap : ParLinked(H, x)
  BY <1>9, <1>10 DEF ParLinked
<1>12. \A x \in DOMAIN heap \ {o} : KidsLinked(H, x)
  BY <1>5, <1>9, <1>10 DEF KidsLinked
<1>13. \A x \in M : \E q \in ShownIn(a, p) : x = <<q, g>>
  BY DEF M, MadeObs
<1>14. \A x \in DOMAIN H : KidsLinked(H, x) /\ ParLinked(H, x)
  BY <1>5, <1>8, <1>11, <1>12, <1>13
<1>15. top \in ObjType
  <2>1. heap[o].par \in Ob \cup {NoObj}
    BY <1>9 DEF ObjType
  <2>. QED  BY <1>1, <2>1, MadeTyped
<1>16. ASSUME NEW q \in ShownIn(a, p) PROVE <<q, g>> \in Ob /\ MadeOf(a, p, g, o, q) \in ObjType
  <2>1. q \in Path /\ q \in Below(p) /\ Above[q] \cap a.hides = {} /\ Parent[q] \in Path
    BY <1>1, ShownFacts, BelowIs
  <2>2. LinkedTo(q, g, o) \in Ob
    BY <1>1, <2>1, ObFacts DEF LinkedTo
  <2>3. a.v[q] \in Int
    <3>1. a.v[q] = TotalIn(a.counted, q)
      BY <2>1 DEF GoodAnswer
    <3>. QED  BY <3>1, TotalNat
  <2>. QED  BY <1>1, <2>1, <2>2, <2>3, MadeTyped, ObFacts DEF MadeOf
<1>17. \A x \in DOMAIN H : x \in Ob /\ H[x] \in ObjType
  BY <1>5, <1>9, <1>13, <1>15, <1>16
<1>18. H = [x \in DOMAIN H |-> H[x]]
  BY <1>4
<1>19. HeapOK(H)
  BY <1>14, <1>17, <1>18 DEF HeapOK
<1>20. Grafted(H, a, g, o)
  BY <1>3, <1>5, <1>6, <1>7, <1>19 DEF Grafted, M
<1>. QED  BY <1>5, <1>6, <1>20 DEF H

\* A scan of the root makes a tree of its own.
LEMMA LoadedIs ==
  ASSUME NEW a, GoodAnswer(a, Root), NEW g \in 0 .. MaxOps
  PROVE  LET H == Loaded(a, g)
             top == <<Root, g>>
         IN /\ DOMAIN H = {top} \cup MadeObs(a, Root, g)
            /\ H[top].v = a.v[Root] /\ H[top].par = NoObj
            /\ HasMade(H, a, g, top)
            /\ HeapOK(H)
<1> DEFINE top == <<Root, g>>
           M == MadeObs(a, Root, g)
           H == Loaded(a, g)
           made == MadeBelow(a, Root, g, top)
           root == Made(a, Root, g, NoObj, a.v[Root], FALSE)
<1>1. /\ Root \in Path /\ top \in Ob /\ PathOf(top) = Root /\ Root \in Below(Root)
      /\ Above[Root] \cap a.hides = {}
  BY ObFacts, BelowIs, WayFacts, GuiTreeAssumption DEF WayUp, GoodAnswer
<1>2. DOMAIN made = M /\ \A q \in ShownIn(a, Root) : made[<<q, g>>] = MadeOf(a, Root, g, top, q)
  BY MadeBelowIs
<1>3. top \notin M
  BY ObFacts DEF MadeObs, ShownIn
<1>4. H = [x \in {top} \cup M |-> IF x = top THEN root ELSE made[x]]
  BY <1>2 DEF Loaded
<1>5. /\ DOMAIN H = {top} \cup M
      /\ H[top] = root
      /\ \A q \in ShownIn(a, Root) : <<q, g>> \in DOMAIN H /\ H[<<q, g>>] = MadeOf(a, Root, g, top, q)
  <2> HIDE DEF root, made, H
  <2>1. \A q \in ShownIn(a, Root) : <<q, g>> \in M
    BY DEF MadeObs
  <2> HIDE DEF M, top
  <2>. QED  BY <1>2, <1>3, <1>4, <2>1
<1>6. H[top].v = a.v[Root] /\ H[top].par = NoObj /\ H[top].kids = KidsIn(a, Root, g)
      /\ H[top].more = Bucket(a, Root)
  BY <1>5 DEF Made
<1>7. HasMade(H, a, g, top)
  <2> HIDE DEF top, H
  <2>. QED  BY <1>1, <1>5, <1>6 DEF HasMade
<1> HIDE DEF H, made, M, top
<1>8. KidsLinked(H, top) /\ \A q \in ShownIn(a, Root) : KidsLinked(H, <<q, g>>) /\ ParLinked(H, <<q, g>>)
  BY <1>1, <1>7, ContainedLinked
<1>9. ParLinked(H, top)
  BY <1>1, <1>6 DEF ParLinked
<1>10. \A x \in M : \E q \in ShownIn(a, Root) : x = <<q, g>>
  BY DEF M, MadeObs
<1>11. a.v[Root] = TotalIn(a.counted, Root) /\ a.v[Root] \in Int
  <2>1. a.v[Root] = TotalIn(a.counted, Root)
    BY <1>1 DEF GoodAnswer
  <2>. QED  BY <2>1, TotalNat
<1>12. root \in ObjType
  BY <1>1, <1>11, MadeTyped
<1>13. ASSUME NEW q \in ShownIn(a, Root) PROVE <<q, g>> \in Ob /\ MadeOf(a, Root, g, top, q) \in ObjType
  <2>1. q \in Path /\ q \in Below(Root) /\ Above[q] \cap a.hides = {} /\ Parent[q] \in Path
    BY <1>1, ShownFacts, BelowIs
  <2>2. LinkedTo(q, g, top) \in Ob
    BY <1>1, <2>1, ObFacts DEF LinkedTo
  <2>3. a.v[q] \in Int
    <3>1. a.v[q] = TotalIn(a.counted, q)
      BY <2>1 DEF GoodAnswer
    <3>. QED  BY <3>1, TotalNat
  <2>. QED  BY <1>1, <2>1, <2>2, <2>3, MadeTyped, ObFacts DEF MadeOf
<1>14. \A x \in DOMAIN H : x \in Ob /\ H[x] \in ObjType /\ KidsLinked(H, x) /\ ParLinked(H, x)
  BY <1>1, <1>5, <1>8, <1>9, <1>10, <1>12, <1>13
<1>15. H = [x \in DOMAIN H |-> H[x]]
  BY <1>4
<1>16. HeapOK(H)
  BY <1>14, <1>15 DEF HeapOK
<1>. QED  BY <1>5, <1>6, <1>7, <1>16 DEF H, M, top

-----------------------------------------------------------------------------
(* Following the links of a heap.                                          *)

LEMMA LinksOf ==
  ASSUME NEW H, HeapOK(H), NEW o \in DOMAIN H
  PROVE  /\ o \in Ob /\ PathOf(o) \in Path
         /\ PathOf(o) = Root => H[o].par = NoObj
         /\ PathOf(o) # Root => H[o].par # NoObj /\ H[o].par \in DOMAIN H
                                /\ PathOf(H[o].par) = Parent[PathOf(o)]
BY ObFacts DEF HeapOK, ParLinked

\* A property of objects that goes from each one to those it is linked to
\* from below holds.
LEMMA HeapDown ==
  ASSUME NEW H, HeapOK(H), NEW Bad \in SUBSET DOMAIN H,
         \A o \in DOMAIN H : PathOf(o) = Root \/ H[o].par \notin Bad => o \notin Bad
  PROVE  Bad = {}
<1> SUFFICES ASSUME Bad # {} PROVE FALSE
  OBVIOUS
<1> DEFINE P == {PathOf(o) : o \in Bad}
<1>1. P \in (SUBSET Path) \ {{}}
  BY LinksOf
<1>2. PICK p \in P : p = Root \/ Parent[p] \notin P
  <2> HIDE DEF P
  <2>. QED  BY <1>1, TreeAssumption
<1>3. PICK o \in Bad : PathOf(o) = p
  BY <1>2
<1>4. PathOf(o) # Root => H[o].par \notin Bad
  BY <1>2, <1>3, LinksOf
<1>. QED  BY <1>3, <1>4

AncRec(H, w) ==
  w = [o \in DOMAIN H |-> IF H[o].par = NoObj THEN {} ELSE {H[o].par} \cup w[H[o].par]]

LEMMA AncExists ==
  ASSUME NEW H, HeapOK(H)
  PROVE  \E w : AncRec(H, w)
<1> DEFINE Closed(S) == \A x \in S : H[x].par # NoObj => H[x].par \in S
           Least(o) == {q \in DOMAIN H : \A S \in SUBSET DOMAIN H :
                          (H[o].par # NoObj => H[o].par \in S) /\ Closed(S) => q \in S}
           w == [o \in DOMAIN H |-> Least(o)]
<1>1. ASSUME NEW o \in DOMAIN H
      PROVE  Least(o) = IF H[o].par = NoObj THEN {} ELSE {H[o].par} \cup Least(H[o].par)
  <2>1. CASE H[o].par = NoObj
    <3>1. {} \in SUBSET DOMAIN H /\ Closed({})
      OBVIOUS
    <3>. QED  BY <2>1, <3>1
  <2>2. CASE H[o].par # NoObj
    <3>1. PICK u \in DOMAIN H : u = H[o].par
      BY <2>2, LinksOf
    <3>2. u \in Least(o) /\ Least(u) \subseteq Least(o)
      BY <2>2, <3>1
    <3>3. ASSUME NEW q \in Least(o) PROVE q = u \/ q \in Least(u)
      <4> DEFINE S == {u} \cup Least(u)
      <4>1. S \in SUBSET DOMAIN H /\ u \in S
        OBVIOUS
      <4>2. Closed(S)
        <5> SUFFICES ASSUME NEW x \in S, H[x].par # NoObj PROVE H[x].par \in S
          OBVIOUS
        <5>1. H[x].par \in DOMAIN H
          BY LinksOf
        <5>. QED  BY <5>1
      <4>3. q \in S
        <5> HIDE DEF S
        <5>. QED  BY <2>2, <3>1, <3>3, <4>1, <4>2
      <4>. QED  BY <4>3
    <3> HIDE DEF Least
    <3>. QED  BY <2>2, <3>1, <3>2, <3>3
  <2>. QED  BY <2>1, <2>2
<1> HIDE DEF Least
<1>2. \A o \in DOMAIN H : w[o] = IF H[o].par = NoObj THEN {} ELSE {H[o].par} \cup w[H[o].par]
  BY <1>1, LinksOf
<1>3. w = [o \in DOMAIN H |-> w[o]]
  OBVIOUS
<1> HIDE DEF w
<1>4. AncRec(H, w)
  BY <1>2, <1>3 DEF AncRec
<1>. QED  BY <1>4

LEMMA AncestorsAt ==
  ASSUME HeapOK(heap)
  PROVE  \A o \in DOMAIN heap :
           Ancestors[o] = IF heap[o].par = NoObj THEN {}
                          ELSE {heap[o].par} \cup Ancestors[heap[o].par]
<1>1. AncRec(heap, Ancestors)
  BY AncExists DEF Ancestors, AncRec
<1>. QED  BY <1>1 DEF AncRec

\* The ancestors of an object have the paths above its own.
AncestryOf(o) ==
  /\ Ancestors[o] \subseteq DOMAIN heap
  /\ \A y \in Ancestors[o] : PathOf(y) \in Above[PathOf(o)] \ {PathOf(o)}
  /\ \A q \in Above[PathOf(o)] \ {PathOf(o)} : \E y \in Ancestors[o] : PathOf(y) = q

LEMMA AncestryFacts ==
  ASSUME HeapOK(heap)
  PROVE  \A o \in DOMAIN heap : AncestryOf(o)
<1> DEFINE Bad == {o \in DOMAIN heap : ~AncestryOf(o)}
<1>1. ASSUME NEW o \in DOMAIN heap, PathOf(o) = Root \/ heap[o].par \notin Bad
      PROVE  o \notin Bad
  <2>1. CASE PathOf(o) = Root
    <3>1. Ancestors[o] = {}
      BY <2>1, LinksOf, AncestorsAt
    <3>. QED  BY <2>1, <3>1, RootAbove DEF AncestryOf
  <2>2. CASE PathOf(o) # Root
    <3>1. PICK u \in DOMAIN heap : u = heap[o].par /\ Ancestors[o] = {u} \cup Ancestors[u]
                                   /\ PathOf(u) = Parent[PathOf(o)]
      BY <2>2, LinksOf, AncestorsAt
    <3>2. AncestryOf(u)
      BY <1>1, <2>2, <3>1
    <3>3. PICK p, q : p = PathOf(o) /\ q = PathOf(u) /\ p \in Path /\ q \in Path
                      /\ p # Root /\ q = Parent[p]
      BY <2>2, <3>1, LinksOf
    <3>4. Above[p] = {p} \cup Above[q] /\ p \notin Above[q] /\ q \in Above[q]
      BY <3>3, ParentAbove, WayFacts DEF WayUp
    <3>5. Ancestors[o] \subseteq DOMAIN heap /\ \A y \in Ancestors[o] : PathOf(y) \in Above[p] \ {p}
      BY <3>1, <3>2, <3>3, <3>4 DEF AncestryOf
    <3>6. ASSUME NEW r \in Above[p] \ {p} PROVE \E y \in Ancestors[o] : PathOf(y) = r
      BY <3>1, <3>2, <3>3, <3>4 DEF AncestryOf
    <3>. QED  BY <3>3, <3>5, <3>6 DEF AncestryOf
  <2>. QED  BY <2>1, <2>2
<1>2. Bad = {}
  <2> HIDE DEF Bad
  <2>1. \A o \in DOMAIN heap : PathOf(o) = Root \/ heap[o].par \notin Bad => o \notin Bad
    BY <1>1
  <2>2. Bad \in SUBSET DOMAIN heap
    BY DEF Bad
  <2>. QED  BY <2>1, <2>2, HeapDown
<1>. QED  BY <1>2

\* What hangs below an object.
HangsFrom(H, o, S) == H[o].par # NoObj /\ o \in H[H[o].par].kids /\ H[o].par \in S

UnderRec(H, top, u) ==
  u = [o \in DOMAIN H |->
        \/ o = top
        \/ H[o].par # NoObj /\ o \in H[H[o].par].kids /\ u[H[o].par]]

Under(H, top) == CHOOSE u : UnderRec(H, top, u)

HangsIn(H, top) == {o \in DOMAIN H : Under(H, top)[o]}

LEMMA HangsIs == \A top : Hangs(top) = HangsIn(heap, top)
BY Zenon DEF Hangs, HangsIn, Under, UnderRec

LEMMA UnderExists ==
  ASSUME NEW H, HeapOK(H), NEW top
  PROVE  \E u : UnderRec(H, top, u)
<1> DEFINE Closed(S) == \A x \in DOMAIN H : x = top \/ HangsFrom(H, x, S) => x \in S
           L == {o \in DOMAIN H : \A S \in SUBSET DOMAIN H : Closed(S) => o \in S}
           u == [o \in DOMAIN H |-> o \in L]
<1>1. Closed(L)
  <2> SUFFICES ASSUME NEW x \in DOMAIN H, x = top \/ HangsFrom(H, x, L),
                      NEW S \in SUBSET DOMAIN H, Closed(S)
               PROVE  x \in S
    OBVIOUS
  <2>1. HangsFrom(H, x, L) => HangsFrom(H, x, S)
    BY DEF HangsFrom
  <2>. QED  BY <2>1
<1>2. ASSUME NEW o \in L PROVE o = top \/ HangsFrom(H, o, L)
  <2> DEFINE S == {x \in L : x = top \/ HangsFrom(H, x, L)}
  <2>1. Closed(S)
    <3> SUFFICES ASSUME NEW x \in DOMAIN H, x = top \/ HangsFrom(H, x, S) PROVE x \in S
      OBVIOUS
    <3>1. HangsFrom(H, x, S) => HangsFrom(H, x, L)
      BY DEF HangsFrom
    <3>. QED  BY <1>1, <3>1
  <2>2. S \in SUBSET DOMAIN H
    OBVIOUS
  <2>3. o \in S
    <3> HIDE DEF S
    <3>. QED  BY <2>1, <2>2
  <2>. QED  BY <2>3
<1>3. \A o \in DOMAIN H : o \in L <=> (o = top \/ HangsFrom(H, o, L))
  BY <1>1, <1>2
<1>4. \A o \in DOMAIN H : H[o].par # NoObj => H[o].par \in DOMAIN H
  BY LinksOf
<1> HIDE DEF L
<1>5. \A o \in DOMAIN H : u[o] <=> o \in L
  BY Zenon
<1>6. \A o \in DOMAIN H :
        (o \in L) = (\/ o = top
                     \/ H[o].par # NoObj /\ o \in H[H[o].par].kids /\ u[H[o].par])
  <2> TAKE o \in DOMAIN H
  <2> HIDE DEF u
  <2>1. H[o].par # NoObj => (u[H[o].par] <=> H[o].par \in L)
    BY <1>4, <1>5
  <2>2. o \in L <=> (o = top \/ (H[o].par # NoObj /\ o \in H[H[o].par].kids /\ u[H[o].par]))
    BY <1>3, <2>1, Zenon DEF HangsFrom
  <2> DEFINE G == o = top \/ (H[o].par # NoObj /\ o \in H[H[o].par].kids /\ u[H[o].par])
  <2>3. o \in L <=> G
    BY <2>2
  <2>4. G \in BOOLEAN /\ (o \in L) \in BOOLEAN
    OBVIOUS
  <2>5. (o \in L) = G
    <3> HIDE DEF G
    <3>. QED  BY <2>3, <2>4
  <2>. QED  BY <2>5
<1> DEFINE F(o) == \/ o = top
                   \/ H[o].par # NoObj /\ o \in H[H[o].par].kids /\ u[H[o].par]
<1>7. [o \in DOMAIN H |-> o \in L] = [o \in DOMAIN H |-> F(o)]
  <2>1. \A o \in DOMAIN H : (o \in L) = F(o)
    BY <1>6
  <2> HIDE DEF F
  <2>. QED  BY <2>1, Zenon
<1>8. UnderRec(H, top, u)
  <2>1. u = [o \in DOMAIN H |-> F(o)]
    BY <1>7, Zenon DEF u
  <2>. QED  BY <2>1, Zenon DEF UnderRec, F
<1>. QED  BY <1>8, Zenon

LEMMA HangsAt ==
  ASSUME NEW H, HeapOK(H), NEW top
  PROVE  /\ HangsIn(H, top) \subseteq DOMAIN H
         /\ \A o \in DOMAIN H :
              o \in HangsIn(H, top) <=> (o = top \/ HangsFrom(H, o, HangsIn(H, top)))
<1>1. UnderRec(H, top, Under(H, top))
  BY UnderExists, Zenon DEF Under
<1>2. PICK u : u = Under(H, top) /\ UnderRec(H, top, u)
  BY <1>1
<1>3. \A o \in DOMAIN H : H[o].par # NoObj => H[o].par \in DOMAIN H
  BY LinksOf
<1>4. \A o \in DOMAIN H : u[o] <=> (o = top \/ (H[o].par # NoObj /\ o \in H[H[o].par].kids /\ u[H[o].par]))
  BY <1>2, Zenon DEF UnderRec
<1>5. \A o \in DOMAIN H : o \in HangsIn(H, top) <=> u[o]
  BY <1>2, Zenon DEF HangsIn
<1>6. \A o \in DOMAIN H : o \in HangsIn(H, top) <=> (o = top \/ HangsFrom(H, o, HangsIn(H, top)))
  BY <1>3, <1>4, <1>5, Zenon DEF HangsFrom
<1>. QED  BY <1>6 DEF HangsIn

-----------------------------------------------------------------------------
(* What is in the tree.                                                    *)

LEMMA LiveFacts ==
  ASSUME NEW H, HeapOK(H), NEW top \in DOMAIN H, PathOf(top) = Root,
         NEW S, S = HangsIn(H, top)
  PROVE  /\ S \subseteq DOMAIN H /\ top \in S
         /\ \A o \in S : o = top \/ (/\ PathOf(o) # Root /\ H[o].par \in S
                                     /\ o \in H[H[o].par].kids)
         /\ \A o \in S : \A k \in H[o].kids : k \in S /\ k # top
         /\ \A x, y \in S : PathOf(x) = PathOf(y) => x = y
<1>1. /\ S \subseteq DOMAIN H
      /\ \A o \in DOMAIN H : o \in S <=> (o = top \/ HangsFrom(H, o, S))
  BY HangsAt
<1>2. top \in S
  BY <1>1
<1>3. ASSUME NEW o \in S, o # top
      PROVE  PathOf(o) # Root /\ H[o].par \in S /\ o \in H[H[o].par].kids
  BY <1>1, <1>3, LinksOf DEF HangsFrom
<1>4. ASSUME NEW o \in S, NEW k \in H[o].kids PROVE k \in S /\ k # top
  <2>1. KidsLinked(H, o) /\ o \in Ob
    BY <1>1 DEF HeapOK
  <2>2. k \in DOMAIN H /\ H[k].par = o /\ PathOf(k) # Root
    BY <2>1 DEF KidsLinked
  <2>3. HangsFrom(H, k, S)
    BY <2>1, <2>2, ObFacts DEF HangsFrom
  <2>. QED  BY <1>1, <2>2, <2>3
<1>5. \A x, y \in S : PathOf(x) = PathOf(y) => x = y
  <2> DEFINE Bad == {x \in S : \E y \in S : PathOf(x) = PathOf(y) /\ x # y}
  <2>1. ASSUME NEW x \in DOMAIN H, PathOf(x) = Root \/ H[x].par \notin Bad PROVE x \notin Bad
    <3> SUFFICES ASSUME x \in S, NEW y \in S, PathOf(x) = PathOf(y), x # y PROVE FALSE
      OBVIOUS
    <3>1. x # top /\ y # top
      BY <1>3
    <3>2. PICK u, w : u = H[x].par /\ w = H[y].par /\ u \in S /\ w \in S /\ PathOf(x) # Root
                      /\ x \in H[u].kids /\ y \in H[w].kids
      BY <1>3, <3>1
    <3>3. PathOf(u) = PathOf(w)
      BY <1>1, <3>2, LinksOf
    <3>4. u = w
      BY <2>1, <3>2, <3>3
    <3>5. x[2] = y[2]
      BY <1>1, <3>2, <3>4 DEF HeapOK, KidsLinked
    <3>6. x = <<PathOf(x), x[2]>> /\ y = <<PathOf(y), y[2]>>
      BY <1>1, ObFacts DEF HeapOK
    <3>. QED  BY <3>5, <3>6
  <2>2. Bad = {}
    <3> HIDE DEF Bad
    <3>1. \A x \in DOMAIN H : PathOf(x) = Root \/ H[x].par \notin Bad => x \notin Bad
      BY <2>1
    <3>2. Bad \in SUBSET DOMAIN H
      BY <1>1 DEF Bad
    <3>. QED  BY <3>1, <3>2, HeapDown
  <2>. QED  BY <2>2
<1>. QED  BY <1>1, <1>2, <1>3, <1>4, <1>5

-----------------------------------------------------------------------------
(* The types.                                                              *)

Disks == {D \in SUBSET Path : UpClosed(D) /\ Root \in D}

Shaped(r) == r = [kind |-> r.kind, pc |-> r.pc, node |-> r.node, g |-> r.g,
                  old |-> r.old, ans |-> r.ans]

\* A handler that waits, r, while the objects are H and c operations have begun.
WaitOK(r, H, c) ==
  /\ Shaped(r) /\ r.kind \in {"trash", "lazy", "scan", "rescan"}
  /\ r.pc \in {"act", "trashed", "asked", "answered"}
  /\ r.node \in DOMAIN H /\ r.g \in 1 .. c /\ Fresh(H, r.g) /\ r.old \in Int
  /\ r.pc \in {"act", "trashed"} => r.kind = "trash" /\ PathOf(r.node) # Root
  /\ r.kind \in {"scan", "rescan"} => PathOf(r.node) = Root
  /\ r.pc = "answered" => /\ GoodAnswer(r.ans, PathOf(r.node))
                          /\ r.kind \in {"trash", "lazy"} => r.ans.hides = {}

Numbered(H, c) == \A o \in DOMAIN H : o[2] <= c

HeapInv ==
  /\ HeapOK(heap) /\ Numbered(heap, ops)
  /\ tree \in DOMAIN heap /\ PathOf(tree) = Root /\ view \in DOMAIN heap

ReqInv ==
  /\ req = [h \in Handler |-> req[h]]
  /\ \A h \in Handler : req[h] # Idle => WaitOK(req[h], heap, ops)
  /\ \A h, k \in Handler : req[h] # Idle /\ req[k] # Idle /\ req[h].g = req[k].g => h = k

DiskInv ==
  /\ disk \in Disks
  /\ cached = [k \in {"scan"} \cup Path |-> cached[k]]
  /\ \A k \in {"scan"} \cup Path : cached[k] \subseteq Disks

TypeInv == HeapInv /\ ReqInv /\ DiskInv /\ ops \in 0 .. MaxOps

LEMMA IdleIs == \A r : Shaped(r) /\ r.pc # "idle" => r # Idle
BY DEF Idle

LEMMA WaitIs ==
  ASSUME NEW r, NEW H, NEW c, WaitOK(r, H, c)
  PROVE  r # Idle
BY DEF WaitOK, Idle

LEMMA InitHeap ==
  ASSUME Init
  PROVE  /\ GoodAnswer(Answer(Path, Root, NoLimit, Hidden), Root)
         /\ heap = Loaded(Answer(Path, Root, NoLimit, Hidden), 0)
<1>1. UpClosed(Path) /\ Root \in Path
  BY GuiTreeAssumption DEF UpClosed
<1>2. NoLimit \in Nat \ {0}
  BY FS_CardinalityType, GuiTreeAssumption DEF NoLimit
<1>3. Hidden \in SUBSET (Path \ {Root}) /\ Hidden \cap Above[Root] = {}
  BY RootAbove, GuiTreeAssumption
<1>4. GoodAnswer(Answer(Path, Root, NoLimit, Hidden), Root)
  BY <1>1, <1>2, <1>3, AnswerIsGood
<1>. QED  BY <1>4 DEF Init

LEMMA TypeInit == Init => TypeInv
<1> SUFFICES ASSUME Init PROVE TypeInv
  OBVIOUS
<1>1. PICK a : a = Answer(Path, Root, NoLimit, Hidden) /\ GoodAnswer(a, Root) /\ heap = Loaded(a, 0)
  BY InitHeap
<1>2. 0 \in 0 .. MaxOps
  BY GuiTreeAssumption
<1>3. HeapOK(heap) /\ DOMAIN heap = {<<Root, 0>>} \cup MadeObs(a, Root, 0)
  BY <1>1, <1>2, LoadedIs
<1>4. Numbered(heap, 0)
  BY <1>3, PairFacts DEF Numbered, MadeObs
<1>5. HeapInv
  BY <1>3, <1>4, PairFacts DEF Init, HeapInv
<1>6. ReqInv
  <2>1. \A h \in Handler : req[h] = Idle
    BY DEF Init
  <2>. QED  BY <2>1 DEF Init, ReqInv
<1>7. DiskInv
  <2>1. Path \in Disks
    BY GuiTreeAssumption DEF Disks, UpClosed
  <2>. QED  BY <2>1 DEF Init, DiskInv
<1>. QED  BY <1>2, <1>5, <1>6, <1>7 DEF Init, TypeInv

LEMMA TypeOKHolds == TypeInv => TypeOK
<1> SUFFICES ASSUME TypeInv PROVE TypeOK
  OBVIOUS
<1>1. disk \subseteq Path /\ DOMAIN heap \subseteq Path \X (0 .. MaxOps) /\ ops \in 0 .. MaxOps
      /\ {tree, view} \subseteq DOMAIN heap
  BY DEF TypeInv, DiskInv, Disks, HeapInv, HeapOK, Ob
<1>2. ASSUME NEW o \in DOMAIN heap
      PROVE  /\ heap[o].v \in Int /\ heap[o].more \in Nat
             /\ heap[o].par \in DOMAIN heap \cup {NoObj}
             /\ heap[o].kids \subseteq DOMAIN heap
  <2>1. HeapOK(heap)
    BY DEF TypeInv, HeapInv
  <2>2. heap[o] \in ObjType /\ KidsLinked(heap, o)
    BY <2>1 DEF HeapOK
  <2>3. heap[o].par \in DOMAIN heap \cup {NoObj}
    BY <2>1, LinksOf
  <2>. QED  BY <2>2, <2>3 DEF ObjType, KidsLinked
<1>3. ASSUME NEW h \in Handler, req[h] # Idle
      PROVE  [kind |-> req[h].kind, pc |-> req[h].pc, node |-> req[h].node, g |-> req[h].g] \in ReqType
  <2>1. WaitOK(req[h], heap, ops)
    BY <1>3 DEF TypeInv, ReqInv
  <2>2. req[h].g \in 1 .. MaxOps
    BY <1>1, <2>1, GuiTreeAssumption DEF WaitOK
  <2>. QED  BY <2>1, <2>2 DEF WaitOK, ReqType
<1>. QED  BY <1>1, <1>2, <1>3 DEF TypeOK

LEMMA WellFormedHolds == TypeInv => WellFormed
<1> SUFFICES ASSUME TypeInv, NEW o \in LiveObjs
             PROVE  /\ \A k \in heap[o].kids : heap[k].par = o /\ Parent[PathOf(k)] = PathOf(o)
                    /\ \A k, l \in heap[o].kids : PathOf(k) = PathOf(l) => k = l
  BY DEF WellFormed
<1>1. HeapOK(heap) /\ o \in DOMAIN heap
  BY HangsIs, HangsAt DEF TypeInv, HeapInv, LiveObjs
<1>2. KidsLinked(heap, o)
  BY <1>1 DEF HeapOK
<1>3. ASSUME NEW k \in heap[o].kids, NEW l \in heap[o].kids, PathOf(k) = PathOf(l) PROVE k = l
  <2>1. k[2] = l[2] /\ k \in DOMAIN heap /\ l \in DOMAIN heap
    BY <1>2 DEF KidsLinked
  <2>2. k = <<PathOf(k), k[2]>> /\ l = <<PathOf(l), l[2]>>
    BY <1>1, <2>1, ObFacts DEF HeapOK
  <2>. QED  BY <1>3, <2>1, <2>2
<1>. QED  BY <1>2, <1>3 DEF KidsLinked

-----------------------------------------------------------------------------
(* The steps keep the types.                                               *)

LEMMA WaitKept ==
  ASSUME NEW r, NEW H, NEW c \in Nat, WaitOK(r, H, c), NEW J, NEW d \in Nat,
         DOMAIN H \subseteq DOMAIN J, Fresh(J, r.g), c <= d
  PROVE  WaitOK(r, J, d)
BY DEF WaitOK

LEMMA WaitSame ==
  ASSUME NEW r, NEW H, NEW c \in Nat, WaitOK(r, H, c), NEW J, DOMAIN J = DOMAIN H,
         NEW d \in Nat, c <= d
  PROVE  WaitOK(r, J, d)
BY DEF WaitOK, Fresh

LEMMA ReqUpdate ==
  ASSUME ReqInv, NEW h \in Handler, NEW r, req' = [req EXCEPT ![h] = r],
         r = Idle \/ (/\ WaitOK(r, heap', ops')
                      /\ \A k \in Handler \ {h} : req[k] # Idle => req[k].g # r.g),
         \A k \in Handler \ {h} : req[k] # Idle => WaitOK(req[k], heap', ops')
  PROVE  ReqInv'
<1>1. /\ \A k \in Handler \ {h} : req'[k] = req[k]
      /\ req'[h] = r /\ req' = [k \in Handler |-> req'[k]]
  BY DEF ReqInv
<1>2. \A k \in Handler : req'[k] # Idle => WaitOK(req'[k], heap', ops')
  BY <1>1
<1>3. ASSUME NEW j \in Handler, NEW k \in Handler, req'[j] # Idle, req'[k] # Idle,
             req'[j].g = req'[k].g
      PROVE  j = k
  BY <1>1, <1>3 DEF ReqInv
<1>. QED  BY <1>1, <1>2, <1>3 DEF ReqInv

LEMMA StartTypes ==
  ASSUME TypeInv, NEW h \in Handler, NEW kind \in {"trash", "lazy", "scan", "rescan"},
         NEW o \in DOMAIN heap, Start(h, kind, o),
         kind = "trash" => PathOf(o) # Root,
         kind \in {"scan", "rescan"} => PathOf(o) = Root,
         heap' = heap
  PROVE  ReqInv' /\ ops' \in 0 .. MaxOps /\ Numbered(heap', ops')
<1> DEFINE r == [kind |-> kind, pc |-> IF kind = "trash" THEN "act" ELSE "asked", node |-> o,
                 g |-> ops + 1, old |-> 0, ans |-> <<>>]
<1>1. ops \in Nat /\ ops' = ops + 1 /\ ops' \in 0 .. MaxOps /\ req' = [req EXCEPT ![h] = r]
  BY GuiTreeAssumption DEF Start, TypeInv
<1>2. Numbered(heap, ops)
  BY DEF TypeInv, HeapInv
<1>3. \A x \in DOMAIN heap : x[2] \in Nat
  BY ObFacts DEF TypeInv, HeapInv, HeapOK
<1>4. Numbered(heap', ops') /\ Fresh(heap', ops + 1)
  BY <1>1, <1>2, <1>3 DEF Numbered, Fresh
<1>5. Shaped(r) /\ r.kind = kind /\ r.node = o /\ r.g = ops + 1 /\ r.old = 0
      /\ r.pc = IF kind = "trash" THEN "act" ELSE "asked"
  BY DEF Shaped
<1> HIDE DEF r
<1>6. WaitOK(r, heap', ops')
  BY <1>1, <1>4, <1>5 DEF WaitOK
<1>7. \A k \in Handler \ {h} : req[k] # Idle => WaitOK(req[k], heap, ops)
  BY DEF TypeInv, ReqInv
<1>8. \A k \in Handler \ {h} : req[k] # Idle => req[k].g # r.g
  BY <1>1, <1>5, <1>7 DEF WaitOK
<1>9. \A k \in Handler \ {h} : req[k] # Idle => WaitOK(req[k], heap', ops')
  BY <1>1, <1>7, WaitSame
<1>10. ReqInv'
  BY <1>1, <1>6, <1>8, <1>9, ReqUpdate DEF TypeInv
<1>. QED  BY <1>1, <1>4, <1>10

LEMMA TrashTypes ==
  ASSUME TypeInv, NEW h \in Handler, Trash(h)
  PROVE  TypeInv'
<1>1. PICK o \in Shown : /\ heap[o].par # NoObj /\ Start(h, "trash", o)
                         /\ UNCHANGED <<disk, cached, heap, tree, view, excuses>>
  BY DEF Trash
<1>2. HeapOK(heap)
  BY DEF TypeInv, HeapInv
<1>3. o \in DOMAIN heap
  BY <1>2, HangsIs, HangsAt DEF Shown
<1>4. PathOf(o) # Root
  BY <1>1, <1>2, <1>3, LinksOf
<1>5. ReqInv' /\ ops' \in 0 .. MaxOps /\ Numbered(heap', ops')
  BY <1>1, <1>3, <1>4, StartTypes
<1>. QED  BY <1>1, <1>5 DEF TypeInv, HeapInv, DiskInv

LEMMA OpenTypes ==
  ASSUME TypeInv, NEW h \in Handler, Open(h)
  PROVE  TypeInv'
<1>1. PICK o \in Shown : /\ view' \in {view, o}
                         /\ IF Incomplete(o) THEN Start(h, "lazy", o) ELSE UNCHANGED <<req, ops>>
                         /\ UNCHANGED <<disk, cached, heap, tree, excuses>>
  BY DEF Open
<1>2. HeapOK(heap)
  BY DEF TypeInv, HeapInv
<1>3. o \in DOMAIN heap
  BY <1>2, HangsIs, HangsAt DEF Shown
<1>4. ReqInv' /\ ops' \in 0 .. MaxOps /\ Numbered(heap', ops')
  <2>1. CASE Incomplete(o)
    BY <1>1, <1>3, <2>1, StartTypes
  <2>2. CASE ~Incomplete(o)
    BY <1>1, <2>2 DEF TypeInv, ReqInv, HeapInv
  <2>. QED  BY <2>1, <2>2
<1>. QED  BY <1>1, <1>3, <1>4 DEF TypeInv, HeapInv, DiskInv

LEMMA ScanTypes ==
  ASSUME TypeInv, NEW h \in Handler, Scan(h)
  PROVE  TypeInv'
<1>1. /\ Start(h, "scan", tree) \/ Start(h, "rescan", tree)
      /\ UNCHANGED <<disk, cached, heap, tree, view, excuses>>
  BY DEF Scan
<1>2. tree \in DOMAIN heap /\ PathOf(tree) = Root
  BY DEF TypeInv, HeapInv
<1>3. ReqInv' /\ ops' \in 0 .. MaxOps /\ Numbered(heap', ops')
  BY <1>1, <1>2, StartTypes
<1>. QED  BY <1>1, <1>3 DEF TypeInv, HeapInv, DiskInv

LEMMA UpTypes ==
  ASSUME TypeInv, Up
  PROVE  TypeInv'
<1>1. view' \in DOMAIN heap
  BY AncestryFacts DEF Up, TypeInv, HeapInv, AncestryOf
<1>. QED  BY <1>1 DEF Up, TypeInv, HeapInv, ReqInv, DiskInv

\* A handler goes on without changing the objects.
LEMMA ReqStep ==
  ASSUME TypeInv, NEW h \in Handler, req[h] # Idle,
         NEW r, req' = [req EXCEPT ![h] = r],
         r = Idle \/ (WaitOK(r, heap, ops) /\ r.g = req[h].g),
         DOMAIN heap' = DOMAIN heap, ops' = ops
  PROVE  ReqInv'
<1>1. ops \in Nat /\ ReqInv
  BY DEF TypeInv
<1>2. \A k \in Handler : req[k] # Idle => WaitOK(req[k], heap', ops')
  <2>1. ASSUME NEW k \in Handler, req[k] # Idle PROVE WaitOK(req[k], heap', ops')
    <3>1. WaitOK(req[k], heap, ops)
      BY <1>1, <2>1 DEF ReqInv
    <3>. QED  BY <1>1, <3>1, WaitSame
  <2>. QED  BY <2>1
<1>3. r # Idle => WaitOK(r, heap', ops')
  BY <1>1, WaitSame
<1>4. r # Idle => \A k \in Handler \ {h} : req[k] # Idle => req[k].g # r.g
  BY <1>1 DEF ReqInv
<1>. QED  BY <1>1, <1>2, <1>3, <1>4, ReqUpdate

LEMMA CutIsDisk ==
  ASSUME NEW D \in Disks, NEW p \in Path, p # Root
  PROVE  D \ Below(p) \in Disks
<1>1. Root \notin Below(p)
  BY BelowIs, RootAbove
<1>2. ASSUME NEW q \in D \ Below(p), q # Root PROVE Parent[q] \in D \ Below(p)
  <2>1. q \in Path /\ Parent[q] \in D
    BY <1>2 DEF Disks, UpClosed
  <2>2. p \notin Above[q]
    BY <2>1, BelowIs
  <2>3. p \notin Above[Parent[q]]
    BY <1>2, <2>1, <2>2, ParentAbove
  <2>. QED  BY <2>1, <2>3, BelowIs
<1>. QED  BY <1>1, <1>2 DEF Disks, UpClosed

LEMMA ServerTrashTypes ==
  ASSUME TypeInv, NEW h \in Handler, ServerTrash(h)
  PROVE  TypeInv'
<1>1. UNCHANGED <<cached, heap, tree, view, ops, excuses>> /\ req[h].pc = "act"
  BY DEF ServerTrash
<1>2. req[h] # Idle
  BY <1>1 DEF Idle
<1>3. WaitOK(req[h], heap, ops)
  BY <1>2 DEF TypeInv, ReqInv
<1>4. PathOf(req[h].node) \in Path /\ PathOf(req[h].node) # Root
  BY <1>1, <1>3, LinksOf DEF TypeInv, HeapInv, WaitOK
<1>5. disk' \in Disks
  BY <1>4, CutIsDisk DEF ServerTrash, TypeInv, DiskInv
<1>6. ReqInv'
  <2>1. CASE req' = [req EXCEPT ![h].pc = "trashed"]
    <3>1. PICK r : r = [req[h] EXCEPT !.pc = "trashed"]
      OBVIOUS
    <3>2. WaitOK(r, heap, ops) /\ r.g = req[h].g
      BY <1>1, <1>3, <3>1 DEF WaitOK, Shaped
    <3>. QED  BY <1>1, <1>2, <2>1, <3>1, <3>2, ReqStep
  <2>2. CASE req' = [req EXCEPT ![h] = Idle]
    BY <1>1, <1>2, <2>2, ReqStep
  <2>. QED  BY <2>1, <2>2 DEF ServerTrash
<1>. QED  BY <1>1, <1>5, <1>6 DEF TypeInv, HeapInv, DiskInv

Answered(w, a) == [w EXCEPT !.pc = "answered", !.ans = a]

LEMMA AnsweredIs ==
  \A w, a : Shaped(w) =>
    LET r == Answered(w, a)
    IN  /\ r.pc = "answered" /\ r.ans = a /\ r.kind = w.kind /\ r.node = w.node
        /\ r.g = w.g /\ r.old = w.old /\ Shaped(r)
<1>1. ASSUME NEW w, Shaped(w), NEW a, NEW r, r = [w EXCEPT !.pc = "answered", !.ans = a]
      PROVE  /\ r.pc = "answered" /\ r.ans = a /\ r.kind = w.kind /\ r.node = w.node
             /\ r.g = w.g /\ r.old = w.old /\ Shaped(r)
  BY <1>1 DEF Shaped
<1>. QED  BY <1>1, Zenon DEF Answered

LEMMA ServerAnswerTypes ==
  ASSUME TypeInv, NEW h \in Handler, ServerAnswer(h)
  PROVE  TypeInv'
<1> DEFINE kind == req[h].kind
           p == PathOf(req[h].node)
           served == IF Forced(kind) THEN {} ELSE Served(Key(h), p)
           D == IF served = {} THEN disk ELSE CHOOSE E \in served : TRUE
           a == Answer(D, p, Depth(kind), Hides(kind))
           r == Answered(req[h], a)
<1>1. /\ UNCHANGED <<disk, heap, tree, view, ops, excuses>> /\ req[h].pc = "asked"
      /\ req' = [req EXCEPT ![h] = r]
      /\ cached' = IF kind = "trash" THEN cached ELSE [cached EXCEPT ![Key(h)] = {D}]
  BY DEF ServerAnswer, Answered
<1>2. req[h] # Idle
  BY <1>1 DEF Idle
<1>3. WaitOK(req[h], heap, ops) /\ DiskInv
  BY <1>2 DEF TypeInv, ReqInv
<1>4. p \in Path /\ kind \in {"trash", "lazy", "scan", "rescan"}
      /\ (kind \in {"scan", "rescan"} => p = Root)
  BY <1>3, LinksOf DEF TypeInv, HeapInv, WaitOK
<1>5. Key(h) \in {"scan"} \cup Path
  BY <1>4 DEF Key
<1>6. D \in Disks
  <2>1. served \subseteq Disks
    BY <1>3, <1>5 DEF Served, DiskInv
  <2>2. served # {} => (CHOOSE E \in served : TRUE) \in served
    <3> HIDE DEF served
    <3>. QED  OBVIOUS
  <2> HIDE DEF served
  <2>. QED  BY <1>3, <2>1, <2>2 DEF DiskInv
<1>7. Depth(kind) \in Nat \ {0}
  <2>1. NoLimit \in Nat \ {0}
    BY FS_CardinalityType, GuiTreeAssumption DEF NoLimit
  <2>. QED  BY <1>4, <2>1, GuiTreeAssumption DEF Depth
<1>8. Hides(kind) \in SUBSET (Path \ {Root}) /\ Hides(kind) \cap Above[p] = {}
      /\ (kind \in {"trash", "lazy"} => Hides(kind) = {})
  BY <1>4, RootAbove, GuiTreeAssumption DEF Hides
<1>9. GoodAnswer(a, p) /\ a.hides = Hides(kind)
  <2>1. D \in SUBSET Path /\ UpClosed(D) /\ Root \in D
    BY <1>6 DEF Disks
  <2> HIDE DEF D, kind, p
  <2>2. GoodAnswer(a, p)
    BY <1>4, <1>7, <1>8, <2>1, AnswerIsGood
  <2>. QED  BY <2>2 DEF Answer
<1>10. ReqInv'
  <2> HIDE DEF a
  <2>1. r.pc = "answered" /\ r.ans = a /\ r.kind = req[h].kind /\ r.node = req[h].node
        /\ r.g = req[h].g /\ r.old = req[h].old /\ Shaped(r)
    BY <1>3, AnsweredIs DEF WaitOK
  <2> HIDE DEF r
  <2>2. WaitOK(r, heap, ops)
    BY <1>3, <1>8, <1>9, <2>1 DEF WaitOK
  <2>. QED  BY <1>1, <1>2, <2>1, <2>2, ReqStep
<1>11. DiskInv'
  <2> HIDE DEF D, kind, p, a, r
  <2>. QED  BY <1>1, <1>3, <1>5, <1>6 DEF DiskInv
<1>. QED  BY <1>1, <1>10, <1>11 DEF TypeInv, HeapInv

LEMMA StartRefreshTypes ==
  ASSUME TypeInv, NEW h \in Handler, StartRefresh(h)
  PROVE  TypeInv'
<1>1. UNCHANGED <<disk, cached, heap, tree, view, ops, excuses>> /\ req[h].pc = "trashed"
  BY DEF StartRefresh
<1>2. req[h] # Idle
  BY <1>1 DEF Idle
<1>3. WaitOK(req[h], heap, ops) /\ HeapOK(heap)
  BY <1>2 DEF TypeInv, ReqInv, HeapInv
<1>4. PICK o : o = Refreshed(h)
  OBVIOUS
<1>5. o \in DOMAIN heap
  BY <1>1, <1>3, <1>4, LinksOf DEF WaitOK, Refreshed
<1>6. heap[o].v \in Int
  BY <1>3, <1>5 DEF HeapOK, ObjType
<1>7. PICK r : r = [req[h] EXCEPT !.pc = "asked", !.node = o, !.old = heap[o].v]
  OBVIOUS
<1>8. req' = [req EXCEPT ![h] = r]
  BY <1>4, <1>7 DEF StartRefresh
<1>9. WaitOK(r, heap, ops) /\ r.g = req[h].g
  <2>1. r.pc = "asked" /\ r.node = o /\ r.old = heap[o].v /\ r.kind = req[h].kind
        /\ r.g = req[h].g /\ Shaped(r)
    BY <1>3, <1>7 DEF WaitOK, Shaped
  <2>. QED  BY <1>1, <1>3, <1>5, <1>6, <2>1 DEF WaitOK
<1>10. ReqInv'
  BY <1>1, <1>2, <1>8, <1>9, ReqStep
<1>. QED  BY <1>1, <1>10 DEF TypeInv, HeapInv, DiskInv

LEMMA LoseTypes ==
  ASSUME TypeInv, NEW h \in Handler, Lose(h)
  PROVE  TypeInv'
<1>1. req[h] # Idle /\ req' = [req EXCEPT ![h] = Idle]
      /\ UNCHANGED <<disk, cached, heap, tree, view, ops>>
  BY DEF Lose, Finish
<1>2. ReqInv'
  BY <1>1, ReqStep
<1>. QED  BY <1>1, <1>2 DEF TypeInv, HeapInv, DiskInv

-----------------------------------------------------------------------------
(* The steps that replace objects.                                         *)

\* Totals do not matter to how objects hang together.
Revalued(H, J) ==
  /\ J = [x \in DOMAIN H |-> J[x]]
  /\ \A x \in DOMAIN H : \E n \in Int, b \in BOOLEAN : J[x] = [H[x] EXCEPT !.v = n, !.loaded = b]

LEMMA ReValue ==
  ASSUME NEW H, HeapOK(H), NEW J, Revalued(H, J)
  PROVE  /\ HeapOK(J)
         /\ \A x \in DOMAIN H : J[x].par = H[x].par /\ J[x].kids = H[x].kids /\ J[x].more = H[x].more
<1>1. ASSUME NEW x \in DOMAIN H
      PROVE  /\ J[x] \in ObjType /\ J[x].par = H[x].par /\ J[x].kids = H[x].kids
             /\ J[x].more = H[x].more
  <2>1. PICK n \in Int, b \in BOOLEAN : J[x] = [H[x] EXCEPT !.v = n, !.loaded = b]
    BY DEF Revalued
  <2>2. PICK r \in ObjType : r = H[x]
    BY DEF HeapOK
  <2>3. J[x] = [r EXCEPT !.v = n, !.loaded = b]
    BY <2>1, <2>2
  <2>4. J[x] = [v |-> n, par |-> r.par, kids |-> r.kids, more |-> r.more,
                pruned |-> r.pruned, loaded |-> b]
    BY <2>3 DEF ObjType
  <2>. QED  BY <2>2, <2>4 DEF ObjType
<1>2. DOMAIN J = DOMAIN H
  BY Zenon DEF Revalued
<1>2a. \A x \in DOMAIN H : J[x].par = H[x].par /\ J[x].kids = H[x].kids
  BY <1>1
<1>3. ASSUME NEW x \in DOMAIN H PROVE KidsLinked(J, x) /\ ParLinked(J, x)
  <2>1. KidsLinked(H, x) /\ ParLinked(H, x)
    BY DEF HeapOK
  <2>2. KidsLinked(J, x)
    BY <1>2, <1>2a, <2>1 DEF KidsLinked
  <2>3. ParLinked(J, x)
    BY <1>2, <1>2a, <2>1 DEF ParLinked
  <2>. QED  BY <2>2, <2>3
<1>4. J \in [DOMAIN J -> ObjType]
  BY <1>1, <1>2, Zenon DEF Revalued
<1>. QED  BY <1>1, <1>2, <1>3, <1>4 DEF HeapOK

LEMMA Resumed ==
  ASSUME TypeInv, NEW h \in Handler, req[h].pc = "answered"
  PROVE  /\ WaitOK(req[h], heap, ops) /\ HeapOK(heap) /\ req[h] # Idle
         /\ req[h].node \in DOMAIN heap /\ PathOf(req[h].node) \in Path
         /\ req[h].g \in 0 .. MaxOps /\ req[h].g <= ops /\ Fresh(heap, req[h].g)
         /\ GoodAnswer(req[h].ans, PathOf(req[h].node))
         /\ req[h].ans.v[PathOf(req[h].node)] = TotalIn(req[h].ans.counted, PathOf(req[h].node))
         /\ req[h].ans.v[PathOf(req[h].node)] \in Nat /\ req[h].old \in Int
         /\ PathOf(req[h].node) \in Below(PathOf(req[h].node))
         /\ req[h].kind \in {"trash", "lazy"} => req[h].ans.hides = {}
<1>1. req[h] # Idle
  BY DEF Idle
<1>2. WaitOK(req[h], heap, ops) /\ HeapOK(heap) /\ ops \in 0 .. MaxOps
  BY <1>1 DEF TypeInv, ReqInv, HeapInv
<1>3. req[h].node \in DOMAIN heap /\ PathOf(req[h].node) \in Path
  BY <1>2, LinksOf DEF WaitOK
<1>4. PathOf(req[h].node) \in Below(PathOf(req[h].node))
  BY <1>3, BelowIs, WayFacts DEF WayUp
<1>5. GoodAnswer(req[h].ans, PathOf(req[h].node)) /\ req[h].old \in Int
  BY <1>2 DEF WaitOK
<1>6. /\ req[h].ans.v[PathOf(req[h].node)] = TotalIn(req[h].ans.counted, PathOf(req[h].node))
      /\ req[h].ans.v[PathOf(req[h].node)] \in Nat
  BY <1>4, <1>5, TotalNat DEF GoodAnswer
<1>7. req[h].g \in 0 .. MaxOps /\ req[h].g <= ops /\ Fresh(heap, req[h].g)
  BY <1>2, GuiTreeAssumption DEF WaitOK
<1>. QED  BY <1>1, <1>2, <1>3, <1>4, <1>5, <1>6, <1>7 DEF WaitOK

LEMMA RefreshIs ==
  ASSUME TypeInv, NEW h \in Handler, FinishRefresh(h),
         NEW o, o = req[h].node, NEW a, a = req[h].ans, NEW g, g = req[h].g,
         NEW t, t = NewTotal(h)
  PROVE  /\ Grafted(heap', a, g, o) /\ heap'[o].v = t
         /\ \A x \in DOMAIN heap \ {o} :
              heap'[x].v = IF x \in Ancestors[o] THEN heap[x].v + t - req[h].old ELSE heap[x].v
<1> DEFINE G == Graft(a, g, o, t)
<1>1. req[h].pc = "answered"
  BY DEF FinishRefresh, Resume
<1>2. /\ HeapOK(heap) /\ o \in DOMAIN heap /\ PathOf(o) \in Path /\ g \in 0 .. MaxOps
      /\ Fresh(heap, g) /\ GoodAnswer(a, PathOf(o)) /\ t \in Int /\ req[h].old \in Int
  BY <1>1, Resumed DEF NewTotal
<1>3. PICK M : M = MadeObs(a, PathOf(o), g)
  OBVIOUS
<1>3a. /\ Grafted(G, a, g, o) /\ G[o].v = t
       /\ \A x \in DOMAIN heap \ {o} : G[x] = heap[x]
  BY <1>2, GraftIs
<1>4. /\ DOMAIN G = DOMAIN heap \cup M /\ DOMAIN heap \cap M = {}
      /\ \A x \in DOMAIN heap \ {o} : G[x] = heap[x]
      /\ G[o].v = t /\ G[o].par = heap[o].par
      /\ HasMade(G, a, g, o) /\ HeapOK(G)
  BY <1>3, <1>3a DEF Grafted
<1>5. heap' = [x \in DOMAIN G |-> IF x \in Ancestors[o]
                                  THEN [G[x] EXCEPT !.v = @ + t - req[h].old] ELSE G[x]]
  BY DEF FinishRefresh, FoldedInto
<1>6. Ancestors[o] \subseteq DOMAIN heap \ {o}
  BY <1>2, AncestryFacts DEF AncestryOf
<1> HIDE DEF G
<1>7. DOMAIN heap' = DOMAIN G /\ heap' = [x \in DOMAIN G |-> heap'[x]]
  BY <1>5
<1>8. \A x \in DOMAIN G : x \notin Ancestors[o] => heap'[x] = G[x]
  BY <1>5
<1>9. \A x \in Ancestors[o] :
        heap'[x] = [G[x] EXCEPT !.v = G[x].v + t - req[h].old]
  BY <1>4, <1>5, <1>6
<1>10. \A x \in DOMAIN G : G[x] \in ObjType
  BY <1>4 DEF HeapOK
<1>11. ASSUME NEW x \in DOMAIN G
       PROVE  \E n \in Int, b \in BOOLEAN : heap'[x] = [G[x] EXCEPT !.v = n, !.loaded = b]
  <2>1. PICK r \in ObjType : r = G[x]
    BY <1>10
  <2>2. r = [r EXCEPT !.v = r.v, !.loaded = r.loaded] /\ r.v \in Int /\ r.loaded \in BOOLEAN
    BY DEF ObjType
  <2>3. [r EXCEPT !.v = r.v + t - req[h].old]
          = [r EXCEPT !.v = r.v + t - req[h].old, !.loaded = r.loaded]
    BY DEF ObjType
  <2>4. r.v + t - req[h].old \in Int
    BY <1>2, <2>2
  <2>. QED  BY <1>8, <1>9, <2>1, <2>2, <2>3, <2>4
<1>12. /\ HeapOK(heap')
       /\ \A x \in DOMAIN G : /\ heap'[x].par = G[x].par /\ heap'[x].kids = G[x].kids
                              /\ heap'[x].more = G[x].more
  <2>1. Revalued(G, heap')
    BY <1>7, <1>11 DEF Revalued
  <2>. QED  BY <1>4, <2>1, ReValue
<1>13. \A x \in Ancestors[o] : heap'[x].v = heap[x].v + t - req[h].old
  <2>1. ASSUME NEW x \in Ancestors[o] PROVE heap'[x].v = heap[x].v + t - req[h].old
    <3>1. PICK r \in ObjType : r = G[x] /\ G[x] = heap[x]
      BY <1>4, <1>6, <1>10
    <3>2. [r EXCEPT !.v = r.v + t - req[h].old].v = r.v + t - req[h].old
      BY DEF ObjType
    <3>. QED  BY <1>9, <3>1, <3>2
  <2>. QED  BY <2>1
<1>14. HasMade(heap', a, g, o)
  <2>1. heap'[o].kids = KidsIn(a, PathOf(o), g) /\ heap'[o].more = Bucket(a, PathOf(o))
    BY <1>2, <1>4, <1>12 DEF HasMade
  <2>2. ASSUME NEW q \in ShownIn(a, PathOf(o))
        PROVE  <<q, g>> \in DOMAIN heap' /\ heap'[<<q, g>>] = MadeOf(a, PathOf(o), g, o, q)
    <3>1. <<q, g>> \in M
      BY <1>3 DEF MadeObs
    <3>2. <<q, g>> \in DOMAIN G /\ G[<<q, g>>] = MadeOf(a, PathOf(o), g, o, q)
      BY <1>4 DEF HasMade
    <3>. QED  BY <1>4, <1>6, <1>7, <1>8, <3>1, <3>2
  <2>. QED  BY <1>2, <1>4, <1>7, <2>1, <2>2 DEF HasMade
<1>15. Grafted(heap', a, g, o)
  BY <1>2, <1>3, <1>4, <1>7, <1>12, <1>14 DEF Grafted
<1>16. heap'[o].v = t
  BY <1>2, <1>4, <1>6, <1>8
<1>. QED  BY <1>4, <1>6, <1>8, <1>13, <1>15, <1>16

LEMMA LazyIs ==
  ASSUME TypeInv, NEW h \in Handler, FinishLazy(h),
         NEW o, o = req[h].node, NEW a, a = req[h].ans, NEW g, g = req[h].g
  PROVE  /\ \A x \in DOMAIN heap : heap'[x].v = heap[x].v
         /\ \/ Grafted(heap', a, g, o)
            \/ /\ KidsIn(a, PathOf(o), g) = {} /\ HeapOK(heap') /\ DOMAIN heap' = DOMAIN heap
               /\ \A x \in DOMAIN heap : /\ heap'[x].par = heap[x].par /\ heap'[x].kids = heap[x].kids
                                         /\ heap'[x].more = heap[x].more
<1>1. req[h].pc = "answered"
  BY DEF FinishLazy, Resume
<1>2. /\ HeapOK(heap) /\ o \in DOMAIN heap /\ PathOf(o) \in Path /\ g \in 0 .. MaxOps
      /\ Fresh(heap, g) /\ GoodAnswer(a, PathOf(o)) /\ \A x \in DOMAIN heap : heap[x] \in ObjType
  BY <1>1, Resumed DEF HeapOK
<1>3. KidsIn(a, PathOf(o), 0) = {} <=> KidsIn(a, PathOf(o), g) = {}
  <2>1. \A n : KidsIn(a, PathOf(o), n) = {} <=>
                 {x \in a.counted \ a.hides : x # Root /\ Parent[x] = PathOf(o)} = {}
    BY DEF KidsIn
  <2>. QED  BY <2>1
<1>4. CASE KidsIn(a, PathOf(o), 0) # {}
  <2>1. heap[o].v \in Int /\ heap' = Graft(a, g, o, heap[o].v)
    BY <1>2, <1>4 DEF ObjType, FinishLazy
  <2>2. Grafted(heap', a, g, o) /\ heap'[o].v = heap[o].v
        /\ \A x \in DOMAIN heap \ {o} : heap'[x] = heap[x]
    BY <1>2, <2>1, GraftIs
  <2>. QED  BY <2>2
<1>5. CASE KidsIn(a, PathOf(o), 0) = {}
  <2>1. heap' = [heap EXCEPT ![o].loaded = TRUE]
    BY <1>5 DEF FinishLazy
  <2>2. heap = [x \in DOMAIN heap |-> heap[x]]
    BY <1>2 DEF HeapOK
  <2>3. /\ DOMAIN heap' = DOMAIN heap /\ heap' = [x \in DOMAIN heap |-> heap'[x]]
        /\ \A x \in DOMAIN heap \ {o} : heap'[x] = heap[x]
        /\ heap'[o] = [heap[o] EXCEPT !.loaded = TRUE]
    BY <1>2, <2>1, <2>2
  <2>4. ASSUME NEW x \in DOMAIN heap
        PROVE  /\ \E n \in Int, b \in BOOLEAN : heap'[x] = [heap[x] EXCEPT !.v = n, !.loaded = b]
               /\ heap'[x].v = heap[x].v
    <3>1. PICK r \in ObjType : r = heap[x]
      BY <1>2
    <3>2. r = [r EXCEPT !.v = r.v, !.loaded = r.loaded] /\ r.v \in Int /\ r.loaded \in BOOLEAN
          /\ [r EXCEPT !.loaded = TRUE] = [r EXCEPT !.v = r.v, !.loaded = TRUE]
          /\ [r EXCEPT !.loaded = TRUE].v = r.v
      BY DEF ObjType
    <3>. QED  BY <2>3, <3>1, <3>2
  <2>5. HeapOK(heap') /\ \A x \in DOMAIN heap : /\ heap'[x].par = heap[x].par
                                                /\ heap'[x].kids = heap[x].kids
                                                /\ heap'[x].more = heap[x].more
    <3>1. Revalued(heap, heap')
      BY <2>3, <2>4 DEF Revalued
    <3>. QED  BY <1>2, <3>1, ReValue
  <2>. QED  BY <1>3, <1>5, <2>3, <2>4, <2>5
<1>. QED  BY <1>4, <1>5

\* A scan leaves its own tree, and the old objects to the handlers that wait.
Kept(h) == IF \A k \in Handler \ {h} : req[k] = Idle THEN {} ELSE DOMAIN heap

LEMMA ScanIs ==
  ASSUME TypeInv, NEW h \in Handler, FinishScan(h),
         NEW a, a = req[h].ans, NEW g, g = req[h].g, NEW top, top = <<Root, g>>,
         NEW kept, kept = Kept(h)
  PROVE  /\ tree' = top /\ view' = top /\ top \notin DOMAIN heap
         /\ DOMAIN heap' = kept \cup {top} \cup MadeObs(a, Root, g)
         /\ DOMAIN heap \cap MadeObs(a, Root, g) = {}
         /\ heap'[top].v = a.v[Root] /\ heap'[top].par = NoObj /\ HasMade(heap', a, g, top)
         /\ HeapOK(heap')
         /\ GoodAnswer(a, Root) /\ req[h].node \in DOMAIN heap /\ PathOf(req[h].node) = Root
<1> DEFINE L == Loaded(a, g)
<1>1. req[h].pc = "answered" /\ req[h].kind \in {"scan", "rescan"}
  BY DEF FinishScan, Resume
<1>2. /\ WaitOK(req[h], heap, ops) /\ HeapOK(heap) /\ g \in 0 .. MaxOps
      /\ Fresh(heap, g) /\ GoodAnswer(a, PathOf(req[h].node)) /\ req[h].node \in DOMAIN heap
  BY <1>1, Resumed
<1>3. PathOf(req[h].node) = Root
  BY <1>1, <1>2 DEF WaitOK
<1>4. PICK M : M = MadeObs(a, Root, g)
  OBVIOUS
<1>5. /\ DOMAIN L = {top} \cup M /\ L[top].v = a.v[Root] /\ L[top].par = NoObj
      /\ HasMade(L, a, g, top) /\ HeapOK(L)
  BY <1>2, <1>3, <1>4, LoadedIs
<1>6. \A x \in {top} \cup M : x[2] = g
  BY <1>4, PairFacts DEF MadeObs
<1>7. DOMAIN heap \cap ({top} \cup M) = {}
  BY <1>2, <1>6 DEF Fresh
<1>8. /\ heap' = [x \in kept \cup DOMAIN L |-> IF x \in DOMAIN L THEN L[x] ELSE heap[x]]
      /\ tree' = top /\ view' = top
  BY DEF FinishScan, Kept
<1> HIDE DEF L
<1>9. /\ DOMAIN heap' = kept \cup DOMAIN L /\ heap' = [x \in DOMAIN heap' |-> heap'[x]]
      /\ \A x \in DOMAIN L : heap'[x] = L[x]
      /\ \A x \in kept : x \in DOMAIN heap /\ heap'[x] = heap[x]
  BY <1>5, <1>7, <1>8 DEF Kept
<1>10. ASSUME NEW x \in DOMAIN L
       PROVE  x \in Ob /\ heap'[x] \in ObjType /\ KidsLinked(heap', x) /\ ParLinked(heap', x)
  <2>1. x \in Ob /\ L[x] \in ObjType /\ KidsLinked(L, x) /\ ParLinked(L, x)
    BY <1>5 DEF HeapOK
  <2>2. KidsLinked(heap', x)
    BY <1>9, <2>1 DEF KidsLinked
  <2>3. ParLinked(heap', x)
    BY <1>9, <2>1 DEF ParLinked
  <2>. QED  BY <1>9, <2>1, <2>2, <2>3
<1>11. ASSUME NEW x \in kept
       PROVE  x \in Ob /\ heap'[x] \in ObjType /\ KidsLinked(heap', x) /\ ParLinked(heap', x)
  <2>1. x \in Ob /\ heap[x] \in ObjType /\ KidsLinked(heap, x) /\ ParLinked(heap, x)
        /\ kept = DOMAIN heap
    BY <1>2, <1>11 DEF HeapOK, Kept
  <2>2. KidsLinked(heap', x)
    BY <1>9, <2>1 DEF KidsLinked
  <2>3. ParLinked(heap', x)
    BY <1>9, <2>1 DEF ParLinked
  <2>. QED  BY <1>9, <2>1, <2>2, <2>3
<1>12. HeapOK(heap')
  <2>1. \A x \in DOMAIN heap' : x \in Ob /\ heap'[x] \in ObjType /\ KidsLinked(heap', x) /\ ParLinked(heap', x)
    BY <1>9, <1>10, <1>11
  <2>. QED  BY <1>9, <2>1 DEF HeapOK
<1>13. HasMade(heap', a, g, top)
  <2>1. top \in DOMAIN L
    BY <1>5
  <2>. QED  BY <1>5, <1>9, <2>1 DEF HasMade
<1>. QED  BY <1>2, <1>3, <1>4, <1>5, <1>7, <1>8, <1>9, <1>12, <1>13

\* The others wait on when one is done.
LEMMA FinishTypes ==
  ASSUME TypeInv, NEW h \in Handler, req[h] # Idle, Finish(h), ops' = ops,
         \A k \in Handler \ {h} : req[k] # Idle => DOMAIN heap \subseteq DOMAIN heap',
         \A x \in DOMAIN heap' : x \in DOMAIN heap \/ x[2] = req[h].g
  PROVE  ReqInv' /\ Numbered(heap', ops')
<1>1. ops \in Nat /\ ReqInv /\ Numbered(heap, ops) /\ WaitOK(req[h], heap, ops)
  BY DEF TypeInv, HeapInv, ReqInv
<1>2. Numbered(heap', ops')
  BY <1>1 DEF Numbered, WaitOK
<1>3. ASSUME NEW k \in Handler \ {h}, req[k] # Idle PROVE WaitOK(req[k], heap', ops')
  <2>1. WaitOK(req[k], heap, ops) /\ req[k].g # req[h].g
    BY <1>1, <1>3 DEF ReqInv
  <2>2. Fresh(heap', req[k].g)
    BY <2>1 DEF Fresh, WaitOK
  <2>. QED  BY <1>1, <1>3, <2>1, <2>2, WaitKept
<1>4. ReqInv'
  BY <1>1, <1>3, ReqUpdate DEF Finish
<1>. QED  BY <1>2, <1>4

LEMMA MadeNumbered == \A a, p, g : \A x \in MadeObs(a, p, g) : x[2] = g
BY PairFacts DEF MadeObs

LEMMA RefreshTypes ==
  ASSUME TypeInv, NEW h \in Handler, FinishRefresh(h)
  PROVE  TypeInv'
<1>1. PICK o, a, g, t : o = req[h].node /\ a = req[h].ans /\ g = req[h].g /\ t = NewTotal(h)
  OBVIOUS
<1>2. Grafted(heap', a, g, o)
  BY <1>1, RefreshIs
<1>3. req[h].pc = "answered" /\ Replace(h)
  BY DEF FinishRefresh, Resume
<1>4. req[h] # Idle /\ Finish(h) /\ UNCHANGED <<disk, cached, tree, view, ops>>
  BY <1>3, Resumed DEF Replace
<1>5. HeapOK(heap') /\ DOMAIN heap' = DOMAIN heap \cup MadeObs(a, PathOf(o), g)
  BY <1>2 DEF Grafted
<1>6. ReqInv' /\ Numbered(heap', ops')
  BY <1>1, <1>4, <1>5, MadeNumbered, FinishTypes
<1>. QED  BY <1>4, <1>5, <1>6 DEF TypeInv, HeapInv, DiskInv

LEMMA LazyTypes ==
  ASSUME TypeInv, NEW h \in Handler, FinishLazy(h)
  PROVE  TypeInv'
<1>1. PICK o, a, g : o = req[h].node /\ a = req[h].ans /\ g = req[h].g
  OBVIOUS
<1>2. \/ Grafted(heap', a, g, o)
      \/ HeapOK(heap') /\ DOMAIN heap' = DOMAIN heap
  BY <1>1, LazyIs
<1>3. req[h].pc = "answered" /\ Replace(h)
  BY DEF FinishLazy, Resume
<1>4. req[h] # Idle /\ Finish(h) /\ UNCHANGED <<disk, cached, tree, view, ops>>
  BY <1>3, Resumed DEF Replace
<1>5. HeapOK(heap') /\ DOMAIN heap \subseteq DOMAIN heap'
      /\ \A x \in DOMAIN heap' : x \in DOMAIN heap \/ x[2] = g
  BY <1>2, MadeNumbered DEF Grafted
<1>6. ReqInv' /\ Numbered(heap', ops')
  BY <1>1, <1>4, <1>5, FinishTypes
<1>. QED  BY <1>4, <1>5, <1>6 DEF TypeInv, HeapInv, DiskInv

LEMMA FinishScanTypes ==
  ASSUME TypeInv, NEW h \in Handler, FinishScan(h)
  PROVE  TypeInv'
<1>1. PICK a, g, top, kept : /\ a = req[h].ans /\ g = req[h].g /\ top = <<Root, g>>
                             /\ kept = Kept(h)
  OBVIOUS
<1>2. /\ tree' = top /\ view' = top /\ HeapOK(heap') /\ HasMade(heap', a, g, top)
      /\ DOMAIN heap' = kept \cup {top} \cup MadeObs(a, Root, g)
  BY <1>1, ScanIs
<1>3. req[h].pc = "answered" /\ Finish(h) /\ UNCHANGED <<disk, cached, ops>>
  BY DEF FinishScan, Resume
<1>4. req[h] # Idle
  BY <1>3, Resumed
<1>5. ASSUME NEW k \in Handler \ {h}, req[k] # Idle PROVE DOMAIN heap \subseteq DOMAIN heap'
  <2>1. kept = DOMAIN heap
    BY <1>1, <1>5 DEF Kept
  <2>. QED  BY <1>2, <2>1
<1>6. \A x \in DOMAIN heap' : x \in DOMAIN heap \/ x[2] = g
  <2>1. kept \subseteq DOMAIN heap /\ top[2] = g
    BY <1>1, PairFacts DEF Kept
  <2>. QED  BY <1>2, <2>1, MadeNumbered
<1>7. ReqInv' /\ Numbered(heap', ops')
  BY <1>1, <1>3, <1>4, <1>5, <1>6, FinishTypes
<1>8. tree' \in DOMAIN heap' /\ PathOf(tree') = Root
  BY <1>1, <1>2, PairFacts
<1>. QED  BY <1>2, <1>3, <1>7, <1>8 DEF TypeInv, HeapInv, DiskInv

LEMMA TypeStep == TypeInv /\ [Next]_vars => TypeInv'
<1> SUFFICES ASSUME TypeInv, [Next]_vars PROVE TypeInv'
  OBVIOUS
<1>1. CASE UNCHANGED vars
  BY <1>1 DEF vars, TypeInv, HeapInv, ReqInv, DiskInv
<1>2. CASE Up
  BY <1>2, UpTypes
<1>3. CASE \E h \in Handler : HandlerStep(h)
  BY <1>3, TrashTypes, OpenTypes, ScanTypes, ServerTrashTypes, ServerAnswerTypes,
     StartRefreshTypes, RefreshTypes, LazyTypes, FinishScanTypes, LoseTypes DEF HandlerStep
<1>. QED  BY <1>1, <1>2, <1>3 DEF Next

-----------------------------------------------------------------------------
(* From the leaves up.                                                     *)

\* A property of paths that goes from the children of each path to it holds.
LEMMA BottomUp ==
  ASSUME NEW Bad \in SUBSET Path,
         \A p \in Bad : \E e \in Bad : e # Root /\ Parent[e] = p
  PROVE  Bad = {}
<1> SUFFICES ASSUME Bad # {} PROVE FALSE
  OBVIOUS
<1> DEFINE T == {Below(p) : p \in Bad}
<1>1. T # {} /\ \A s \in T : IsFiniteSet(s)
  BY BelowIs
<1>2. PICK m \in T : \A s \in T : s \subseteq m => s = m
  <2> HIDE DEF T
  <2>. QED  BY <1>1, SmallestSet
<1>3. PICK p \in Bad : m = Below(p)
  BY <1>2
<1>4. PICK e \in Bad : e # Root /\ Parent[e] = p
  OBVIOUS
<1>5. Below(e) \subseteq Below(p)
  <2>1. ASSUME NEW x \in Below(e) PROVE x \in Below(p)
    <3>1. x \in Path /\ e \in Above[x]
      BY BelowIs
    <3>2. p \in Above[e]
      BY <1>4, ParentAbove
    <3>. QED  BY <3>1, <3>2, BelowIs, WayFacts DEF WayUp
  <2>. QED  BY <2>1
<1>6. p \in Below(p) /\ p \notin Below(e)
  <2>1. e \notin Above[p] /\ p \in Above[p]
    BY <1>4, ParentAbove, WayFacts DEF WayUp
  <2>. QED  BY <2>1, BelowIs
<1>. QED  BY <1>2, <1>3, <1>5, <1>6

-----------------------------------------------------------------------------
(* Sizes that add up.                                                      *)

Sizes(H) == [o \in DOMAIN H |-> H[o].v]

Adds(H, o) == Sizes(H)[o] = Own[PathOf(o)] + H[o].more + Sum(Sizes(H), H[o].kids)

\* An object shows what disk D has: its entries, and the rest in the bucket.
KidPaths(H, o) == {PathOf(k) : k \in H[o].kids}

Left(H, D, o) == Entries(D, PathOf(o)) \ KidPaths(H, o)

TotalsOf(D) == [q \in Path |-> TotalIn(D, q)]

Matches(H, D, o) ==
  /\ KidPaths(H, o) \subseteq Entries(D, PathOf(o))
  /\ H[o].more = Sum(TotalsOf(D), Left(H, D, o))

\* x is made of what answer a of number g says of q.
MadeFrom(H, a, g, x, q) ==
  /\ x \in DOMAIN H /\ PathOf(x) = q /\ H[x].v = a.v[q]
  /\ H[x].kids = KidsIn(a, q, g) /\ H[x].more = Bucket(a, q)

\* The kids made for q stand for the entries of q that are shown.
LEMMA MadeKids ==
  ASSUME NEW p \in Path, NEW a, GoodAnswer(a, p), NEW q \in Below(p), Above[q] \cap a.hides = {},
         NEW H, NEW o, PathOf(o) = p, NEW g, HasMade(H, a, g, o), NEW x, MadeFrom(H, a, g, x, q)
  PROVE  /\ KidPaths(H, x) = Entries(a.counted, q) \ a.hides
         /\ Sum(Sizes(H), H[x].kids) = Sum(a.v, Entries(a.counted, q) \ a.hides)
<1>1. PICK S : S = Entries(a.counted, q) \ a.hides
  OBVIOUS
<1> DEFINE b == [e \in S |-> <<e, g>>]
<1>2. /\ H[x].kids = {<<e, g>> : e \in S}
      /\ \A e \in S : e \in ShownIn(a, p) /\ e \in Path /\ a.v[e] = TotalIn(a.counted, e)
      /\ IsFiniteSet(S)
  <2>1. KidsIn(a, q, g) = {<<e, g>> : e \in S} /\ IsFiniteSet(Entries(a.counted, q))
        /\ \A e \in Entries(a.counted, q) : e \in Below(p) /\ a.v[e] = TotalIn(a.counted, e)
                                           /\ (e \notin a.hides => e \in ShownIn(a, p))
    BY <1>1, KidsFacts
  <2>2. IsFiniteSet(S)
    BY <1>1, <2>1, FS_Subset
  <2>. QED  BY <1>1, <2>1, <2>2, BelowIs DEF MadeFrom
<1>3. {b[e] : e \in S} = H[x].kids
  BY <1>2
<1>4. ASSUME NEW e \in S PROVE a.v[e] = Sizes(H)[b[e]] /\ a.v[e] \in Int
  <2>1. <<e, g>> \in DOMAIN H /\ H[<<e, g>>] = MadeOf(a, p, g, o, e)
    BY <1>2 DEF HasMade
  <2>2. MadeOf(a, p, g, o, e).v = a.v[e]
    BY DEF MadeOf, Made
  <2>. QED  BY <1>2, <2>1, <2>2, TotalNat DEF Sizes
<1>5. \A d, e \in S : b[d] = b[e] => d = e
  OBVIOUS
<1>6. KidPaths(H, x) = S
  <2>1. \A k \in H[x].kids : PathOf(k) \in S
    BY <1>2, PairFacts
  <2>2. \A e \in S : <<e, g>> \in H[x].kids /\ PathOf(<<e, g>>) = e
    BY <1>2, PairFacts
  <2>. QED  BY <2>1, <2>2 DEF KidPaths
<1>7. Sum(Sizes(H), {b[e] : e \in S}) = Sum(a.v, S)
  <2> HIDE DEF b
  <2>. QED  BY <1>2, <1>4, <1>5, SumImage
<1>. QED  BY <1>1, <1>3, <1>6, <1>7

LEMMA MadeAdds ==
  ASSUME NEW p \in Path, NEW a, GoodAnswer(a, p), NEW q \in a.counted, Above[q] \cap a.hides = {},
         NEW H, NEW o, PathOf(o) = p, NEW g, HasMade(H, a, g, o), NEW x, MadeFrom(H, a, g, x, q)
  PROVE  Adds(H, x)
<1>1. q \in Below(p)
  BY DEF GoodAnswer, ClosedIn
<1>2. Sum(Sizes(H), H[x].kids) = Sum(a.v, Entries(a.counted, q) \ a.hides)
  BY <1>1, MadeKids
<1>3. a.v[q] = Own[q] + Bucket(a, q) + Sum(a.v, Entries(a.counted, q) \ a.hides)
  BY AnswerAdds
<1>. QED  BY <1>2, <1>3 DEF Adds, Sizes, MadeFrom

\* What was counted is all there is below p.
Whole(a, p, D) == a.counted = D \cap Below(p)

LEMMA WholeTotals ==
  ASSUME NEW p \in Path, NEW a, GoodAnswer(a, p), NEW D, Whole(a, p, D), NEW q \in Below(p)
  PROVE  Below(q) \cap a.counted = Below(q) \cap D /\ a.v[q] = TotalIn(D, q)
<1>1. Below(q) \subseteq Below(p)
  <2>1. p \in Above[q] /\ q \in Path
    BY BelowIs
  <2>2. \A x \in Below(q) : x \in Path /\ q \in Above[x]
    BY BelowIs
  <2>3. \A x \in Below(q) : p \in Above[x]
    BY <2>1, <2>2, WayFacts DEF WayUp
  <2>. QED  BY <2>2, <2>3, BelowIs
<1>2. Below(q) \cap a.counted = Below(q) \cap D
  BY <1>1 DEF Whole
<1>. QED  BY <1>2 DEF GoodAnswer, TotalIn

LEMMA MadeMatches ==
  ASSUME NEW p \in Path, NEW a, GoodAnswer(a, p), NEW D \in Disks, Whole(a, p, D),
         NEW q \in Below(p), Above[q] \cap a.hides = {},
         NEW H, NEW o, PathOf(o) = p, NEW g, HasMade(H, a, g, o), NEW x, MadeFrom(H, a, g, x, q)
  PROVE  Matches(H, D, x)
<1>1. /\ KidPaths(H, x) = Entries(a.counted, q) \ a.hides
      /\ Sum(Sizes(H), H[x].kids) = Sum(a.v, Entries(a.counted, q) \ a.hides)
  BY MadeKids
<1>2. Entries(a.counted, q) = Entries(D, q)
  <2>1. ASSUME NEW e \in D, e # Root, Parent[e] = q PROVE e \in Below(p)
    <3>1. e \in Path /\ q \in Path /\ p \in Above[q]
      BY BelowIs DEF Disks
    <3>. QED  BY <2>1, <3>1, ParentAbove, BelowIs
  <2>. QED  BY <2>1 DEF Entries, Whole
<1>3. PICK S : S = Entries(D, q) \cap a.hides
  OBVIOUS
<1>4. InBucket(a, q) = S /\ Bucket(a, q) = Sum(a.v, S) /\ Left(H, D, x) = S
  <2>1. InBucket(a, q) = S /\ Bucket(a, q) = Sum(a.v, S)
    BY <1>2, <1>3, KidsFacts
  <2>2. Left(H, D, x) = S
    BY <1>1, <1>2, <1>3 DEF Left, MadeFrom
  <2>. QED  BY <2>1, <2>2
<1>5. IsFiniteSet(S) /\ \A e \in S : e \in Below(p) /\ e \in Path
  <2>1. IsFiniteSet(Entries(a.counted, q)) /\ \A e \in Entries(a.counted, q) : e \in Below(p)
    BY KidsFacts
  <2>. QED  BY <1>2, <1>3, <2>1, FS_Subset, BelowIs
<1>6. \A e \in S : a.v[e] = TotalsOf(D)[e]
  BY <1>5, WholeTotals DEF TotalsOf
<1>7. Sum(a.v, S) = Sum(TotalsOf(D), S)
  BY <1>5, <1>6, SumSame
<1>. QED  BY <1>1, <1>2, <1>4, <1>7 DEF Matches, MadeFrom

\* The objects of an answer are made from it.
LEMMA HasMadeFrom ==
  ASSUME NEW H, NEW a, NEW g, NEW o, HasMade(H, a, g, o)
  PROVE  /\ \A q \in ShownIn(a, PathOf(o)) : MadeFrom(H, a, g, <<q, g>>, q)
         /\ H[o].v = a.v[PathOf(o)] => MadeFrom(H, a, g, o, PathOf(o))
<1>1. ASSUME NEW q \in ShownIn(a, PathOf(o)) PROVE MadeFrom(H, a, g, <<q, g>>, q)
  <2>1. <<q, g>> \in DOMAIN H /\ H[<<q, g>>] = MadeOf(a, PathOf(o), g, o, q)
    BY DEF HasMade
  <2>2. /\ MadeOf(a, PathOf(o), g, o, q).v = a.v[q]
        /\ MadeOf(a, PathOf(o), g, o, q).kids = KidsIn(a, q, g)
        /\ MadeOf(a, PathOf(o), g, o, q).more = Bucket(a, q)
    BY DEF MadeOf, Made
  <2>. QED  BY <2>1, <2>2, PairFacts DEF MadeFrom
<1>. QED  BY <1>1 DEF HasMade, MadeFrom

-----------------------------------------------------------------------------
(* What is shown.                                                          *)

\* S hangs below the root object top of H.
Tree(H, top, S) ==
  HeapOK(H) /\ top \in DOMAIN H /\ PathOf(top) = Root /\ S = HangsIn(H, top)

LEMMA LiveTree == TypeInv => Tree(heap, tree, LiveObjs)
BY HangsIs DEF TypeInv, HeapInv, Tree, LiveObjs

\* One object for each path, each but the root among the kids of its parent.
TreeShape(H, top, S) ==
  /\ S \subseteq DOMAIN H /\ top \in S
  /\ \A o \in S : /\ o \in Ob /\ PathOf(o) \in Path /\ KidsLinked(H, o)
                  /\ PathOf(o) = Root => o = top /\ H[o].par = NoObj
                  /\ PathOf(o) # Root => /\ H[o].par # NoObj /\ H[o].par \in S
                                         /\ o \in H[H[o].par].kids
                                         /\ PathOf(H[o].par) = Parent[PathOf(o)]
  /\ \A o \in S : \A k \in H[o].kids : k \in S
  /\ \A x, y \in S : PathOf(x) = PathOf(y) => x = y

LEMMA LiveShape ==
  ASSUME NEW H, NEW top, NEW S, Tree(H, top, S)
  PROVE  TreeShape(H, top, S)
<1>1. HeapOK(H) /\ top \in DOMAIN H /\ PathOf(top) = Root /\ S = HangsIn(H, top)
  BY DEF Tree
<1>2. /\ S \subseteq DOMAIN H /\ top \in S
      /\ \A o \in S : o = top \/ (/\ PathOf(o) # Root /\ H[o].par \in S
                                  /\ o \in H[H[o].par].kids)
      /\ \A o \in S : \A k \in H[o].kids : k \in S /\ k # top
      /\ \A x, y \in S : PathOf(x) = PathOf(y) => x = y
  BY <1>1, LiveFacts
<1>3. ASSUME NEW o \in S
      PROVE  /\ o \in Ob /\ PathOf(o) \in Path /\ KidsLinked(H, o)
             /\ PathOf(o) = Root => o = top /\ H[o].par = NoObj
             /\ PathOf(o) # Root => /\ H[o].par # NoObj /\ H[o].par \in S
                                    /\ o \in H[H[o].par].kids
                                    /\ PathOf(H[o].par) = Parent[PathOf(o)]
  <2>1. o \in DOMAIN H /\ KidsLinked(H, o)
    BY <1>1, <1>2 DEF HeapOK
  <2>2. /\ o \in Ob /\ PathOf(o) \in Path
        /\ PathOf(o) = Root => H[o].par = NoObj
        /\ PathOf(o) # Root => H[o].par # NoObj /\ PathOf(H[o].par) = Parent[PathOf(o)]
    BY <1>1, <2>1, LinksOf
  <2>. QED  BY <1>1, <1>2, <2>1, <2>2
<1>4. \A o \in S : \A k \in H[o].kids : k \in S
  BY <1>2
<1>. QED  BY <1>2, <1>3, <1>4 DEF TreeShape

LEMMA LiveAncestors ==
  ASSUME NEW S, Tree(heap, tree, S)
  PROVE  \A o \in S : /\ Ancestors[o] \subseteq S
                      /\ \A y \in S : y \in Ancestors[o] <=> PathOf(y) \in Above[PathOf(o)] \ {PathOf(o)}
<1>1. HeapOK(heap) /\ TreeShape(heap, tree, S)
  BY LiveShape DEF Tree
<1>2. \A o \in DOMAIN heap : Ancestors[o] = IF heap[o].par = NoObj THEN {}
                                            ELSE {heap[o].par} \cup Ancestors[heap[o].par]
  BY <1>1, AncestorsAt
<1> DEFINE Bad == {o \in S : ~ (Ancestors[o] \subseteq S)}
<1>3. ASSUME NEW o \in DOMAIN heap, PathOf(o) = Root \/ heap[o].par \notin Bad PROVE o \notin Bad
  <2> SUFFICES ASSUME o \in S PROVE Ancestors[o] \subseteq S
    OBVIOUS
  <2>1. CASE PathOf(o) = Root
    BY <1>1, <1>2, <2>1 DEF TreeShape
  <2>2. CASE PathOf(o) # Root
    <3>1. heap[o].par # NoObj /\ heap[o].par \in S
      BY <1>1, <2>2 DEF TreeShape
    <3>. QED  BY <1>2, <1>3, <2>2, <3>1
  <2>. QED  BY <2>1, <2>2
<1>4. Bad = {}
  <2>1. Bad \in SUBSET DOMAIN heap
    BY <1>1 DEF TreeShape
  <2> HIDE DEF Bad
  <2>2. \A o \in DOMAIN heap : PathOf(o) = Root \/ heap[o].par \notin Bad => o \notin Bad
    BY <1>3
  <2>. QED  BY <1>1, <2>1, <2>2, HeapDown
<1>5. ASSUME NEW o \in S, NEW y \in S
      PROVE  y \in Ancestors[o] <=> PathOf(y) \in Above[PathOf(o)] \ {PathOf(o)}
  <2>1. AncestryOf(o) /\ Ancestors[o] \subseteq S
    BY <1>1, <1>4, AncestryFacts DEF TreeShape
  <2>2. ASSUME PathOf(y) \in Above[PathOf(o)] \ {PathOf(o)} PROVE y \in Ancestors[o]
    <3>1. PICK z \in Ancestors[o] : PathOf(z) = PathOf(y)
      BY <2>1, <2>2 DEF AncestryOf
    <3>2. z = y
      BY <1>1, <2>1, <3>1 DEF TreeShape
    <3>. QED  BY <3>1, <3>2
  <2>. QED  BY <2>1, <2>2 DEF AncestryOf
<1>. QED  BY <1>4, <1>5

\* What hangs below an object of the tree is in the tree.
LEMMA HangsInside ==
  ASSUME NEW H, NEW top, NEW S, Tree(H, top, S), NEW v \in S
  PROVE  HangsIn(H, v) \subseteq S
<1>1. HeapOK(H) /\ S = HangsIn(H, top)
  BY DEF Tree
<1>2. /\ HangsIn(H, v) \subseteq DOMAIN H
      /\ \A o \in DOMAIN H : o \in HangsIn(H, v) <=> (o = v \/ HangsFrom(H, o, HangsIn(H, v)))
  BY <1>1, HangsAt
<1>3. \A o \in DOMAIN H : o \in S <=> (o = top \/ HangsFrom(H, o, S))
  BY <1>1, HangsAt
<1> DEFINE Bad == {o \in HangsIn(H, v) : o \notin S}
<1>4. ASSUME NEW o \in DOMAIN H, PathOf(o) = Root \/ H[o].par \notin Bad PROVE o \notin Bad
  <2> SUFFICES ASSUME o \in HangsIn(H, v), o # v PROVE o \in S
    OBVIOUS
  <2>1. H[o].par # NoObj /\ o \in H[H[o].par].kids /\ H[o].par \in HangsIn(H, v)
    BY <1>2 DEF HangsFrom
  <2>2. H[o].par \in S
    BY <1>1, <1>4, <2>1, LinksOf
  <2>. QED  BY <1>3, <2>1, <2>2 DEF HangsFrom
<1>5. Bad = {}
  <2>1. Bad \in SUBSET DOMAIN H
    BY <1>2
  <2> HIDE DEF Bad
  <2>2. \A o \in DOMAIN H : PathOf(o) = Root \/ H[o].par \notin Bad => o \notin Bad
    BY <1>4
  <2>. QED  BY <1>1, <2>1, <2>2, HeapDown
<1>. QED  BY <1>5

\* After a graft below o, what was in the tree is in it but for what was below o.
LEMMA GraftLive ==
  ASSUME NEW S, Tree(heap, tree, S), NEW o \in S, NEW a, NEW g, NEW J, Grafted(J, a, g, o),
         Fresh(heap, g), NEW T, Tree(J, tree, T)
  PROVE  /\ \A x \in T \cap DOMAIN heap : x \in S /\ o \notin Ancestors[x]
         /\ \A x \in T \ DOMAIN heap : x \in MadeObs(a, PathOf(o), g)
         /\ \A x \in S : o \notin Ancestors[x] => x \in T
<1>1. PICK M : M = MadeObs(a, PathOf(o), g)
  OBVIOUS
<1>2. /\ HeapOK(J) /\ DOMAIN J = DOMAIN heap \cup M /\ DOMAIN heap \cap M = {}
      /\ J[o].par = heap[o].par
      /\ \A x \in DOMAIN heap \ {o} :
           J[x].par = heap[x].par /\ J[x].kids = heap[x].kids /\ J[x].more = heap[x].more
  BY <1>1 DEF Grafted
<1>3. J[o].kids \cap DOMAIN heap = {}
  <2>1. \A k \in J[o].kids : k[2] = g
    BY PairFacts DEF Grafted, HasMade, KidsIn
  <2>. QED  BY <2>1 DEF Fresh
<1>4. HeapOK(heap) /\ S = HangsIn(heap, tree) /\ T = HangsIn(J, tree) /\ tree \in DOMAIN heap
      /\ PathOf(tree) = Root
  BY DEF Tree
<1>5. \A x \in DOMAIN heap : x \in S <=> (x = tree \/ HangsFrom(heap, x, S))
  BY <1>4, HangsAt
<1>6. T \subseteq DOMAIN J /\ \A x \in DOMAIN J : x \in T <=> (x = tree \/ HangsFrom(J, x, T))
  BY <1>2, <1>4, HangsAt
<1>7. S \subseteq DOMAIN heap
  BY <1>4, HangsAt
<1>8. \A x \in DOMAIN heap : Ancestors[x] = IF heap[x].par = NoObj THEN {}
                                            ELSE {heap[x].par} \cup Ancestors[heap[x].par]
  BY <1>4, AncestorsAt
<1>9. \A x \in DOMAIN heap : /\ J[x].par = heap[x].par
                             /\ heap[x].par # NoObj => heap[x].par \in DOMAIN heap
  BY <1>2, <1>4, LinksOf
<1>10. heap[tree].par = NoObj
  BY <1>4, LinksOf
<1>11. ASSUME NEW x \in T \cap DOMAIN heap PROVE x \in S /\ o \notin Ancestors[x]
  <2> DEFINE Bad == {y \in T \cap DOMAIN heap : ~ (y \in S /\ o \notin Ancestors[y])}
  <2>1. ASSUME NEW y \in DOMAIN heap, PathOf(y) = Root \/ heap[y].par \notin Bad PROVE y \notin Bad
    <3> SUFFICES ASSUME y \in T PROVE y \in S /\ o \notin Ancestors[y]
      OBVIOUS
    <3>1. CASE y = tree
      BY <1>5, <1>8, <1>10, <3>1
    <3>2. CASE y # tree
      <4>1. PICK u : u = heap[y].par
        OBVIOUS
      <4>2. u # NoObj /\ u \in DOMAIN heap /\ u \in T /\ y \in J[u].kids
        BY <1>2, <1>6, <1>9, <3>2, <4>1 DEF HangsFrom
      <4>3. u # o
        BY <1>3, <4>2
      <4>4. PathOf(y) # Root
        BY <1>4, <4>1, <4>2, LinksOf
      <4>5. u \in S /\ o \notin Ancestors[u]
        BY <2>1, <4>1, <4>2, <4>4
      <4>6. y \in heap[u].kids
        BY <1>2, <4>2, <4>3
      <4>7. y \in S
        BY <1>5, <4>1, <4>2, <4>5, <4>6 DEF HangsFrom
      <4>. QED  BY <1>8, <4>1, <4>2, <4>3, <4>5, <4>7
    <3>. QED  BY <3>1, <3>2
  <2>2. Bad = {}
    <3>1. Bad \in SUBSET DOMAIN heap
      OBVIOUS
    <3> HIDE DEF Bad
    <3>2. \A y \in DOMAIN heap : PathOf(y) = Root \/ heap[y].par \notin Bad => y \notin Bad
      BY <2>1
    <3>. QED  BY <1>4, <3>1, <3>2, HeapDown
  <2>. QED  BY <2>2
<1>12. ASSUME NEW x \in S, o \notin Ancestors[x] PROVE x \in T
  <2> DEFINE Bad == {y \in S : o \notin Ancestors[y] /\ y \notin T}
  <2>1. ASSUME NEW y \in DOMAIN heap, PathOf(y) = Root \/ heap[y].par \notin Bad PROVE y \notin Bad
    <3> SUFFICES ASSUME y \in S, o \notin Ancestors[y] PROVE y \in T
      OBVIOUS
    <3>1. CASE y = tree
      BY <1>2, <1>6, <3>1
    <3>2. CASE y # tree
      <4>1. PICK u : u = heap[y].par
        OBVIOUS
      <4>2. u # NoObj /\ u \in DOMAIN heap /\ u \in S /\ y \in heap[u].kids
        BY <1>5, <1>9, <3>2, <4>1 DEF HangsFrom
      <4>3. u # o /\ o \notin Ancestors[u]
        BY <1>8, <4>1, <4>2
      <4>4. PathOf(y) # Root
        BY <1>4, <4>1, <4>2, LinksOf
      <4>5. u \in T
        BY <2>1, <4>1, <4>2, <4>3, <4>4
      <4>6. y \in J[u].kids /\ J[y].par = u /\ y \in DOMAIN J
        BY <1>2, <1>9, <4>1, <4>2, <4>3
      <4>. QED  BY <1>6, <4>2, <4>5, <4>6 DEF HangsFrom
    <3>. QED  BY <3>1, <3>2
  <2>2. Bad = {}
    <3>1. Bad \in SUBSET DOMAIN heap
      BY <1>7
    <3> HIDE DEF Bad
    <3>2. \A y \in DOMAIN heap : PathOf(y) = Root \/ heap[y].par \notin Bad => y \notin Bad
      BY <2>1
    <3>. QED  BY <1>4, <3>1, <3>2, HeapDown
  <2>. QED  BY <1>12, <2>2
<1>. QED  BY <1>1, <1>2, <1>6, <1>11, <1>12

-----------------------------------------------------------------------------
(* Why the sizes are right.                                                *)

\* r is a trash that waits, and has removed its path from the disk.
Doing(r) == r # Idle /\ r.kind = "trash" /\ r.pc # "act"

AreaOf(r) == IF r.pc \in {"act", "trashed"} THEN Parent[PathOf(r.node)] ELSE PathOf(r.node)

LEMMA AreaIs == \A h : Area(h) = AreaOf(req[h])
BY DEF Area, AreaOf

\* A folder above q is about to be scanned again.
Busy(R, q) == \E k \in Handler : Doing(R[k]) /\ AreaOf(R[k]) \in Above[q]

\* q is on the disk, or will be gone from the tree too.
Excused(D, R, q) == q \in D \/ (q # Root /\ Busy(R, Parent[q]))

\* What a handler holds on to is in the tree, as it was.
Steady(r, H, S) ==
  r.node \in S /\ (r.kind = "trash" /\ r.pc \in {"asked", "answered"} => r.old = H[r.node].v)

Clean == excuses \subseteq {"cut refresh"}

LinkInv == Clean =>
  view \in LiveObjs /\ \A k \in Handler : req[k] # Idle => Steady(req[k], heap, LiveObjs)

GoneInv == Clean => \A o \in LiveObjs : Excused(disk, req, PathOf(o))

SumInv == Clean => \A o \in LiveObjs : Adds(heap, o)

MatchInv == excuses = {} =>
  \A o \in LiveObjs : Matches(heap, disk, o) \/ Busy(req, PathOf(o))

ShowInv == LinkInv /\ GoneInv /\ SumInv /\ MatchInv

LEMMA TotalsAreInt ==
  ASSUME NEW D, NEW C \in SUBSET Path
  PROVE  /\ IsFiniteSet(C) /\ IntOn(TotalsOf(D), C)
         /\ \A e \in C : TotalsOf(D)[e] = TotalIn(D, e)
BY TotalNat, FS_Subset, GuiTreeAssumption DEF TotalsOf, IntOn

\* Objects with paths of their own are as few as the paths.
LEMMA KidsFinite ==
  ASSUME NEW K, \A k \in K : PathOf(k) \in Path,
         \A k, l \in K : PathOf(k) = PathOf(l) => k = l
  PROVE  IsFiniteSet(K)
<1> DEFINE f == [k \in K |-> PathOf(k)]
<1>1. f \in Injection(K, Path)
  BY DEF Injection, IsInjective
<1>. QED  BY <1>1, FS_Injection, GuiTreeAssumption

\* A path with no folder above it that is to be scanned again shows the disk.
LEMMA SubtreeIsDisk ==
  ASSUME TypeInv, ShowInv, excuses = {}, NEW p \in Path,
         \A k \in Handler : Doing(req[k]) => \A q \in Below(p) : AreaOf(req[k]) \notin Above[q],
         NEW o \in LiveObjs, PathOf(o) \in Below(p)
  PROVE  heap[o].v = TotalIn(disk, PathOf(o))
<1> DEFINE S == LiveObjs
           Bad == {PathOf(x) : x \in {y \in S : PathOf(y) \in Below(p)
                                                /\ heap[y].v # TotalIn(disk, PathOf(y))}}
<1>1. TreeShape(heap, tree, S)
  BY LiveTree, LiveShape
<1>2. Clean /\ disk \in Disks
  BY DEF Clean, TypeInv, DiskInv
<1>3. \A q \in Below(p) : ~Busy(req, q)
  BY DEF Busy
<1>4. ASSUME NEW x \in S, PathOf(x) \in Below(p)
      PROVE  Matches(heap, disk, x) /\ Adds(heap, x) /\ PathOf(x) \in disk
  <2>1. Matches(heap, disk, x) /\ Adds(heap, x) /\ Excused(disk, req, PathOf(x))
    BY <1>2, <1>3, <1>4 DEF ShowInv, MatchInv, SumInv, GoneInv
  <2>2. PathOf(x) # Root => ~Busy(req, Parent[PathOf(x)])
    <3>1. ASSUME PathOf(x) # Root, NEW k \in Handler, Doing(req[k]),
                 AreaOf(req[k]) \in Above[Parent[PathOf(x)]]
          PROVE  FALSE
      <4>1. Above[Parent[PathOf(x)]] \subseteq Above[PathOf(x)]
        BY <1>1, <3>1, ParentAbove DEF TreeShape
      <4>. QED  BY <1>4, <3>1, <4>1
    <3>. QED  BY <3>1 DEF Busy
  <2>. QED  BY <2>1, <2>2 DEF Excused
<1>5. ASSUME NEW q \in Bad PROVE \E e \in Bad : e # Root /\ Parent[e] = q
  <2> SUFFICES ASSUME \A e \in Bad : e # Root => Parent[e] # q PROVE FALSE
    OBVIOUS
  <2>1. PICK x \in S : /\ PathOf(x) = q /\ q \in Below(p) /\ heap[x].v # TotalIn(disk, q)
    OBVIOUS
  <2>2. Matches(heap, disk, x) /\ Adds(heap, x) /\ q \in disk
    BY <1>4, <2>1
  <2>3. PICK K : K = heap[x].kids
    OBVIOUS
  <2>4. PICK P : P = KidPaths(heap, x)
    OBVIOUS
  <2>5. PICK E : E = Entries(disk, q)
    OBVIOUS
  <2>6. x \in DOMAIN heap /\ K \subseteq S /\ K \subseteq DOMAIN heap /\ q \in Path /\ KidsLinked(heap, x)
    BY <1>1, <2>1, <2>3 DEF TreeShape
  <2>7. \A k \in K : /\ PathOf(k) \in Path /\ PathOf(k) # Root /\ Parent[PathOf(k)] = q
                     /\ PathOf(k) \in Below(p)
    <3>1. ASSUME NEW k \in K
          PROVE  /\ PathOf(k) \in Path /\ PathOf(k) # Root /\ Parent[PathOf(k)] = q
                 /\ PathOf(k) \in Below(p)
      <4>1. PathOf(k) \in Path /\ PathOf(k) # Root /\ Parent[PathOf(k)] = q
        BY <1>1, <2>1, <2>3, <2>6 DEF KidsLinked, TreeShape
      <4>2. p \in Above[PathOf(k)]
        BY <2>1, <4>1, ParentAbove, BelowIs
      <4>. QED  BY <4>1, <4>2, BelowIs
    <3>. QED  BY <3>1
  <2>8. \A k \in K : heap[k].v = TotalIn(disk, PathOf(k))
    <3>1. ASSUME NEW k \in K, heap[k].v # TotalIn(disk, PathOf(k)) PROVE FALSE
      <4>1. PathOf(k) \in Bad
        BY <2>6, <2>7, <3>1
      <4>. QED  BY <2>7, <4>1
    <3>. QED  BY <3>1
  <2> HIDE DEF S, Bad
  <2>9. E \subseteq Path /\ P \subseteq E /\ P = {PathOf(k) : k \in K}
        /\ heap[x].more = Sum(TotalsOf(disk), E \ P)
    BY <1>2, <2>1, <2>2, <2>3, <2>4, <2>5 DEF Entries, Disks, Matches, KidPaths, Left
  <2>10. IsFiniteSet(K)
    <3>1. \A k, l \in K : PathOf(k) = PathOf(l) => k = l
      BY <1>1, <2>6 DEF TreeShape
    <3>. QED  BY <2>7, <3>1, KidsFinite
  <2>11. Sum(Sizes(heap), K) = Sum(TotalsOf(disk), P)
    <3> DEFINE b == [k \in K |-> PathOf(k)]
               f == Sizes(heap)
    <3>1. \A k \in K : f[k] = TotalsOf(disk)[b[k]] /\ f[k] \in Int
      BY <2>6, <2>7, <2>8, TotalNat DEF Sizes, TotalsOf
    <3>2. \A k, l \in K : b[k] = b[l] => k = l
      BY <1>1, <2>6 DEF TreeShape
    <3>3. {b[k] : k \in K} = P
      BY <2>9
    <3>4. Sum(TotalsOf(disk), {b[k] : k \in K}) = Sum(f, K)
      <4> HIDE DEF b, f
      <4>. QED  BY <2>10, <3>1, <3>2, SumImage
    <3>. QED  BY <3>3, <3>4
  <2>12. Sum(TotalsOf(disk), E) = Sum(TotalsOf(disk), P) + Sum(TotalsOf(disk), E \ P)
    <3>1. P \cup (E \ P) = E /\ P \cap (E \ P) = {} /\ P \in SUBSET Path /\ E \ P \in SUBSET Path
          /\ E \in SUBSET Path
      BY <2>9
    <3>2. IsFiniteSet(P) /\ IsFiniteSet(E \ P) /\ IntOn(TotalsOf(disk), P \cup (E \ P))
      BY <3>1, TotalsAreInt
    <3>3. PICK A : A = E \ P
      OBVIOUS
    <3>4. Sum(TotalsOf(disk), P \cup A) = Sum(TotalsOf(disk), P) + Sum(TotalsOf(disk), A)
      BY <3>1, <3>2, <3>3, SumUnion
    <3>. QED  BY <3>1, <3>3, <3>4
  <2>13. TotalIn(disk, q) = Own[q] + Sum(TotalsOf(disk), E)
    <3>1. ClosedIn(disk, Root)
      <4>1. \A y \in disk : Root \in Above[y]
        BY <1>2, WayFacts DEF Disks, WayUp
      <4>. QED  BY <1>2, <4>1, BelowIs DEF ClosedIn, Disks, UpClosed
    <3>2. \A e \in Entries(disk, q) : TotalsOf(disk)[e] = TotalIn(disk, e)
      BY <2>5, <2>9, TotalsAreInt
    <3>3. TotalIn(disk, q) = Own[q] + Sum(TotalsOf(disk), Entries(disk, q))
      BY <2>2, <3>1, <3>2, TotalDown, GuiTreeAssumption
    <3>. QED  BY <2>5, <3>3
  <2>14. Sizes(heap)[x] = heap[x].v /\ Sizes(heap)[x] = Own[q] + heap[x].more + Sum(Sizes(heap), K)
    BY <2>1, <2>2, <2>3, <2>6 DEF Adds, Sizes
  <2>15. Own[q] \in Int /\ Sum(TotalsOf(disk), P) \in Int /\ Sum(TotalsOf(disk), E \ P) \in Int
    <3>1. P \in SUBSET Path /\ E \ P \in SUBSET Path
      BY <2>9
    <3>. QED  BY <2>6, <3>1, TotalsAreInt, SumInt, GuiTreeAssumption
  <2>. QED  BY <2>1, <2>9, <2>11, <2>12, <2>13, <2>14, <2>15
<1>6. Bad = {}
  <2>1. Bad \in SUBSET Path
    BY BelowIs
  <2> HIDE DEF Bad
  <2>. QED  BY <1>5, <2>1, BottomUp
<1>. QED  BY <1>6

-----------------------------------------------------------------------------
(* The steps keep the sizes right.                                         *)

LEMMA LiveNext == LiveObjs' = HangsIn(heap', tree')
BY Zenon DEF LiveObjs, Hangs, HangsIn, Under, UnderRec

LEMMA LiveTreeNext == TypeInv' => Tree(heap', tree', LiveObjs')
BY LiveNext DEF TypeInv, HeapInv, Tree

LEMMA LiveIs == LiveObjs = HangsIn(heap, tree)
BY HangsIs DEF LiveObjs

\* Who was busy still is.
LEMMA StillBusy ==
  ASSUME ReqInv, NEW h \in Handler, NEW r, req' = [req EXCEPT ![h] = r],
         Doing(req[h]) => Doing(r) /\ AreaOf(r) = AreaOf(req[h])
  PROVE  /\ \A q : Busy(req, q) => Busy(req', q)
         /\ \A q : Excused(disk, req, q) => Excused(disk, req', q)
<1>1. \A k \in Handler : req'[k] = IF k = h THEN r ELSE req[k]
  BY DEF ReqInv
<1>2. \A q : Busy(req, q) => Busy(req', q)
  BY <1>1 DEF Busy
<1>. QED  BY <1>2 DEF Excused

LEMMA QuietStep ==
  ASSUME TypeInv, ShowInv, NEW h \in Handler, NEW r, req' = [req EXCEPT ![h] = r],
         heap' = heap, tree' = tree, disk' = disk,
         Clean' => Clean, excuses' = {} => excuses = {},
         Clean' => view' \in LiveObjs,
         Clean' => r = Idle \/ Steady(r, heap, LiveObjs),
         Clean' => (Doing(req[h]) => Doing(r) /\ AreaOf(r) = AreaOf(req[h]))
  PROVE  ShowInv'
<1>1. LiveObjs' = LiveObjs
  BY LiveIs, LiveNext
<1>2. excuses' = {} => Clean'
  BY DEF Clean
<1>3. Clean' => /\ \A q : Busy(req, q) => Busy(req', q)
                /\ \A q : Excused(disk, req, q) => Excused(disk, req', q)
  BY StillBusy DEF TypeInv
<1>4. \A k \in Handler : req'[k] = IF k = h THEN r ELSE req[k]
  BY DEF TypeInv, ReqInv
<1>5. LinkInv'
  BY <1>1, <1>4 DEF LinkInv, ShowInv
<1>6. GoneInv'
  BY <1>1, <1>3 DEF GoneInv, ShowInv
<1>7. SumInv'
  BY <1>1 DEF SumInv, ShowInv
<1>8. MatchInv'
  BY <1>1, <1>2, <1>3 DEF MatchInv, ShowInv
<1>. QED  BY <1>5, <1>6, <1>7, <1>8 DEF ShowInv

LEMMA IdleNotDoing == ~Doing(Idle)
BY DEF Doing

LEMMA StartShows ==
  ASSUME TypeInv, ShowInv, NEW h \in Handler, NEW kind \in {"trash", "lazy", "scan", "rescan"},
         NEW o, Clean => o \in LiveObjs, Start(h, kind, o), Clean => view' \in LiveObjs,
         UNCHANGED <<disk, cached, heap, tree, excuses>>
  PROVE  ShowInv'
<1>1. PICK r : r = [kind |-> kind, pc |-> IF kind = "trash" THEN "act" ELSE "asked", node |-> o,
                    g |-> ops + 1, old |-> 0, ans |-> <<>>]
  OBVIOUS
<1>2. req' = [req EXCEPT ![h] = r] /\ req[h] = Idle
  BY <1>1 DEF Start
<1>3. Clean => Steady(r, heap, LiveObjs)
  BY <1>1 DEF Steady
<1>4. (Clean' <=> Clean) /\ excuses' = excuses
  BY DEF Clean
<1>. QED  BY <1>2, <1>3, <1>4, IdleNotDoing, QuietStep

LEMMA TrashShows ==
  ASSUME TypeInv, ShowInv, NEW h \in Handler, Trash(h)
  PROVE  ShowInv'
<1>1. PICK o \in Shown : /\ Start(h, "trash", o)
                         /\ UNCHANGED <<disk, cached, heap, tree, view, excuses>>
  BY DEF Trash
<1>2. Clean => o \in LiveObjs /\ view \in LiveObjs
  BY LiveTree, HangsInside, HangsIs DEF ShowInv, LinkInv, Shown
<1>. QED  BY <1>1, <1>2, StartShows

LEMMA OpenShows ==
  ASSUME TypeInv, ShowInv, NEW h \in Handler, Open(h)
  PROVE  ShowInv'
<1>1. PICK o \in Shown : /\ view' \in {view, o}
                         /\ IF Incomplete(o) THEN Start(h, "lazy", o) ELSE UNCHANGED <<req, ops>>
                         /\ UNCHANGED <<disk, cached, heap, tree, excuses>>
  BY DEF Open
<1>2. Clean => o \in LiveObjs /\ view \in LiveObjs
  BY LiveTree, HangsInside, HangsIs DEF ShowInv, LinkInv, Shown
<1>3. CASE Incomplete(o)
  BY <1>1, <1>2, <1>3, StartShows
<1>4. CASE ~Incomplete(o)
  <2>1. req' = [req EXCEPT ![h] = req[h]]
    BY <1>1, <1>4 DEF TypeInv, ReqInv
  <2>2. Clean => req[h] = Idle \/ Steady(req[h], heap, LiveObjs)
    BY DEF ShowInv, LinkInv
  <2>3. (Clean' <=> Clean) /\ excuses' = excuses
    BY <1>1 DEF Clean
  <2>. QED  BY <1>1, <1>2, <2>1, <2>2, <2>3, QuietStep
<1>. QED  BY <1>3, <1>4

LEMMA ScanShows ==
  ASSUME TypeInv, ShowInv, NEW h \in Handler, Scan(h)
  PROVE  ShowInv'
<1>1. /\ Start(h, "scan", tree) \/ Start(h, "rescan", tree)
      /\ UNCHANGED <<disk, cached, heap, tree, view, excuses>>
  BY DEF Scan
<1>2. tree \in LiveObjs /\ (Clean => view \in LiveObjs)
  BY LiveTree, LiveShape DEF TreeShape, ShowInv, LinkInv
<1>. QED  BY <1>1, <1>2, StartShows

LEMMA UpShows ==
  ASSUME TypeInv, ShowInv, Up
  PROVE  ShowInv'
<1>1. LiveObjs' = LiveObjs
  BY LiveIs, LiveNext DEF Up
<1>2. Clean => view' \in LiveObjs
  <2>1. Clean => view \in LiveObjs
    BY DEF ShowInv, LinkInv
  <2>. QED  BY <2>1, LiveTree, LiveAncestors DEF Up
<1>3. (Clean' <=> Clean) /\ UNCHANGED <<disk, heap, tree, req, excuses>>
  BY DEF Up, Clean
<1>. QED  BY <1>1, <1>2, <1>3 DEF ShowInv, LinkInv, GoneInv, SumInv, MatchInv

LEMMA ServerAnswerShows ==
  ASSUME TypeInv, ShowInv, NEW h \in Handler, ServerAnswer(h)
  PROVE  ShowInv'
<1>1. PICK a : req' = [req EXCEPT ![h] = Answered(req[h], a)]
  BY DEF ServerAnswer, Answered
<1>2. /\ UNCHANGED <<disk, heap, tree, view, ops, excuses>> /\ req[h].pc = "asked"
  BY DEF ServerAnswer
<1>3. req[h] # Idle
  BY <1>2 DEF Idle
<1>4. Shaped(req[h])
  BY <1>3 DEF TypeInv, ReqInv, WaitOK
<1>5. PICK r : r = Answered(req[h], a)
  OBVIOUS
<1>6. r.pc = "answered" /\ r.kind = req[h].kind /\ r.node = req[h].node /\ r.old = req[h].old
  BY <1>4, <1>5, AnsweredIs
<1>7. r # Idle
  BY <1>6 DEF Idle
<1>8. Clean => Steady(r, heap, LiveObjs)
  BY <1>2, <1>3, <1>6 DEF ShowInv, LinkInv, Steady
<1>9. Doing(req[h]) => Doing(r) /\ AreaOf(r) = AreaOf(req[h])
  BY <1>2, <1>6, <1>7 DEF Doing, AreaOf
<1>10. (Clean' <=> Clean) /\ excuses' = excuses /\ (Clean => view' \in LiveObjs)
  BY <1>2 DEF Clean, ShowInv, LinkInv
<1>. QED  BY <1>1, <1>2, <1>5, <1>8, <1>9, <1>10, QuietStep

LEMMA StartRefreshShows ==
  ASSUME TypeInv, ShowInv, NEW h \in Handler, StartRefresh(h)
  PROVE  ShowInv'
<1>1. UNCHANGED <<disk, cached, heap, tree, view, ops, excuses>> /\ req[h].pc = "trashed"
  BY DEF StartRefresh
<1>2. req[h] # Idle
  BY <1>1 DEF Idle
<1>3. WaitOK(req[h], heap, ops)
  BY <1>2 DEF TypeInv, ReqInv
<1>4. PICK o : o = Refreshed(h)
  OBVIOUS
<1>5. PICK r : r = [req[h] EXCEPT !.pc = "asked", !.node = o, !.old = heap[o].v]
  OBVIOUS
<1>6. req' = [req EXCEPT ![h] = r]
  BY <1>4, <1>5 DEF StartRefresh
<1>7. r.pc = "asked" /\ r.node = o /\ r.old = heap[o].v /\ r.kind = req[h].kind
  BY <1>3, <1>5 DEF WaitOK, Shaped
<1>8. r # Idle
  BY <1>7 DEF Idle
<1>9. PICK x : x = req[h].node
  OBVIOUS
<1>10. PathOf(o) = Parent[PathOf(x)] /\ PathOf(x) # Root
  <2>1. x \in DOMAIN heap /\ PathOf(x) # Root /\ o = heap[x].par
    BY <1>1, <1>3, <1>4, <1>9 DEF WaitOK, Refreshed
  <2>. QED  BY <2>1, LinksOf DEF TypeInv, HeapInv
<1>11. Clean => o \in LiveObjs
  <2>1. Clean => x \in LiveObjs
    BY <1>2, <1>9 DEF ShowInv, LinkInv, Steady
  <2>2. o = heap[x].par
    BY <1>4, <1>9 DEF Refreshed
  <2>. QED  BY <1>10, <2>1, <2>2, LiveTree, LiveShape DEF TreeShape
<1>12. Clean => Steady(r, heap, LiveObjs)
  BY <1>7, <1>11 DEF Steady
<1>13. Doing(req[h]) => Doing(r) /\ AreaOf(r) = AreaOf(req[h])
  BY <1>1, <1>7, <1>8, <1>9, <1>10 DEF Doing, AreaOf
<1>14. (Clean' <=> Clean) /\ excuses' = excuses /\ (Clean => view' \in LiveObjs)
  BY <1>1 DEF Clean, ShowInv, LinkInv
<1>. QED  BY <1>1, <1>6, <1>12, <1>13, <1>14, QuietStep

LEMMA LoseShows ==
  ASSUME TypeInv, ShowInv, NEW h \in Handler, Lose(h)
  PROVE  ShowInv'
<1>1. /\ req[h] # Idle /\ req' = [req EXCEPT ![h] = Idle]
      /\ UNCHANGED <<disk, cached, heap, tree, view, ops>>
      /\ excuses' = IF req[h].kind = "trash" /\ req[h].pc # "act"
                    THEN excuses \cup {"lost"} ELSE excuses
  BY DEF Lose, Finish
<1>2. Clean' => ~Doing(req[h]) /\ excuses' = excuses /\ Clean
  BY <1>1 DEF Doing, Clean
<1>3. excuses' = {} => excuses = {}
  BY <1>1
<1>4. Clean => view' \in LiveObjs
  BY <1>1 DEF ShowInv, LinkInv
<1>. QED  BY <1>1, <1>2, <1>3, <1>4, QuietStep

\* What is not at or below the parent of a trashed path p still matches.
LEMMA TrashMatches ==
  ASSUME TypeInv, NEW x \in LiveObjs, NEW p, p = PathOf(x), p # Root,
         NEW y \in LiveObjs, Matches(heap, disk, y), Parent[p] \notin Above[PathOf(y)]
  PROVE  Matches(heap, disk \ Below(p), y)
<1> DEFINE S == LiveObjs
           D == disk \ Below(p)
<1>1. Tree(heap, tree, S) /\ TreeShape(heap, tree, S) /\ HeapOK(heap)
  BY LiveTree, LiveShape DEF TypeInv, HeapInv
<1>2. PICK q : q = PathOf(y)
  OBVIOUS
<1>3. p \in Path /\ q \in Path /\ x \in DOMAIN heap /\ y \in DOMAIN heap /\ disk \subseteq Path
  BY <1>1, <1>2 DEF TreeShape, TypeInv, DiskInv, Disks
<1>4. Parent[p] \in Above[p] /\ Parent[p] \in Path /\ p \in Above[p]
  BY <1>3, ParentAbove, WayFacts DEF WayUp
<1>5. ASSUME NEW e \in Path, e # Root, Parent[e] = q PROVE p \notin Above[e]
  <2>1. Above[e] = {e} \cup Above[q] /\ q \in Above[q]
    BY <1>3, <1>5, ParentAbove, WayFacts DEF WayUp
  <2>2. p \in Above[q] => Parent[p] \in Above[q]
    BY <1>3, <1>4, WayFacts DEF WayUp
  <2>. QED  BY <1>2, <1>5, <2>1, <2>2
<1>6. Entries(D, q) = Entries(disk, q)
  <2>1. \A e \in Entries(disk, q) : e \in Path /\ e # Root /\ Parent[e] = q
    BY <1>3 DEF Entries
  <2>2. \A e \in Entries(disk, q) : e \notin Below(p)
    BY <1>5, <2>1, BelowIs
  <2>. QED  BY <2>2 DEF Entries
<1>7. PICK E : E = Left(heap, disk, y)
  OBVIOUS
<1>8. Left(heap, D, y) = E /\ \A e \in E : /\ e \in Path /\ e # Root /\ Parent[e] = q
                                          /\ e \notin KidPaths(heap, y)
  BY <1>2, <1>3, <1>6, <1>7 DEF Left, Entries
<1>9. ASSUME NEW e \in E PROVE e \notin Above[p]
  <2> SUFFICES ASSUME e \in Above[p] PROVE FALSE
    OBVIOUS
  <2>1. e # p
    BY <1>4, <1>5, <1>8
  <2>2. AncestryOf(x) /\ Ancestors[x] \subseteq S
    BY <1>1, <1>3, AncestryFacts, LiveAncestors
  <2>3. PICK z \in Ancestors[x] : PathOf(z) = e
    BY <2>1, <2>2 DEF AncestryOf
  <2>4. z \in S /\ heap[z].par \in S /\ z \in heap[heap[z].par].kids /\ PathOf(heap[z].par) = q
    BY <1>1, <1>8, <2>2, <2>3 DEF TreeShape
  <2>5. heap[z].par = y
    BY <1>1, <1>2, <2>4 DEF TreeShape
  <2>. QED  BY <1>8, <2>3, <2>4, <2>5 DEF KidPaths
<1>10. ASSUME NEW e \in E PROVE TotalsOf(D)[e] = TotalsOf(disk)[e]
  <2>1. ASSUME NEW w \in Below(e), w \in Below(p) PROVE FALSE
    <3>1. w \in Path /\ e \in Above[w] /\ p \in Above[w]
      BY <2>1, BelowIs
    <3>2. e \in Above[p] \/ p \in Above[e]
      BY <3>1, WayFacts DEF WayUp
    <3>. QED  BY <1>5, <1>8, <1>9, <3>2
  <2>2. Below(e) \cap D = Below(e) \cap disk
    BY <2>1
  <2>3. TotalIn(D, e) = TotalIn(disk, e)
    BY <2>2 DEF TotalIn
  <2>. QED  BY <1>8, <2>3 DEF TotalsOf
<1>11. Sum(TotalsOf(D), E) = Sum(TotalsOf(disk), E)
  <2>1. E \in SUBSET Path
    BY <1>8
  <2>2. IsFiniteSet(E)
    BY <2>1, TotalsAreInt
  <2> HIDE DEF D
  <2>. QED  BY <1>10, <2>2, SumSame
<1> HIDE DEF D
<1>12. Matches(heap, D, y)
  BY <1>2, <1>6, <1>7, <1>8, <1>11 DEF Matches
<1>. QED  BY <1>12 DEF D

LEMMA ServerTrashShows ==
  ASSUME TypeInv, ShowInv, NEW h \in Handler, ServerTrash(h)
  PROVE  ShowInv'
<1>1. PICK x, p : x = req[h].node /\ p = PathOf(x)
  OBVIOUS
<1>2. /\ UNCHANGED <<cached, heap, tree, view, ops, excuses>> /\ req[h].pc = "act"
      /\ \/ /\ p \in disk /\ disk' = disk \ Below(p)
            /\ req' = [req EXCEPT ![h].pc = "trashed"]
         \/ req' = [req EXCEPT ![h] = Idle] /\ disk' = disk
  BY <1>1 DEF ServerTrash
<1>3. req[h] # Idle /\ ~Doing(req[h])
  BY <1>2 DEF Idle, Doing
<1>4. WaitOK(req[h], heap, ops)
  BY <1>3 DEF TypeInv, ReqInv
<1>5. (Clean' <=> Clean) /\ excuses' = excuses /\ LiveObjs' = LiveObjs
      /\ (Clean => view' \in LiveObjs)
  BY <1>2, LiveIs, LiveNext DEF Clean, ShowInv, LinkInv
<1>6. CASE req' = [req EXCEPT ![h] = Idle] /\ disk' = disk
  BY <1>2, <1>3, <1>5, <1>6, QuietStep
<1>7. CASE p \in disk /\ disk' = disk \ Below(p) /\ req' = [req EXCEPT ![h].pc = "trashed"]
  <2>1. PICK r : r = [req[h] EXCEPT !.pc = "trashed"]
    OBVIOUS
  <2>2. r.pc = "trashed" /\ r.kind = "trash" /\ r.node = x /\ p # Root /\ x \in DOMAIN heap
    BY <1>1, <1>2, <1>4, <2>1 DEF WaitOK, Shaped
  <2>3. req' = [req EXCEPT ![h] = r]
    BY <1>7, <2>1
  <2>4. /\ \A k \in Handler : req'[k] = IF k = h THEN r ELSE req[k]
        /\ \A q : Busy(req, q) => Busy(req', q)
    BY <1>3, <2>3, StillBusy DEF TypeInv, ReqInv
  <2>5. p \in Path /\ Parent[p] \in Above[p] /\ Parent[p] \in Path
        /\ Parent[p] \in Above[Parent[p]]
    <3>1. p \in Path
      BY <1>1, <2>2, LinksOf DEF TypeInv, HeapInv
    <3>. QED  BY <2>2, <3>1, ParentAbove, WayFacts DEF WayUp
  <2>6. Doing(r) /\ AreaOf(r) = Parent[p]
    BY <1>1, <2>2 DEF Doing, AreaOf, Idle
  <2>7. \A q : Parent[p] \in Above[q] => Busy(req', q)
    BY <2>4, <2>6 DEF Busy
  <2>8. LinkInv'
    <3>1. ASSUME Clean, NEW k \in Handler, req'[k] # Idle PROVE Steady(req'[k], heap, LiveObjs)
      <4>1. req[k] # Idle => Steady(req[k], heap, LiveObjs)
        BY <3>1 DEF ShowInv, LinkInv
      <4>2. CASE k = h
        BY <1>1, <1>3, <2>2, <2>4, <4>1, <4>2 DEF Steady
      <4>. QED  BY <2>4, <3>1, <4>1, <4>2
    <3>. QED  BY <1>2, <1>5, <3>1 DEF LinkInv
  <2>9. GoneInv'
    <3>1. ASSUME Clean, NEW o \in LiveObjs PROVE Excused(disk', req', PathOf(o))
      <4>1. PICK q : q = PathOf(o)
        OBVIOUS
      <4>2. q \in Path /\ Excused(disk, req, q)
        BY <3>1, <4>1, LiveTree, LiveShape DEF TreeShape, ShowInv, GoneInv
      <4>3. CASE q \in Below(p)
        <5>1. p \in Above[q]
          BY <4>3, BelowIs
        <5>2. q # Root
          BY <2>2, <5>1, RootAbove
        <5>3. Parent[p] \in Above[Parent[q]]
          <6>1. CASE q = p
            BY <2>5, <6>1
          <6>2. CASE q # p
            <7>1. Parent[q] \in Path /\ p \in Above[Parent[q]]
              BY <4>2, <5>1, <5>2, <6>2, ParentAbove
            <7>. QED  BY <2>5, <7>1, WayFacts DEF WayUp
          <6>. QED  BY <6>1, <6>2
        <5>. QED  BY <2>7, <4>1, <5>2, <5>3 DEF Excused
      <4>4. CASE q \notin Below(p)
        BY <1>7, <2>4, <4>1, <4>2, <4>4 DEF Excused
      <4>. QED  BY <4>3, <4>4
    <3>. QED  BY <1>5, <3>1 DEF GoneInv
  <2>10. SumInv'
    BY <1>2, <1>5 DEF SumInv, ShowInv
  <2>11. MatchInv'
    <3>1. ASSUME excuses = {}, NEW y \in LiveObjs
          PROVE  Matches(heap, disk', y) \/ Busy(req', PathOf(y))
      <4>1. x \in LiveObjs
        <5>1. Clean
          BY <3>1 DEF Clean
        <5>. QED  BY <1>1, <1>3, <5>1 DEF ShowInv, LinkInv, Steady
      <4>2. Matches(heap, disk, y) \/ Busy(req, PathOf(y))
        BY <3>1 DEF ShowInv, MatchInv
      <4>. QED  BY <1>1, <1>7, <2>2, <2>4, <2>7, <4>1, <4>2, TrashMatches
    <3>. QED  BY <1>2, <1>5, <3>1 DEF MatchInv
  <2>. QED  BY <2>8, <2>9, <2>10, <2>11 DEF ShowInv
<1>. QED  BY <1>2, <1>6, <1>7

-----------------------------------------------------------------------------
(* A handler that replaces objects keeps the sizes right.                  *)

\* No other handler has to do with p.
Apart(h, p) ==
  \A k \in Handler \ {h} : req[k] # Idle =>
    AreaOf(req[k]) \notin Above[p] /\ p \notin Above[AreaOf(req[k])]

LEMMA FinishFacts ==
  ASSUME TypeInv, ShowInv, NEW h \in Handler, req[h].pc = "answered",
         req[h].kind \in {"trash", "lazy"}, Replace(h), Clean',
         NEW o, o = req[h].node, NEW a, a = req[h].ans, NEW p, p = PathOf(o)
  PROVE  /\ Clean /\ o \in LiveObjs /\ p \in disk /\ p \in a.counted /\ a.counted \subseteq disk
         /\ Steady(req[h], heap, LiveObjs)
         /\ Apart(h, p) /\ o \notin Ancestors[view]
         /\ excuses' = {} \/ req[h].kind = "lazy" => excuses = {} /\ Whole(a, p, disk)
<1>1. /\ req[h] # Idle /\ o \in DOMAIN heap /\ p \in Path /\ GoodAnswer(a, p) /\ p \in Below(p)
      /\ req[h].kind \in {"trash", "lazy"}
  BY Resumed
<1>2. excuses' = excuses \cup Misses(h) \cup Tangles(h) \cup LosesView(h)
  BY DEF Replace
<1>3. Clean /\ Misses(h) \subseteq {"cut refresh"} /\ Tangles(h) \subseteq {"cut refresh"}
      /\ LosesView(h) \subseteq {"cut refresh"}
  BY <1>2 DEF Clean
<1>4. o \notin Ancestors[view]
  BY <1>3 DEF LosesView
<1>5. AreaOf(req[h]) = p
  BY DEF AreaOf
<1>6. Apart(h, p)
  BY <1>3, <1>5, AreaIs DEF Tangles, Comparable, Apart
<1>7. Steady(req[h], heap, LiveObjs) /\ o \in LiveObjs
  BY <1>1, <1>3 DEF ShowInv, LinkInv, Steady
<1>8. a.saw \cap Below(p) = disk \cap Below(p)
  BY <1>3 DEF Misses
<1>9. req[h].kind = "lazy" => a.counted = a.saw \cap Below(p) /\ excuses = {}
  BY <1>3 DEF Misses
<1>10. excuses' = {} => a.counted = a.saw \cap Below(p) /\ excuses = {}
  BY <1>1, <1>2 DEF Misses
<1>11. p \in disk
  <2> SUFFICES ASSUME p \notin disk PROVE FALSE
    OBVIOUS
  <2>1. Excused(disk, req, p)
    BY <1>3, <1>7 DEF ShowInv, GoneInv
  <2>2. PICK k \in Handler : p # Root /\ Doing(req[k]) /\ AreaOf(req[k]) \in Above[Parent[p]]
    BY <2>1 DEF Excused, Busy
  <2>3. Above[p] = {p} \cup Above[Parent[p]] /\ p \notin Above[Parent[p]]
    BY <1>1, <2>2, ParentAbove
  <2>4. k = h
    BY <1>6, <2>2, <2>3 DEF Apart, Doing
  <2>. QED  BY <1>5, <2>2, <2>3, <2>4
<1>12. p \in a.counted
  BY <1>1, <1>8, <1>11 DEF GoodAnswer
<1>13. a.counted \subseteq disk
  BY <1>1, <1>8 DEF GoodAnswer, ClosedIn
<1>14. excuses' = {} \/ req[h].kind = "lazy" => excuses = {} /\ Whole(a, p, disk)
  BY <1>8, <1>9, <1>10 DEF Whole
<1>. QED  BY <1>3, <1>4, <1>6, <1>7, <1>11, <1>12, <1>13, <1>14

\* All that is known when h, with answer a about o, has replaced what was below.
GraftStep(h, o, a, p, g, d) ==
  /\ req[h] # Idle /\ req' = [req EXCEPT ![h] = Idle] /\ UNCHANGED <<disk, tree, view>>
  /\ p = PathOf(o) /\ p \in Path /\ p \in Below(p) /\ AreaOf(req[h]) = p
  /\ GoodAnswer(a, p) /\ a.hides = {} /\ p \in a.counted /\ a.counted \subseteq disk
  /\ Clean /\ o \in LiveObjs /\ Apart(h, p) /\ o \notin Ancestors[view]
  /\ excuses' = {} => excuses = {} /\ Whole(a, p, disk)
  /\ Grafted(heap', a, g, o) /\ Fresh(heap, g)
  /\ heap'[o].v = a.v[p] /\ d \in Int /\ heap'[o].v = heap[o].v + d
  /\ \A x \in DOMAIN heap \ {o} :
       heap'[x].v = IF x \in Ancestors[o] THEN heap[x].v + d ELSE heap[x].v

\* Where an object of the new tree comes from.
Origins(o, a, p, g) ==
  /\ \A x \in LiveObjs' :
       \/ x = o
       \/ x \in LiveObjs /\ x # o /\ p \notin Above[PathOf(x)]
       \/ \E q \in ShownIn(a, p) : x = <<q, g>>
  /\ \A x \in LiveObjs : p \notin Above[PathOf(x)] \/ x = o => x \in LiveObjs'

LEMMA GraftOrigins ==
  ASSUME TypeInv, TypeInv', NEW h \in Handler, NEW o, NEW a, NEW p, NEW g, NEW d,
         GraftStep(h, o, a, p, g, d)
  PROVE  Origins(o, a, p, g)
<1>1. /\ o \in LiveObjs /\ Grafted(heap', a, g, o) /\ Fresh(heap, g) /\ tree' = tree
      /\ p = PathOf(o)
  BY DEF GraftStep
<1>2. Tree(heap, tree, LiveObjs) /\ Tree(heap', tree, LiveObjs')
  BY <1>1, LiveTree, LiveTreeNext
<1>3. /\ \A x \in LiveObjs' \cap DOMAIN heap : x \in LiveObjs /\ o \notin Ancestors[x]
      /\ \A x \in LiveObjs' \ DOMAIN heap : x \in MadeObs(a, p, g)
      /\ \A x \in LiveObjs : o \notin Ancestors[x] => x \in LiveObjs'
  BY <1>1, <1>2, GraftLive
<1>4. TreeShape(heap, tree, LiveObjs)
  BY <1>2, LiveShape
<1>5. \A x \in LiveObjs : o \in Ancestors[x] <=> p \in Above[PathOf(x)] \ {PathOf(x)}
  BY <1>1, <1>2, LiveAncestors
<1>6. \A x \in LiveObjs : PathOf(x) = p <=> x = o
  BY <1>1, <1>4 DEF TreeShape
<1>7. \A x \in LiveObjs : o \notin Ancestors[x] <=> p \notin Above[PathOf(x)] \/ x = o
  BY <1>5, <1>6
<1>8. \A x \in MadeObs(a, p, g) : \E q \in ShownIn(a, p) : x = <<q, g>>
  BY DEF MadeObs
<1>. QED  BY <1>3, <1>7, <1>8 DEF Origins

LEMMA GraftLink ==
  ASSUME TypeInv, TypeInv', ShowInv, NEW h \in Handler, NEW o, NEW a, NEW p, NEW g, NEW d,
         GraftStep(h, o, a, p, g, d)
  PROVE  LinkInv'
<1>1. Origins(o, a, p, g) /\ TreeShape(heap, tree, LiveObjs)
  BY GraftOrigins, LiveTree, LiveShape
<1>2. /\ o \in LiveObjs /\ p = PathOf(o) /\ Clean /\ Apart(h, p) /\ o \notin Ancestors[view]
      /\ view' = view
      /\ \A k \in Handler : req'[k] = IF k = h THEN Idle ELSE req[k]
  BY DEF GraftStep, TypeInv, ReqInv
<1>3. view \in LiveObjs'
  <2>1. view \in LiveObjs
    BY <1>2 DEF ShowInv, LinkInv
  <2>2. p \notin Above[PathOf(view)] \/ view = o
    BY <1>1, <1>2, <2>1, LiveTree, LiveAncestors DEF TreeShape
  <2>. QED  BY <1>1, <2>1, <2>2 DEF Origins
<1>4. ASSUME NEW k \in Handler, req'[k] # Idle PROVE Steady(req'[k], heap', LiveObjs')
  <2>1. k # h /\ req'[k] = req[k] /\ req[k] # Idle
    BY <1>2, <1>4
  <2>2. PICK r, y, n : r = req[k] /\ y = r.node /\ n = PathOf(y)
    OBVIOUS
  <2>3. Steady(r, heap, LiveObjs) /\ y \in LiveObjs /\ WaitOK(r, heap, ops)
    BY <1>2, <2>1, <2>2 DEF ShowInv, LinkInv, Steady, TypeInv, ReqInv
  <2>4. AreaOf(r) \notin Above[p] /\ p \notin Above[AreaOf(r)]
    BY <1>2, <2>1, <2>2 DEF Apart
  <2>5. n \in Path
    BY <1>1, <2>2, <2>3 DEF TreeShape
  <2>6. CASE r.pc \in {"act", "trashed"}
    <3>1. AreaOf(r) = Parent[n] /\ n # Root
      BY <2>2, <2>3, <2>6 DEF AreaOf, WaitOK
    <3>2. p \notin Above[n] \/ n = p
      BY <2>4, <2>5, <3>1, ParentAbove
    <3>3. y \in LiveObjs'
      BY <1>1, <1>2, <2>2, <2>3, <3>2 DEF Origins, TreeShape
    <3>. QED  BY <2>1, <2>2, <2>6, <3>3 DEF Steady
  <2>7. CASE r.pc \notin {"act", "trashed"}
    <3>1. n \notin Above[p] /\ p \notin Above[n]
      BY <2>2, <2>4, <2>7 DEF AreaOf
    <3>2. y \in LiveObjs'
      BY <1>1, <2>2, <2>3, <3>1 DEF Origins
    <3>3. y # o /\ y \notin Ancestors[o]
      <4>1. p \in Above[p]
        BY BelowIs DEF GraftStep
      <4>. QED  BY <1>2, <2>2, <2>3, <3>1, <4>1, LiveTree, LiveAncestors
    <3>4. heap'[y].v = heap[y].v
      BY <1>1, <2>3, <3>3 DEF GraftStep, TreeShape
    <3>. QED  BY <2>1, <2>2, <2>3, <3>2, <3>4 DEF Steady
  <2>. QED  BY <2>6, <2>7
<1>. QED  BY <1>2, <1>3, <1>4 DEF LinkInv

\* What still excuses an object of the old tree that is in the new one.
LEMMA GraftBusy ==
  ASSUME TypeInv, NEW h \in Handler, NEW o, NEW a, NEW p, NEW g, NEW d,
         GraftStep(h, o, a, p, g, d), NEW q, p \notin Above[q], Busy(req, q)
  PROVE  Busy(req', q)
<1>1. PICK k \in Handler : Doing(req[k]) /\ AreaOf(req[k]) \in Above[q]
  BY DEF Busy
<1>2. k # h
  BY <1>1 DEF GraftStep
<1>3. req'[k] = req[k]
  BY <1>2 DEF GraftStep, TypeInv, ReqInv
<1>. QED  BY <1>1, <1>3 DEF Busy

LEMMA GraftGone ==
  ASSUME TypeInv, TypeInv', ShowInv, NEW h \in Handler, NEW o, NEW a, NEW p, NEW g, NEW d,
         GraftStep(h, o, a, p, g, d)
  PROVE  GoneInv'
<1>1. Origins(o, a, p, g) /\ TreeShape(heap, tree, LiveObjs)
  BY GraftOrigins, LiveTree, LiveShape
<1>2. p = PathOf(o) /\ p \in disk /\ a.counted \subseteq disk /\ disk' = disk /\ Clean
  BY DEF GraftStep
<1>3. ASSUME NEW x \in LiveObjs' PROVE Excused(disk', req', PathOf(x))
  <2>1. CASE x = o
    BY <1>2, <2>1 DEF Excused
  <2>2. CASE x \in LiveObjs /\ p \notin Above[PathOf(x)]
    <3>1. PICK q : q = PathOf(x) /\ q \in Path /\ Excused(disk, req, q)
      BY <1>1, <1>2, <2>2 DEF ShowInv, GoneInv, TreeShape
    <3>2. q # Root => p \notin Above[Parent[q]]
      BY <2>2, <3>1, ParentAbove
    <3>3. q # Root /\ Busy(req, Parent[q]) => Busy(req', Parent[q])
      BY <3>2, GraftBusy
    <3>. QED  BY <1>2, <3>1, <3>3 DEF Excused
  <2>3. CASE \E q \in ShownIn(a, p) : x = <<q, g>>
    BY <1>2, <2>3, PairFacts DEF Excused, ShownIn
  <2>. QED  BY <1>1, <2>1, <2>2, <2>3 DEF Origins
<1>. QED  BY <1>3 DEF GoneInv

LEMMA GraftMatch ==
  ASSUME TypeInv, TypeInv', ShowInv, NEW h \in Handler, NEW o, NEW a, NEW p, NEW g, NEW d,
         GraftStep(h, o, a, p, g, d)
  PROVE  MatchInv'
<1> SUFFICES ASSUME excuses' = {}, NEW x \in LiveObjs'
             PROVE  Matches(heap', disk', x) \/ Busy(req', PathOf(x))
  BY DEF MatchInv
<1>1. Origins(o, a, p, g) /\ TreeShape(heap, tree, LiveObjs)
  BY GraftOrigins, LiveTree, LiveShape
<1>2. /\ p = PathOf(o) /\ p \in Path /\ p \in Below(p) /\ disk' = disk /\ excuses = {}
      /\ Whole(a, p, disk) /\ GoodAnswer(a, p) /\ a.hides = {} /\ disk \in Disks
      /\ Grafted(heap', a, g, o) /\ heap'[o].v = a.v[p]
  BY DEF GraftStep, TypeInv, DiskInv
<1>3. /\ HasMade(heap', a, g, o) /\ MadeFrom(heap', a, g, o, p)
      /\ \A q \in ShownIn(a, p) : MadeFrom(heap', a, g, <<q, g>>, q)
  BY <1>2, HasMadeFrom DEF Grafted
<1>4. \A q \in Below(p) : Above[q] \cap a.hides = {}
  BY <1>2
<1>5. CASE x = o
  BY <1>2, <1>3, <1>4, <1>5, MadeMatches
<1>6. CASE x \in LiveObjs /\ x # o /\ p \notin Above[PathOf(x)]
  <2>1. Matches(heap, disk, x) \/ Busy(req, PathOf(x))
    BY <1>2, <1>6 DEF ShowInv, MatchInv
  <2>2. heap'[x].kids = heap[x].kids /\ heap'[x].more = heap[x].more
    BY <1>1, <1>2, <1>6 DEF Grafted, TreeShape
  <2>3. Matches(heap, disk, x) => Matches(heap', disk, x)
    BY <2>2 DEF Matches, KidPaths, Left
  <2>. QED  BY <1>2, <1>6, <2>1, <2>3, GraftBusy
<1>7. CASE \E q \in ShownIn(a, p) : x = <<q, g>>
  <2>1. PICK q \in ShownIn(a, p) : x = <<q, g>>
    BY <1>7
  <2>2. q \in Below(p) /\ MadeFrom(heap', a, g, x, q)
    BY <1>2, <1>3, <2>1, ShownFacts
  <2>3. Matches(heap', disk, x)
    BY <1>2, <1>3, <1>4, <2>2, MadeMatches
  <2>. QED  BY <1>2, <2>3
<1>. QED  BY <1>1, <1>5, <1>6, <1>7 DEF Origins

LEMMA SizeAt ==
  /\ \A o \in DOMAIN heap : Sizes(heap)[o] = heap[o].v
  /\ \A o \in DOMAIN heap' : Sizes(heap')[o] = heap'[o].v
BY DEF Sizes

\* The kids of an object above o: one leads to o, and grows as o does.
LEMMA GraftSumOn ==
  ASSUME TypeInv, TypeInv', NEW h \in Handler, NEW o, NEW a, NEW p, NEW g, NEW d,
         GraftStep(h, o, a, p, g, d), NEW x \in LiveObjs, x \in Ancestors[o]
  PROVE  Sum(Sizes(heap'), heap[x].kids) = Sum(Sizes(heap), heap[x].kids) + d
<1> DEFINE S == LiveObjs
<1>1. Tree(heap, tree, S) /\ TreeShape(heap, tree, S) /\ HeapOK(heap)
  BY LiveTree, LiveShape DEF Tree
<1>2. /\ p = PathOf(o) /\ p \in Path /\ o \in S /\ Grafted(heap', a, g, o) /\ d \in Int
      /\ heap'[o].v = heap[o].v + d
      /\ \A y \in DOMAIN heap \ {o} :
           heap'[y].v = IF y \in Ancestors[o] THEN heap[y].v + d ELSE heap[y].v
  BY DEF GraftStep
<1>3. PICK q, K : q = PathOf(x) /\ K = heap[x].kids
  OBVIOUS
<1>4. /\ K \subseteq S /\ q \in Path /\ S \subseteq DOMAIN heap /\ DOMAIN heap \subseteq DOMAIN heap'
      /\ \A k \in K : PathOf(k) \in Path /\ PathOf(k) # Root /\ Parent[PathOf(k)] = q
  BY <1>1, <1>2, <1>3 DEF TreeShape, KidsLinked, Grafted
<1>5. \A y \in S : y \in Ancestors[o] <=> PathOf(y) \in Above[p] \ {p}
  BY <1>1, <1>2, LiveAncestors
<1>6. q \in Above[p] \ {p}
  BY <1>3, <1>5
<1>7. PICK e \in Above[p] : e # Root /\ Parent[e] = q
  BY <1>2, <1>4, <1>6, ChildToward
<1>8. PICK c \in K : PathOf(c) = e
  <2>1. ASSUME NEW c \in S, PathOf(c) = e PROVE c \in K
    <3>1. heap[c].par \in S /\ c \in heap[heap[c].par].kids /\ PathOf(heap[c].par) = q
      BY <1>1, <1>7, <2>1 DEF TreeShape
    <3>2. heap[c].par = x
      BY <1>1, <1>3, <3>1 DEF TreeShape
    <3>. QED  BY <1>3, <3>1, <3>2
  <2>2. CASE e = p
    BY <1>2, <2>1, <2>2
  <2>3. CASE e # p
    <3>1. AncestryOf(o) /\ Ancestors[o] \subseteq S
      BY <1>1, <1>2, <1>4, AncestryFacts, LiveAncestors
    <3>2. PICK z \in Ancestors[o] : PathOf(z) = e
      BY <1>2, <1>7, <2>3, <3>1 DEF AncestryOf
    <3>. QED  BY <2>1, <3>1, <3>2
  <2>. QED  BY <2>2, <2>3
<1>9. Sizes(heap')[c] = Sizes(heap)[c] + d
  <2>1. c \in S /\ c \in DOMAIN heap /\ c \in DOMAIN heap'
    BY <1>4
  <2>2. c = o \/ c \in Ancestors[o]
    <3>1. CASE e = p
      BY <1>1, <1>2, <1>8, <2>1, <3>1 DEF TreeShape
    <3>2. CASE e # p
      BY <1>5, <1>7, <1>8, <2>1, <3>2
    <3>. QED  BY <3>1, <3>2
  <2>3. heap'[c].v = heap[c].v + d
    BY <1>2, <2>1, <2>2
  <2>. QED  BY <2>1, <2>3, SizeAt
<1>10. ASSUME NEW k \in K \ {c} PROVE Sizes(heap')[k] = Sizes(heap)[k]
  <2>1. k \in S /\ k \in DOMAIN heap /\ k \in DOMAIN heap'
    BY <1>4
  <2>2. PathOf(k) \notin Above[p]
    <3>1. ASSUME PathOf(k) \in Above[p] PROVE FALSE
      <4>1. PathOf(k) = e
        BY <1>2, <1>4, <1>7, <3>1, ChildrenApart
      <4>. QED  BY <1>1, <1>4, <1>8, <2>1, <4>1 DEF TreeShape
    <3>. QED  BY <3>1
  <2>3. k # o /\ k \notin Ancestors[o]
    <3>1. p \in Above[p]
      BY <1>2, WayFacts DEF WayUp
    <3>. QED  BY <1>2, <1>5, <2>1, <2>2, <3>1
  <2>. QED  BY <1>2, <2>1, <2>3, SizeAt
<1>11. IsFiniteSet(K) /\ IntOn(Sizes(heap), K) /\ IntOn(Sizes(heap'), K)
  <2>1. \A k, l \in K : PathOf(k) = PathOf(l) => k = l
    BY <1>1, <1>4 DEF TreeShape
  <2>2. IsFiniteSet(K)
    BY <1>4, <2>1, KidsFinite
  <2>3. \A k \in K : Sizes(heap)[k] \in Int /\ Sizes(heap')[k] \in Int
    <3>1. HeapOK(heap')
      BY <1>2 DEF Grafted
    <3>2. \A k \in K : heap[k].v \in Int /\ heap'[k].v \in Int
      BY <1>1, <1>4, <3>1 DEF HeapOK, ObjType
    <3>. QED  BY <1>4, <3>2, SizeAt
  <2>. QED  BY <2>2, <2>3 DEF IntOn
<1>12. PICK R, f, f2 : R = K \ {c} /\ f = Sizes(heap) /\ f2 = Sizes(heap')
  OBVIOUS
<1>13. IsFiniteSet(R) /\ IntOn(f, R) /\ Sum(f, R) \in Int /\ f[c] \in Int
  <2>1. IsFiniteSet(R) /\ IntOn(f, R)
    BY <1>11, <1>12, FS_Subset DEF IntOn
  <2>. QED  BY <1>8, <1>11, <1>12, <2>1, SumInt DEF IntOn
<1>14. Sum(f2, R) = Sum(f, R)
  BY <1>10, <1>12, <1>13, SumSame
<1>15. Sum(f, K) = f[c] + Sum(f, K \ {c}) /\ Sum(f2, K) = f2[c] + Sum(f2, K \ {c})
  BY <1>8, <1>11, <1>12, SumRemove
<1>16. Sum(f2, K) = Sum(f, K) + d
  BY <1>2, <1>9, <1>12, <1>13, <1>14, <1>15
<1>. QED  BY <1>3, <1>12, <1>16

LEMMA GraftSumOff ==
  ASSUME TypeInv, TypeInv', NEW h \in Handler, NEW o, NEW a, NEW p, NEW g, NEW d,
         GraftStep(h, o, a, p, g, d), NEW x \in LiveObjs, x \notin Ancestors[o], x # o,
         p \notin Above[PathOf(x)]
  PROVE  Sum(Sizes(heap'), heap[x].kids) = Sum(Sizes(heap), heap[x].kids)
<1> DEFINE S == LiveObjs
<1>1. Tree(heap, tree, S) /\ TreeShape(heap, tree, S) /\ HeapOK(heap)
  BY LiveTree, LiveShape DEF Tree
<1>2. /\ p = PathOf(o) /\ p \in Path /\ o \in S /\ Grafted(heap', a, g, o)
      /\ \A y \in DOMAIN heap \ {o} :
           heap'[y].v = IF y \in Ancestors[o] THEN heap[y].v + d ELSE heap[y].v
  BY DEF GraftStep
<1>3. PICK q, K : q = PathOf(x) /\ K = heap[x].kids
  OBVIOUS
<1>4. /\ K \subseteq S /\ q \in Path /\ S \subseteq DOMAIN heap /\ DOMAIN heap \subseteq DOMAIN heap'
      /\ \A k \in K : PathOf(k) \in Path /\ PathOf(k) # Root /\ Parent[PathOf(k)] = q
  BY <1>1, <1>2, <1>3 DEF TreeShape, KidsLinked, Grafted
<1>5. \A y \in S : y \in Ancestors[o] <=> PathOf(y) \in Above[p] \ {p}
  BY <1>1, <1>2, LiveAncestors
<1>6. q \notin Above[p]
  <2>1. q # p
    <3>1. p \in Above[p]
      BY <1>2, WayFacts DEF WayUp
    <3>. QED  BY <1>3, <3>1
  <2>. QED  BY <1>3, <1>5, <2>1
<1>7. ASSUME NEW k \in K PROVE Sizes(heap')[k] = Sizes(heap)[k]
  <2>1. k \in S /\ k \in DOMAIN heap /\ k \in DOMAIN heap'
    BY <1>4
  <2>2. PathOf(k) \notin Above[p]
    <3>1. PathOf(k) \in Above[p] => q \in Above[p]
      BY <1>2, <1>4, ParentAbove, WayFacts DEF WayUp
    <3>. QED  BY <1>6, <3>1
  <2>3. k # o /\ k \notin Ancestors[o]
    <3>1. p \in Above[p]
      BY <1>2, WayFacts DEF WayUp
    <3>. QED  BY <1>2, <1>5, <2>1, <2>2, <3>1
  <2>. QED  BY <1>2, <2>1, <2>3, SizeAt
<1>8. IsFiniteSet(K)
  <2>1. \A k, l \in K : PathOf(k) = PathOf(l) => k = l
    BY <1>1, <1>4 DEF TreeShape
  <2>. QED  BY <1>4, <2>1, KidsFinite
<1>9. Sum(Sizes(heap'), K) = Sum(Sizes(heap), K)
  BY <1>7, <1>8, SumSame
<1>. QED  BY <1>3, <1>9

LEMMA LiveKids ==
  ASSUME TypeInv, NEW x \in LiveObjs
  PROVE  IsFiniteSet(heap[x].kids) /\ IntOn(Sizes(heap), heap[x].kids)
<1>1. TreeShape(heap, tree, LiveObjs) /\ HeapOK(heap)
  BY LiveTree, LiveShape DEF Tree
<1>2. heap[x].kids \subseteq LiveObjs /\ LiveObjs \subseteq DOMAIN heap
      /\ \A k \in LiveObjs : PathOf(k) \in Path
  BY <1>1 DEF TreeShape
<1>3. \A k, l \in heap[x].kids : PathOf(k) = PathOf(l) => k = l
  BY <1>1, <1>2 DEF TreeShape
<1>4. IsFiniteSet(heap[x].kids)
  BY <1>2, <1>3, KidsFinite
<1>5. \A k \in heap[x].kids : heap[k].v \in Int
  BY <1>1, <1>2 DEF HeapOK, ObjType
<1>. QED  BY <1>2, <1>4, <1>5, SizeAt DEF IntOn

LEMMA GraftSums ==
  ASSUME TypeInv, TypeInv', ShowInv, NEW h \in Handler, NEW o, NEW a, NEW p, NEW g, NEW d,
         GraftStep(h, o, a, p, g, d)
  PROVE  SumInv'
<1> SUFFICES ASSUME NEW x \in LiveObjs' PROVE Adds(heap', x)
  BY DEF SumInv
<1>1. Origins(o, a, p, g) /\ TreeShape(heap, tree, LiveObjs)
  BY GraftOrigins, LiveTree, LiveShape
<1>2. /\ p = PathOf(o) /\ p \in Path /\ p \in Below(p) /\ Clean /\ p \in a.counted
      /\ GoodAnswer(a, p) /\ a.hides = {} /\ Grafted(heap', a, g, o) /\ heap'[o].v = a.v[p]
      /\ \A y \in DOMAIN heap \ {o} :
           heap'[y].v = IF y \in Ancestors[o] THEN heap[y].v + d ELSE heap[y].v
  BY DEF GraftStep
<1>3. /\ HasMade(heap', a, g, o) /\ MadeFrom(heap', a, g, o, p)
      /\ \A q \in ShownIn(a, p) : MadeFrom(heap', a, g, <<q, g>>, q)
  BY <1>2, HasMadeFrom DEF Grafted
<1>4. \A q \in Below(p) : Above[q] \cap a.hides = {}
  BY <1>2
<1>5. CASE x = o
  BY <1>2, <1>3, <1>4, <1>5, MadeAdds
<1>6. CASE x \in LiveObjs /\ x # o /\ p \notin Above[PathOf(x)]
  <2>1. Adds(heap, x)
    BY <1>2, <1>6 DEF ShowInv, SumInv
  <2>2. heap'[x].kids = heap[x].kids /\ heap'[x].more = heap[x].more
        /\ x \in DOMAIN heap /\ x \in DOMAIN heap'
    BY <1>1, <1>2, <1>6 DEF Grafted, TreeShape
  <2>3. heap[x].v = Own[PathOf(x)] + heap[x].more + Sum(Sizes(heap), heap[x].kids)
    BY <2>1, <2>2, SizeAt DEF Adds
  <2>4. heap'[x].v = Own[PathOf(x)] + heap[x].more + Sum(Sizes(heap'), heap[x].kids)
    <3>1. CASE x \in Ancestors[o]
      <4>1. heap'[x].v = heap[x].v + d /\ d \in Int
        BY <1>2, <1>6, <2>2, <3>1 DEF GraftStep
      <4>2. Sum(Sizes(heap'), heap[x].kids) = Sum(Sizes(heap), heap[x].kids) + d
        BY <1>6, <3>1, GraftSumOn
      <4>3. Own[PathOf(x)] \in Int /\ heap[x].more \in Int /\ Sum(Sizes(heap), heap[x].kids) \in Int
        <5>1. IsFiniteSet(heap[x].kids) /\ IntOn(Sizes(heap), heap[x].kids)
          BY <1>1, <1>6, LiveKids
        <5>2. heap[x] \in ObjType /\ PathOf(x) \in Path
          BY <1>1, <1>6, <2>2 DEF TypeInv, HeapInv, HeapOK, TreeShape
        <5>. QED  BY <5>1, <5>2, SumInt, GuiTreeAssumption DEF ObjType
      <4>. QED  BY <2>3, <4>1, <4>2, <4>3
    <3>2. CASE x \notin Ancestors[o]
      <4>1. heap'[x].v = heap[x].v
        BY <1>2, <1>6, <2>2, <3>2
      <4>2. Sum(Sizes(heap'), heap[x].kids) = Sum(Sizes(heap), heap[x].kids)
        BY <1>6, <3>2, GraftSumOff
      <4>. QED  BY <2>3, <4>1, <4>2
    <3>. QED  BY <3>1, <3>2
  <2>. QED  BY <2>2, <2>4, SizeAt DEF Adds
<1>7. CASE \E q \in ShownIn(a, p) : x = <<q, g>>
  <2>1. PICK q \in ShownIn(a, p) : x = <<q, g>>
    BY <1>7
  <2>2. q \in Below(p) /\ q \in a.counted /\ MadeFrom(heap', a, g, x, q)
    BY <1>2, <1>3, <2>1, ShownFacts DEF ShownIn
  <2>. QED  BY <1>2, <1>3, <1>4, <2>2, MadeAdds
<1>. QED  BY <1>1, <1>5, <1>6, <1>7 DEF Origins

LEMMA GraftShows ==
  ASSUME TypeInv, TypeInv', ShowInv, NEW h \in Handler, NEW o, NEW a, NEW p, NEW g, NEW d,
         GraftStep(h, o, a, p, g, d)
  PROVE  ShowInv'
BY GraftLink, GraftGone, GraftSums, GraftMatch DEF ShowInv

LEMMA UncleanShows == ~Clean' => ShowInv'
<1>1. excuses' = {} => Clean'
  BY DEF Clean
<1>. QED  BY <1>1 DEF ShowInv, LinkInv, GoneInv, SumInv, MatchInv

LEMMA RefreshShows ==
  ASSUME TypeInv, TypeInv', ShowInv, NEW h \in Handler, FinishRefresh(h)
  PROVE  ShowInv'
<1>1. PICK o, a, p, g, t : /\ o = req[h].node /\ a = req[h].ans /\ p = PathOf(o) /\ g = req[h].g
                           /\ t = NewTotal(h)
  OBVIOUS
<1>2. req[h].pc = "answered" /\ req[h].kind = "trash" /\ Replace(h) /\ t = a.v[p]
  BY <1>1 DEF FinishRefresh, Resume, NewTotal
<1>3. CASE ~Clean'
  BY <1>3, UncleanShows
<1>4. CASE Clean'
  <2>1. /\ Clean /\ o \in LiveObjs /\ p \in disk /\ p \in a.counted /\ a.counted \subseteq disk
        /\ Steady(req[h], heap, LiveObjs)
        /\ Apart(h, p) /\ o \notin Ancestors[view]
        /\ excuses' = {} => excuses = {} /\ Whole(a, p, disk)
    BY <1>1, <1>2, <1>4, FinishFacts
  <2>2. /\ req[h] # Idle /\ o \in DOMAIN heap /\ p \in Path /\ GoodAnswer(a, p) /\ p \in Below(p)
        /\ Fresh(heap, g) /\ a.hides = {} /\ t \in Nat /\ HeapOK(heap)
    BY <1>1, <1>2, Resumed
  <2>3. /\ Grafted(heap', a, g, o) /\ heap'[o].v = t
        /\ \A x \in DOMAIN heap \ {o} :
             heap'[x].v = IF x \in Ancestors[o] THEN heap[x].v + t - req[h].old ELSE heap[x].v
    BY <1>1, RefreshIs
  <2>4. req[h].old = heap[o].v /\ AreaOf(req[h]) = p
    BY <1>1, <1>2, <2>1 DEF Steady, AreaOf
  <2>5. \A x \in DOMAIN heap : heap[x].v \in Int
    BY <2>2 DEF HeapOK, ObjType
  <2>6. PICK d \in Int : d = t - heap[o].v
    BY <2>2, <2>5
  <2>7. /\ heap'[o].v = heap[o].v + d
        /\ \A x \in DOMAIN heap \ {o} :
             heap'[x].v = IF x \in Ancestors[o] THEN heap[x].v + d ELSE heap[x].v
    BY <2>2, <2>3, <2>4, <2>5, <2>6
  <2>8. req' = [req EXCEPT ![h] = Idle] /\ UNCHANGED <<disk, tree, view>>
    BY <1>2 DEF Replace, Finish
  <2>9. GraftStep(h, o, a, p, g, d)
    BY <1>1, <1>2, <2>1, <2>2, <2>3, <2>4, <2>6, <2>7, <2>8 DEF GraftStep
  <2>. QED  BY <2>9, GraftShows
<1>. QED  BY <1>3, <1>4

\* What hangs below an object depends on the links alone.
LEMMA SameHangs ==
  ASSUME NEW H, HeapOK(H), NEW J, HeapOK(J), DOMAIN J = DOMAIN H,
         \A x \in DOMAIN H : J[x].par = H[x].par /\ J[x].kids = H[x].kids, NEW top
  PROVE  HangsIn(J, top) \subseteq HangsIn(H, top)
<1>1. /\ HangsIn(H, top) \subseteq DOMAIN H
      /\ \A o \in DOMAIN H : o \in HangsIn(H, top) <=> (o = top \/ HangsFrom(H, o, HangsIn(H, top)))
  BY HangsAt
<1>2. /\ HangsIn(J, top) \subseteq DOMAIN H
      /\ \A o \in DOMAIN H : o \in HangsIn(J, top) <=> (o = top \/ HangsFrom(J, o, HangsIn(J, top)))
  BY HangsAt
<1> DEFINE Bad == {o \in HangsIn(J, top) : o \notin HangsIn(H, top)}
<1>3. ASSUME NEW o \in DOMAIN H, PathOf(o) = Root \/ H[o].par \notin Bad PROVE o \notin Bad
  <2> SUFFICES ASSUME o \in HangsIn(J, top), o # top PROVE o \in HangsIn(H, top)
    BY <1>1
  <2>1. PICK u : u = H[o].par /\ u # NoObj /\ u \in DOMAIN H /\ o \in H[u].kids
                 /\ u \in HangsIn(J, top)
    BY <1>2, LinksOf DEF HangsFrom
  <2>2. u \in HangsIn(H, top)
    BY <1>3, <2>1, LinksOf
  <2>. QED  BY <1>1, <2>1, <2>2 DEF HangsFrom
<1>4. Bad = {}
  <2>1. Bad \in SUBSET DOMAIN H
    BY <1>2
  <2> HIDE DEF Bad
  <2>2. \A o \in DOMAIN H : PathOf(o) = Root \/ H[o].par \notin Bad => o \notin Bad
    BY <1>3
  <2>. QED  BY <2>1, <2>2, HeapDown
<1>. QED  BY <1>4

\* An answer without entries leaves the tree as it was.
LEMMA EmptyShows ==
  ASSUME TypeInv, TypeInv', ShowInv, NEW h \in Handler, ~Doing(req[h]),
         req' = [req EXCEPT ![h] = Idle], UNCHANGED <<disk, tree, view>>, excuses \subseteq excuses',
         DOMAIN heap' = DOMAIN heap,
         \A x \in DOMAIN heap : /\ heap'[x].v = heap[x].v /\ heap'[x].par = heap[x].par
                                /\ heap'[x].kids = heap[x].kids /\ heap'[x].more = heap[x].more
  PROVE  ShowInv'
<1>1. HeapOK(heap) /\ HeapOK(heap')
  BY DEF TypeInv, HeapInv
<1>2. PICK H, J : H = heap /\ J = heap'
  OBVIOUS
<1>3. HangsIn(J, tree) \subseteq HangsIn(H, tree) /\ HangsIn(H, tree) \subseteq HangsIn(J, tree)
  BY <1>1, <1>2, SameHangs
<1>4. LiveObjs' = LiveObjs
  BY <1>2, <1>3, LiveIs, LiveNext
<1>5. LiveObjs \subseteq DOMAIN heap
  BY LiveTree, LiveShape DEF TreeShape
<1>6. Sizes(heap') = Sizes(heap)
  BY Zenon DEF Sizes
<1>7. (Clean' => Clean) /\ (excuses' = {} => excuses = {})
  BY DEF Clean
<1>8. /\ \A q : Busy(req, q) => Busy(req', q)
      /\ \A q : Excused(disk, req, q) => Excused(disk, req', q)
  BY StillBusy DEF TypeInv
<1>9. \A k \in Handler : req'[k] = IF k = h THEN Idle ELSE req[k]
  BY DEF TypeInv, ReqInv
<1>10. LinkInv'
  <2>1. ASSUME Clean, NEW k \in Handler, req'[k] # Idle PROVE Steady(req'[k], heap', LiveObjs)
    <3>1. req'[k] = req[k] /\ Steady(req[k], heap, LiveObjs)
      BY <1>9, <2>1 DEF ShowInv, LinkInv
    <3>. QED  BY <1>5, <3>1 DEF Steady
  <2>. QED  BY <1>4, <1>7, <2>1 DEF LinkInv, ShowInv
<1>11. GoneInv'
  BY <1>4, <1>7, <1>8 DEF GoneInv, ShowInv
<1>12. SumInv'
  BY <1>4, <1>5, <1>6, <1>7 DEF SumInv, ShowInv, Adds
<1>13. MatchInv'
  BY <1>4, <1>5, <1>7, <1>8 DEF MatchInv, ShowInv, Matches, KidPaths, Left
<1>. QED  BY <1>10, <1>11, <1>12, <1>13 DEF ShowInv

LEMMA LazyShows ==
  ASSUME TypeInv, TypeInv', ShowInv, NEW h \in Handler, FinishLazy(h)
  PROVE  ShowInv'
<1>1. PICK o, a, p, g : o = req[h].node /\ a = req[h].ans /\ p = PathOf(o) /\ g = req[h].g
  OBVIOUS
<1>2. req[h].pc = "answered" /\ req[h].kind = "lazy" /\ Replace(h)
  BY DEF FinishLazy, Resume
<1>3. CASE ~Clean'
  BY <1>3, UncleanShows
<1>4. CASE Clean'
  <2>1. /\ Clean /\ o \in LiveObjs /\ p \in disk /\ p \in a.counted /\ a.counted \subseteq disk
        /\ Apart(h, p) /\ o \notin Ancestors[view] /\ excuses = {} /\ Whole(a, p, disk)
    BY <1>1, <1>2, <1>4, FinishFacts
  <2>2. /\ req[h] # Idle /\ o \in DOMAIN heap /\ p \in Path /\ GoodAnswer(a, p) /\ p \in Below(p)
        /\ Fresh(heap, g) /\ a.hides = {} /\ HeapOK(heap)
    BY <1>1, <1>2, Resumed
  <2>3. /\ \A x \in DOMAIN heap : heap'[x].v = heap[x].v
        /\ \/ Grafted(heap', a, g, o)
           \/ /\ DOMAIN heap' = DOMAIN heap
              /\ \A x \in DOMAIN heap : /\ heap'[x].par = heap[x].par /\ heap'[x].kids = heap[x].kids
                                        /\ heap'[x].more = heap[x].more
    BY <1>1, LazyIs
  <2>4. AreaOf(req[h]) = p /\ ~Doing(req[h])
    BY <1>1, <1>2 DEF AreaOf, Doing
  <2>5. req' = [req EXCEPT ![h] = Idle] /\ UNCHANGED <<disk, tree, view>> /\ excuses \subseteq excuses'
    BY <1>2 DEF Replace, Finish
  <2>6. CASE Grafted(heap', a, g, o)
    <3>1. ASSUME NEW k \in Handler, Doing(req[k]), NEW q \in Below(p), AreaOf(req[k]) \in Above[q]
          PROVE  FALSE
      <4>1. k # h /\ req[k] # Idle
        BY <2>4, <3>1 DEF Doing
      <4>2. q \in Path /\ p \in Above[q]
        BY BelowIs
      <4>3. AreaOf(req[k]) \in Above[p] \/ p \in Above[AreaOf(req[k])]
        BY <3>1, <4>2, WayFacts DEF WayUp
      <4>. QED  BY <2>1, <4>1, <4>3 DEF Apart
    <3>2. heap[o].v = TotalIn(disk, PathOf(o))
      BY <1>1, <2>1, <2>2, <3>1, SubtreeIsDisk
    <3>3. a.v[p] = TotalIn(disk, p)
      BY <2>1, <2>2, WholeTotals
    <3>4. \A x \in DOMAIN heap : heap[x].v \in Int
      BY <2>2 DEF HeapOK, ObjType
    <3>5. /\ heap'[o].v = a.v[p] /\ heap'[o].v = heap[o].v + 0
          /\ \A x \in DOMAIN heap \ {o} :
               heap'[x].v = IF x \in Ancestors[o] THEN heap[x].v + 0 ELSE heap[x].v
      BY <1>1, <2>2, <2>3, <3>2, <3>3, <3>4
    <3>6. GraftStep(h, o, a, p, g, 0)
      BY <1>1, <2>1, <2>2, <2>4, <2>5, <2>6, <3>5 DEF GraftStep
    <3>. QED  BY <3>6, GraftShows
  <2>7. CASE ~Grafted(heap', a, g, o)
    BY <2>3, <2>4, <2>5, <2>7, EmptyShows
  <2>. QED  BY <2>6, <2>7
<1>. QED  BY <1>3, <1>4

\* The tree of an answer that shows the whole disk.
LEMMA LoadedShows ==
  ASSUME NEW H, NEW a, NEW g, NEW top, top = <<Root, g>>, HeapOK(H),
         DOMAIN H = {top} \cup MadeObs(a, Root, g), HasMade(H, a, g, top), H[top].v = a.v[Root],
         GoodAnswer(a, Root), NEW D \in Disks, Whole(a, Root, D)
  PROVE  \A x \in DOMAIN H : Adds(H, x) /\ Matches(H, D, x) /\ PathOf(x) \in D
<1>1. Root \in Path /\ Root \in Below(Root) /\ Above[Root] \cap a.hides = {} /\ PathOf(top) = Root
      /\ Root \in D
  BY BelowIs, WayFacts, PairFacts, GuiTreeAssumption DEF WayUp, GoodAnswer, Disks
<1>2. Root \in a.counted /\ a.counted \subseteq D
  BY <1>1 DEF Whole
<1>3. MadeFrom(H, a, g, top, Root) /\ \A q \in ShownIn(a, Root) : MadeFrom(H, a, g, <<q, g>>, q)
  BY <1>1, HasMadeFrom
<1>4. Adds(H, top) /\ Matches(H, D, top) /\ PathOf(top) \in D
  BY <1>1, <1>2, <1>3, MadeAdds, MadeMatches
<1>5. ASSUME NEW q \in ShownIn(a, Root), NEW x, x = <<q, g>>
      PROVE  Adds(H, x) /\ Matches(H, D, x) /\ PathOf(x) \in D
  <2>1. q \in Below(Root) /\ q \in a.counted /\ Above[q] \cap a.hides = {} /\ MadeFrom(H, a, g, x, q)
    BY <1>1, <1>3, <1>5, ShownFacts DEF ShownIn
  <2>2. Adds(H, x)
    BY <1>1, <2>1, MadeAdds
  <2>3. Matches(H, D, x)
    BY <1>1, <2>1, MadeMatches
  <2>. QED  BY <1>2, <1>5, <2>1, <2>2, <2>3, PairFacts
<1>6. \A x \in MadeObs(a, Root, g) : \E q \in ShownIn(a, Root) : x = <<q, g>>
  BY DEF MadeObs
<1>. QED  BY <1>4, <1>5, <1>6

LEMMA FinishScanShows ==
  ASSUME TypeInv, TypeInv', ShowInv, NEW h \in Handler, FinishScan(h)
  PROVE  ShowInv'
<1>1. PICK a, g, top, kept : /\ a = req[h].ans /\ g = req[h].g /\ top = <<Root, g>>
                             /\ kept = Kept(h)
  OBVIOUS
<1>2. /\ tree' = top /\ view' = top /\ HeapOK(heap') /\ HasMade(heap', a, g, top)
      /\ DOMAIN heap' = kept \cup {top} \cup MadeObs(a, Root, g)
      /\ heap'[top].v = a.v[Root] /\ GoodAnswer(a, Root) /\ PathOf(req[h].node) = Root
  BY <1>1, ScanIs
<1>3. /\ req[h].pc = "answered" /\ req[h].kind \in {"scan", "rescan"}
      /\ req' = [req EXCEPT ![h] = Idle] /\ disk' = disk
      /\ excuses' = Misses(h) \cup Tangles(h)
  BY DEF FinishScan, Resume, Finish
<1>4. CASE ~Clean'
  BY <1>4, UncleanShows
<1>5. CASE Clean'
  <2>1. Misses(h) \subseteq {"cut refresh"} /\ Tangles(h) \subseteq {"cut refresh"}
    BY <1>3, <1>5 DEF Clean
  <2>2. Whole(a, Root, disk)
    BY <1>1, <1>2, <1>3, <2>1 DEF Misses, Whole
  <2>3. \A k \in Handler \ {h} : req[k] = Idle
    <3>1. ASSUME NEW k \in Handler \ {h}, req[k] # Idle PROVE FALSE
      <4>1. Area(h) = Root
        BY <1>2, <1>3 DEF Area
      <4>2. Area(k) \in Path
        <5>1. PICK r, x, q : r = req[k] /\ x = r.node /\ q = PathOf(x)
          OBVIOUS
        <5>2. WaitOK(r, heap, ops) /\ HeapOK(heap)
          BY <3>1, <5>1 DEF TypeInv, ReqInv, HeapInv
        <5>3. q \in Path
          BY <5>1, <5>2, LinksOf DEF WaitOK
        <5>4. Area(k) = AreaOf(r)
          BY <5>1, AreaIs
        <5>5. Parent[q] \in Path
          BY <5>3, GuiTreeAssumption
        <5>. QED  BY <5>1, <5>3, <5>4, <5>5 DEF AreaOf
      <4>3. Comparable(Area(h), Area(k))
        BY <4>1, <4>2, WayFacts DEF Comparable, WayUp
      <4>. QED  BY <2>1, <3>1, <4>3 DEF Tangles
    <3>. QED  BY <3>1
  <2>4. kept = {} /\ DOMAIN heap' = {top} \cup MadeObs(a, Root, g)
    BY <1>1, <1>2, <2>3 DEF Kept
  <2>5. \A x \in DOMAIN heap' : Adds(heap', x) /\ Matches(heap', disk, x) /\ PathOf(x) \in disk
    <3>1. disk \in Disks
      BY DEF TypeInv, DiskInv
    <3>2. PICK H : H = heap'
      OBVIOUS
    <3>. QED  BY <1>1, <1>2, <2>2, <2>4, <3>1, <3>2, LoadedShows
  <2>6. TreeShape(heap', tree', LiveObjs')
    BY LiveTreeNext, LiveShape
  <2>7. LiveObjs' \subseteq DOMAIN heap' /\ view' \in LiveObjs'
    BY <1>2, <2>6 DEF TreeShape
  <2>8. \A k \in Handler : req'[k] = Idle
    BY <1>3, <2>3 DEF TypeInv, ReqInv
  <2>9. LinkInv'
    BY <2>7, <2>8 DEF LinkInv
  <2>10. GoneInv'
    BY <1>3, <2>5, <2>7 DEF GoneInv, Excused
  <2>11. SumInv' /\ MatchInv'
    BY <1>3, <2>5, <2>7 DEF SumInv, MatchInv
  <2>. QED  BY <2>9, <2>10, <2>11 DEF ShowInv
<1>. QED  BY <1>4, <1>5

LEMMA ShowInit == Init => ShowInv
<1> SUFFICES ASSUME Init PROVE ShowInv
  OBVIOUS
<1>1. PICK a : a = Answer(Path, Root, NoLimit, Hidden) /\ GoodAnswer(a, Root) /\ heap = Loaded(a, 0)
  BY InitHeap
<1>2. PICK top : top = <<Root, 0>> /\ tree = top /\ view = top
  BY DEF Init
<1>3. /\ TypeInv /\ disk = Path /\ disk \in Disks /\ \A h \in Handler : req[h] = Idle
  BY TypeInit DEF Init, TypeInv, DiskInv
<1>4. /\ DOMAIN heap = {top} \cup MadeObs(a, Root, 0) /\ heap[top].v = a.v[Root]
      /\ HasMade(heap, a, 0, top) /\ HeapOK(heap)
  BY <1>1, <1>2, LoadedIs, GuiTreeAssumption
<1>5. Whole(a, Root, disk)
  <2>1. a.counted = Path \cap Within(Root, NoLimit)
    BY <1>1 DEF Answer, Counted
  <2>2. ASSUME NEW q \in Below(Root) PROVE q \in Within(Root, NoLimit)
    <3>1. q \in Path /\ Above[q] \subseteq Path
      BY BelowIs, WayFacts DEF WayUp
    <3>2. Cardinality(Above[q]) <= Cardinality(Path) /\ Cardinality(Above[q]) \in Nat
          /\ Cardinality(Path) \in Nat /\ Cardinality(Above[Root]) \in Nat
      BY <3>1, FS_Subset, FS_CardinalityType, AboveLevel, GuiTreeAssumption
    <3>3. Cardinality(Above[q]) - Cardinality(Above[Root]) < Cardinality(Path) + 1
      BY <3>2
    <3>. QED  BY <3>3 DEF Within, NoLimit
  <2>3. Within(Root, NoLimit) = Below(Root)
    BY <2>2 DEF Within
  <2>. QED  BY <1>3, <2>1, <2>3 DEF Whole
<1>6. \A x \in DOMAIN heap : Adds(heap, x) /\ Matches(heap, disk, x) /\ PathOf(x) \in disk
  <2>1. PICK H : H = heap
    OBVIOUS
  <2>. QED  BY <1>1, <1>2, <1>3, <1>4, <1>5, <2>1, LoadedShows
<1>7. TreeShape(heap, tree, LiveObjs)
  BY <1>3, LiveTree, LiveShape
<1>. QED  BY <1>2, <1>3, <1>6, <1>7
         DEF ShowInv, LinkInv, GoneInv, SumInv, MatchInv, TreeShape, Excused

LEMMA ShowStep == TypeInv /\ TypeInv' /\ ShowInv /\ [Next]_vars => ShowInv'
<1> SUFFICES ASSUME TypeInv, TypeInv', ShowInv, [Next]_vars PROVE ShowInv'
  OBVIOUS
<1>1. CASE UNCHANGED vars
  <2>1. LiveObjs' = LiveObjs
    BY <1>1, LiveIs, LiveNext DEF vars
  <2>. QED  BY <1>1, <2>1 DEF vars, ShowInv, LinkInv, GoneInv, SumInv, MatchInv, Clean
<1>2. CASE Up
  BY <1>2, UpShows
<1>3. CASE \E h \in Handler : HandlerStep(h)
  BY <1>3, TrashShows, OpenShows, ScanShows, ServerTrashShows, ServerAnswerShows,
     StartRefreshShows, RefreshShows, LazyShows, FinishScanShows, LoseShows DEF HandlerStep
<1>. QED  BY <1>1, <1>2, <1>3 DEF Next

LEMMA SumsAgreeHolds == TypeInv /\ ShowInv => SumsAgree
<1> SUFFICES ASSUME TypeInv, ShowInv PROVE SumsAgree
  OBVIOUS
<1> DEFINE size == [o \in DOMAIN heap |-> heap[o].v]
<1>1. size = Sizes(heap)
  BY Zenon DEF Sizes
<1>2. \A o : SumOf(LAMBDA k : size[k], heap[o].kids) = Sum(size, heap[o].kids)
  BY Zenon DEF SumOf, Sum
<1> HIDE DEF size
<1>3. Clean => \A o \in LiveObjs :
        size[o] = Own[PathOf(o)] + heap[o].more + SumOf(LAMBDA k : size[k], heap[o].kids)
  BY <1>1, <1>2 DEF ShowInv, SumInv, Adds
<1>. QED  BY <1>3, Zenon DEF SumsAgree, Clean, size

LEMMA ShownIsDiskHolds == TypeInv /\ ShowInv => ShownIsDisk
<1> SUFFICES ASSUME TypeInv, ShowInv, excuses = {}, \A h \in Handler : req[h] = Idle,
                    NEW o \in LiveObjs
             PROVE  heap[o].v = SumOf(LAMBDA q : Own[q], Below(PathOf(o)) \cap disk)
  BY DEF ShownIsDisk
<1>1. \A k \in Handler : ~Doing(req[k])
  BY DEF Doing
<1>2. PathOf(o) \in Below(Root) /\ Root \in Path
  BY LiveTree, LiveShape, BelowIs, WayFacts, GuiTreeAssumption DEF TreeShape, WayUp
<1>3. heap[o].v = TotalIn(disk, PathOf(o))
  BY <1>1, <1>2, SubtreeIsDisk
<1>. QED  BY <1>3, Zenon DEF TotalIn, Sum, SumOf

-----------------------------------------------------------------------------

LEMMA GuiInduction == Spec => [](TypeInv /\ ShowInv)
<1>1. Init => TypeInv /\ ShowInv
  BY TypeInit, ShowInit
<1>2. TypeInv /\ ShowInv /\ [Next]_vars => TypeInv' /\ ShowInv'
  BY TypeStep, ShowStep
<1>. QED  BY <1>1, <1>2, PTL DEF Spec

(***************************************************************************)
(* Every answer, stale or cut, leaves the objects of app.html typed: each  *)
(* names objects that exist, and each waiting handler one of them.         *)
(***************************************************************************)
THEOREM GuiTypeCorrect == Spec => []TypeOK
BY GuiInduction, TypeOKHolds, PTL

(***************************************************************************)
(* However requests overlap, TREE is a tree: what refreshSubtree, lazyLoad *)
(* and loadScan link is linked back, and no name stands twice in a folder. *)
(***************************************************************************)
THEOREM GuiStaysATree == Spec => []WellFormed
BY GuiInduction, WellFormedHolds, PTL

(***************************************************************************)
(* The delta that refreshSubtree folds up by _p (app.html:194) keeps every *)
(* folder the sum of what it shows, in the middle of other requests too.   *)
(***************************************************************************)
THEOREM SizesAddUp == Spec => []SumsAgree
BY GuiInduction, SumsAgreeHolds, PTL

(***************************************************************************)
(* With nothing under way and no excuse, each folder shows exactly what    *)
(* the disk holds below it.                                                *)
(***************************************************************************)
THEOREM ShownSizesAreTheDisks == Spec => []ShownIsDisk
BY GuiInduction, ShownIsDiskHolds, PTL

=============================================================================
