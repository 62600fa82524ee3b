----------------------------- MODULE DataLemmas -----------------------------
(***************************************************************************)
(* Facts about sequences without repetition, such as the deques of a scan  *)
(* and the order of a cache, and about sums over finite sets, such as the  *)
(* total of an arena, that the proofs of several components rest on.  A    *)
(* sum is a recursive function on the subsets of a set, so each fact about *)
(* sums is proved by looking at a smallest set for which it fails.         *)
(***************************************************************************)
EXTENDS Integers, SequencesExt, SequenceTheorems, FunctionTheorems, FiniteSetTheorems, TLAPS

-----------------------------------------------------------------------------
(* Sequences without repetition.                                           *)

(***************************************************************************)
(* Taking an element off either end of a sequence leaves a sequence.       *)
(***************************************************************************)
LEMMA EndsOfSeq ==
  ASSUME NEW S, NEW s \in Seq(S), s # <<>>
  PROVE  /\ Front(s) \in Seq(S) /\ Last(s) \in S
         /\ Tail(s) \in Seq(S) /\ Head(s) \in S
<1>1. Len(s) \in Nat \ {0} /\ DOMAIN s = 1 .. Len(s)
  BY EmptySeq, LenProperties
<1>2. Front(s) \in Seq(S)
  <2>1. \A i \in 1 .. Len(s) - 1 : s[i] \in S
    BY <1>1, ElementOfSeq
  <2>2. SubSeq(s, 1, Len(s) - 1) \in Seq(S)
    BY <1>1, <2>1, SubSeqProperties
  <2>. QED  BY <2>2 DEF Front
<1>3. Last(s) \in S
  BY <1>1, ElementOfSeq DEF Last
<1>4. QED  BY <1>2, <1>3, HeadTailProperties

LEMMA ToSetOfSeq ==
  ASSUME NEW S, NEW s \in Seq(S)
  PROVE  /\ ToSet(s) = {s[i] : i \in 1 .. Len(s)} /\ ToSet(s) \subseteq S
         /\ Len(s) \in Nat /\ DOMAIN s = 1 .. Len(s)
         /\ s = <<>> => ToSet(s) = {}
         /\ s # <<>> => Len(s) # 0
BY LenProperties, EmptySeq DEF ToSet

\* Taking an element off either end takes it out of the set.
LEMMA TakeAnEnd ==
  ASSUME NEW S, NEW s \in Seq(S), s # <<>>, IsInjective(s)
  PROVE  /\ IsInjective(Front(s)) /\ ToSet(Front(s)) = ToSet(s) \ {Last(s)}
         /\ IsInjective(Tail(s)) /\ ToSet(Tail(s)) = ToSet(s) \ {Head(s)}
         /\ Last(s) \in ToSet(s) /\ Head(s) \in ToSet(s)
<1>1. /\ Len(s) \in Nat \ {0} /\ DOMAIN s = 1 .. Len(s)
      /\ ToSet(s) = {s[i] : i \in 1 .. Len(s)}
  BY ToSetOfSeq
<1>2. \A i, j \in 1 .. Len(s) : s[i] = s[j] => i = j
  BY <1>1 DEF IsInjective
<1>3. Last(s) = s[Len(s)] /\ Head(s) = s[1]
  BY <1>1 DEF Last
<1>4. Last(s) \in ToSet(s) /\ Head(s) \in ToSet(s)
  BY <1>1, <1>3
<1>5. /\ Front(s) \in Seq(S) /\ Len(Front(s)) = Len(s) - 1
      /\ \A i \in 1 .. Len(s) - 1 : Front(s)[i] = s[i]
  <2>1. \A i \in 1 .. Len(s) - 1 : s[i] \in S
    BY <1>1, ElementOfSeq
  <2>. QED  BY <1>1, <2>1, SubSeqProperties DEF Front
<1>6. /\ Tail(s) \in Seq(S) /\ Len(Tail(s)) = Len(s) - 1
      /\ \A i \in 1 .. Len(s) - 1 : Tail(s)[i] = s[i + 1]
  BY HeadTailProperties
<1>7. IsInjective(Front(s)) /\ ToSet(Front(s)) = ToSet(s) \ {Last(s)}
  <2>1. DOMAIN Front(s) = 1 .. Len(s) - 1
    BY <1>5, ToSetOfSeq
  <2>2. IsInjective(Front(s))
    BY <1>1, <1>2, <1>5, <2>1 DEF IsInjective
  <2>3. ASSUME NEW x, x \in ToSet(s), x # Last(s) PROVE x \in ToSet(Front(s))
    <3>1. PICK i \in 1 .. Len(s) : x = s[i]
      BY <1>1, <2>3
    <3>2. i \in 1 .. Len(s) - 1
      BY <1>1, <1>3, <2>3, <3>1
    <3>. QED  BY <1>5, <2>1, <3>1, <3>2 DEF ToSet
  <2>4. ASSUME NEW x, x \in ToSet(Front(s)) PROVE x \in ToSet(s) /\ x # Last(s)
    <3>1. PICK i \in 1 .. Len(s) - 1 : x = s[i]
      BY <1>5, <2>1, <2>4 DEF ToSet
    <3>2. Len(s) \in Nat \ {0}
      BY <1>1
    <3>3. i \in 1 .. Len(s) /\ Len(s) \in 1 .. Len(s) /\ i # Len(s)
      BY <3>2
    <3>. QED  BY <1>1, <1>2, <1>3, <3>1, <3>3
  <2>. QED  BY <2>2, <2>3, <2>4
<1>8. IsInjective(Tail(s)) /\ ToSet(Tail(s)) = ToSet(s) \ {Head(s)}
  <2>1. DOMAIN Tail(s) = 1 .. Len(s) - 1
    BY <1>6, ToSetOfSeq
  <2>2. IsInjective(Tail(s))
    <3>1. \A i \in 1 .. Len(s) - 1 : i + 1 \in 1 .. Len(s)
      BY <1>1
    <3>. QED  BY <1>1, <1>2, <1>6, <2>1, <3>1 DEF IsInjective
  <2>3. ASSUME NEW x, x \in ToSet(s), x # Head(s) PROVE x \in ToSet(Tail(s))
    <3>1. PICK i \in 1 .. Len(s) : x = s[i]
      BY <1>1, <2>3
    <3>2. i - 1 \in 1 .. Len(s) - 1 /\ (i - 1) + 1 = i
      BY <1>1, <1>3, <2>3, <3>1
    <3>. QED  BY <1>6, <2>1, <3>1, <3>2 DEF ToSet
  <2>4. ASSUME NEW x, x \in ToSet(Tail(s)) PROVE x \in ToSet(s) /\ x # Head(s)
    <3>1. PICK i \in 1 .. Len(s) - 1 : x = s[i + 1]
      BY <1>6, <2>1, <2>4 DEF ToSet
    <3>2. i + 1 \in 1 .. Len(s) /\ i + 1 # 1 /\ 1 \in 1 .. Len(s)
      BY <1>1, <3>1
    <3>. QED  BY <1>1, <1>2, <1>3, <3>1, <3>2
  <2>. QED  BY <2>2, <2>3, <2>4
<1>. QED  BY <1>4, <1>7, <1>8

LEMMA JoinApart ==
  ASSUME NEW S, NEW s \in Seq(S), NEW q \in Seq(S)
  PROVE  /\ ToSet(s \o q) = ToSet(s) \cup ToSet(q)
         /\ IsInjective(s) /\ IsInjective(q) /\ ToSet(s) \cap ToSet(q) = {}
              => IsInjective(s \o q)
<1> DEFINE c == s \o q
<1>1. /\ c \in Seq(S) /\ Len(c) = Len(s) + Len(q)
      /\ \A i \in 1 .. Len(s) + Len(q) : c[i] = IF i <= Len(s) THEN s[i] ELSE q[i - Len(s)]
  BY ConcatProperties
<1>2. /\ Len(s) \in Nat /\ Len(q) \in Nat
      /\ DOMAIN c = 1 .. Len(s) + Len(q)
      /\ DOMAIN s = 1 .. Len(s) /\ DOMAIN q = 1 .. Len(q)
  BY <1>1, ToSetOfSeq
<1> HIDE DEF c
<1>3. \A i \in 1 .. Len(s) : i \in DOMAIN c /\ c[i] = s[i]
  BY <1>1, <1>2
<1>4. \A i \in 1 .. Len(q) : i + Len(s) \in DOMAIN c /\ c[i + Len(s)] = q[i]
  BY <1>1, <1>2
<1>5. \A i \in DOMAIN c : \/ i \in 1 .. Len(s)
                          \/ i - Len(s) \in 1 .. Len(q) /\ i = (i - Len(s)) + Len(s)
  BY <1>2
<1>6. ToSet(c) = ToSet(s) \cup ToSet(q)
  <2>1. ToSet(c) \subseteq ToSet(s) \cup ToSet(q)
    BY <1>2, <1>3, <1>4, <1>5 DEF ToSet
  <2>2. ToSet(s) \subseteq ToSet(c) /\ ToSet(q) \subseteq ToSet(c)
    BY <1>2, <1>3, <1>4 DEF ToSet
  <2>. QED  BY <2>1, <2>2
<1>7. ASSUME IsInjective(s), IsInjective(q), ToSet(s) \cap ToSet(q) = {}
      PROVE  IsInjective(c)
  <2> SUFFICES ASSUME NEW i \in DOMAIN c, NEW j \in DOMAIN c, c[i] = c[j]
               PROVE  i = j
    BY DEF IsInjective
  <2>1. CASE i \in 1 .. Len(s) /\ j \in 1 .. Len(s)
    BY <1>2, <1>3, <1>7, <2>1 DEF IsInjective
  <2>2. CASE i \in 1 .. Len(s) /\ j \notin 1 .. Len(s)
    <3>1. c[i] \in ToSet(s) /\ c[j] \in ToSet(q)
      BY <1>2, <1>3, <1>4, <1>5, <2>2 DEF ToSet
    <3>. QED  BY <1>7, <3>1
  <2>3. CASE i \notin 1 .. Len(s) /\ j \in 1 .. Len(s)
    <3>1. c[j] \in ToSet(s) /\ c[i] \in ToSet(q)
      BY <1>2, <1>3, <1>4, <1>5, <2>3 DEF ToSet
    <3>. QED  BY <1>7, <3>1
  <2>4. CASE i \notin 1 .. Len(s) /\ j \notin 1 .. Len(s)
    <3>1. /\ i - Len(s) \in 1 .. Len(q) /\ j - Len(s) \in 1 .. Len(q)
          /\ q[i - Len(s)] = q[j - Len(s)]
      BY <1>4, <1>5, <2>4
    <3>2. i - Len(s) = j - Len(s)
      BY <1>2, <1>7, <3>1 DEF IsInjective
    <3>. QED  BY <1>2, <3>2
  <2>. QED  BY <2>1, <2>2, <2>3, <2>4
<1>. QED  BY <1>6, <1>7 DEF c

LEMMA AppendApart ==
  ASSUME NEW S, NEW s \in Seq(S), NEW x \in S
  PROVE  /\ ToSet(Append(s, x)) = ToSet(s) \cup {x}
         /\ IsInjective(s) /\ x \notin ToSet(s) => IsInjective(Append(s, x))
<1>1. Append(s, x) = s \o <<x>> /\ <<x>> \in Seq(S)
  BY AppendIsConcat
<1>2. DOMAIN <<x>> = {1} /\ <<x>>[1] = x
  OBVIOUS
<1>3. ToSet(<<x>>) = {x} /\ IsInjective(<<x>>)
  <2> DEFINE q == <<x>>
  <2>1. DOMAIN q = {1} /\ q[1] = x
    BY <1>2
  <2> HIDE DEF q
  <2>2. ToSet(q) = {x} /\ IsInjective(q)
    BY <2>1 DEF ToSet, IsInjective
  <2>. QED  BY <2>2 DEF q
<1>4. IsInjective(<<x>>) /\ (x \notin ToSet(s) <=> ToSet(s) \cap {x} = {})
  BY <1>3
<1>5. /\ ToSet(s \o <<x>>) = ToSet(s) \cup ToSet(<<x>>)
      /\ IsInjective(s) /\ ToSet(s) \cap ToSet(<<x>>) = {} => IsInjective(s \o <<x>>)
  BY <1>1, <1>4, JoinApart
<1>. QED  BY <1>1, <1>3, <1>4, <1>5

\* Taking one element out of a sequence takes it out of the set.
LEMMA TakeOut ==
  ASSUME NEW S, NEW s \in Seq(S), IsInjective(s), NEW k \in DOMAIN s
  PROVE  /\ RemoveAt(s, k) \in Seq(S) /\ IsInjective(RemoveAt(s, k))
         /\ ToSet(RemoveAt(s, k)) = ToSet(s) \ {s[k]}
<1> DEFINE a == SubSeq(s, 1, k - 1)
           b == SubSeq(s, k + 1, Len(s))
<1>1. /\ Len(s) \in Nat /\ DOMAIN s = 1 .. Len(s) /\ k \in 1 .. Len(s)
      /\ \A i \in 1 .. Len(s) : s[i] \in S
      /\ ToSet(s) = {s[i] : i \in 1 .. Len(s)}
  BY ToSetOfSeq, ElementOfSeq
<1>2. \A i, j \in 1 .. Len(s) : s[i] = s[j] => i = j
  BY <1>1 DEF IsInjective
<1>3. a \in Seq(S) /\ DOMAIN a = 1 .. k - 1 /\ \A i \in 1 .. k - 1 : a[i] = s[i]
  <2>1. /\ a \in Seq(S) /\ Len(a) = (IF 1 <= k - 1 THEN k - 1 - 1 + 1 ELSE 0)
        /\ \A i \in 1 .. (k - 1) - 1 + 1 : a[i] = s[1 + i - 1]
    BY <1>1, SubSeqProperties
  <2> HIDE DEF a
  <2>2. DOMAIN a = 1 .. Len(a) /\ Len(a) = k - 1
    BY <1>1, <2>1, LenProperties
  <2>. QED  BY <1>1, <2>1, <2>2
<1>4. /\ b \in Seq(S) /\ DOMAIN b = 1 .. Len(s) - k
      /\ \A i \in 1 .. Len(s) - k : b[i] = s[k + i]
  <2>1. /\ b \in Seq(S) /\ Len(b) = (IF k + 1 <= Len(s) THEN Len(s) - (k + 1) + 1 ELSE 0)
        /\ \A i \in 1 .. Len(s) - (k + 1) + 1 : b[i] = s[(k + 1) + i - 1]
    BY <1>1, SubSeqProperties
  <2> HIDE DEF b
  <2>2. DOMAIN b = 1 .. Len(b) /\ Len(b) = Len(s) - k
    BY <1>1, <2>1, LenProperties
  <2>3. Len(s) - (k + 1) + 1 = Len(s) - k /\ \A i \in Int : (k + 1) + i - 1 = k + i
    BY <1>1
  <2>4. \A i \in 1 .. Len(s) - k : b[i] = s[k + i]
    <3> TAKE i \in 1 .. Len(s) - k
    <3>1. i \in Int /\ i \in 1 .. Len(s) - (k + 1) + 1
      BY <1>1
    <3>2. (k + 1) + i - 1 = k + i
      BY <2>3, <3>1
    <3>. QED  BY <2>1, <3>1, <3>2
  <2>. QED  BY <2>1, <2>2, <2>4
<1> HIDE DEF a, b
<1>5. IsInjective(a)
  BY <1>1, <1>2, <1>3 DEF IsInjective
<1>6. IsInjective(b)
  <2>1. \A i \in 1 .. Len(s) - k : k + i \in 1 .. Len(s)
    BY <1>1
  <2>. QED  BY <1>1, <1>2, <1>4, <2>1 DEF IsInjective
<1>7. ToSet(a) \cap ToSet(b) = {} /\ ToSet(a) \cup ToSet(b) = ToSet(s) \ {s[k]}
  <2>1. \A x : x \in ToSet(a) <=> \E i \in 1 .. Len(s) : i < k /\ x = s[i]
    <3>1. \A i : i \in 1 .. k - 1 <=> i \in 1 .. Len(s) /\ i < k
      BY <1>1
    <3>. QED  BY <1>3, <3>1 DEF ToSet
  <2>2. \A x : x \in ToSet(b) <=> \E i \in 1 .. Len(s) : i > k /\ x = s[i]
    <3>1. \A i \in 1 .. Len(s) : i > k => i - k \in 1 .. Len(s) - k /\ k + (i - k) = i
      BY <1>1
    <3>2. \A i \in 1 .. Len(s) - k : k + i \in 1 .. Len(s) /\ k + i > k
      BY <1>1
    <3>. QED  BY <1>4, <3>1, <3>2 DEF ToSet
  <2>3. \A i \in 1 .. Len(s) : ~(i < k) /\ ~(i > k) => i = k
    BY <1>1
  <2>4. ToSet(a) \cap ToSet(b) = {}
    <3>1. \A i, j \in 1 .. Len(s) : i < k /\ j > k => i # j
      BY <1>1
    <3>. QED  BY <1>2, <2>1, <2>2, <3>1
  <2>5. \A x : x \in ToSet(s) <=> \E i \in 1 .. Len(s) : x = s[i]
    BY <1>1
  <2>6. \A i \in 1 .. Len(s) : i < k \/ i > k => s[i] # s[k]
    BY <1>1, <1>2
  <2>. QED  BY <2>1, <2>2, <2>3, <2>4, <2>5, <2>6
<1>8. RemoveAt(s, k) = a \o b
  BY DEF RemoveAt, a, b
<1>. QED  BY <1>3, <1>4, <1>5, <1>6, <1>7, <1>8, JoinApart, ConcatProperties

\* A sequence without repetition is as long as its set is large.
LEMMA LenIsCardinality ==
  ASSUME NEW S, NEW s \in Seq(S), IsInjective(s)
  PROVE  IsFiniteSet(ToSet(s)) /\ Cardinality(ToSet(s)) = Len(s)
<1>1. Len(s) \in Nat /\ DOMAIN s = 1 .. Len(s) /\ ToSet(s) = {s[i] : i \in 1 .. Len(s)}
  BY ToSetOfSeq
<1>2. s \in [1 .. Len(s) -> ToSet(s)]
  BY <1>1
<1>3. s \in Bijection(1 .. Len(s), ToSet(s))
  BY <1>1, <1>2 DEF Bijection, Injection, Surjection, IsInjective
<1>4. Cardinality(1 .. Len(s)) = Len(s) /\ IsFiniteSet(1 .. Len(s))
  <2>1. Cardinality(1 .. Len(s)) = IF 1 > Len(s) THEN 0 ELSE Len(s) - 1 + 1
    BY <1>1, FS_Interval
  <2>. QED  BY <1>1, <2>1, FS_Interval
<1>. QED  BY <1>3, <1>4, FS_Bijection DEF ExistsBijection

-----------------------------------------------------------------------------
(* Sums.                                                                   *)

Sum(f, S) == MapThenSumSet(LAMBDA x : f[x], S)

-----------------------------------------------------------------------------
(* Smallest sets.                                                          *)

LEMMA SmallestSet ==
  ASSUME NEW T, T # {}, \A s \in T : IsFiniteSet(s)
  PROVE  \E m \in T : \A s \in T : s \subseteq m => s = m
<1> DEFINE S == UNION T
           R == StrictSubsetOrdering(S)
           F == FiniteSubsetsOf(S)
<1>1. IsWellFoundedOn(R, F)
  BY FS_StrictSubsetOrderingWellFounded
<1>2. T \subseteq F
  BY DEF FiniteSubsetsOf
<1>3. \E m \in T : \A s \in T : ~ (<<s, m>> \in R)
  <2> HIDE DEF R, F
  <2>. QED  BY <1>1, <1>2, WFMin
<1>4. PICK m \in T : \A s \in T : ~ (<<s, m>> \in R)
  BY <1>3
<1>5. ASSUME NEW s \in T, s \subseteq m, s # m PROVE FALSE
  BY <1>4, <1>5 DEF StrictSubsetOrdering
<1>. QED  BY <1>4, <1>5

LEMMA SmallestNumber ==
  ASSUME NEW S, S \subseteq Nat, S # {}
  PROVE  \E m \in S : \A n \in S : m <= n
<1> DEFINE T == {0 .. n : n \in S}
<1>1. \A n \in Nat : IsFiniteSet(0 .. n)
  BY FS_Interval
<1>2. PICK s \in T : \A u \in T : u \subseteq s => u = s
  <2>1. T # {} /\ \A s \in T : IsFiniteSet(s)
    BY <1>1
  <2> HIDE DEF T
  <2>. QED  BY <2>1, SmallestSet
<1>3. PICK m \in S : s = 0 .. m
  BY <1>2
<1>4. ASSUME NEW n \in S, n < m PROVE FALSE
  <2>1. 0 .. n \subseteq 0 .. m /\ m \in 0 .. m /\ m \notin 0 .. n
    BY <1>4
  <2>. QED  BY <1>2, <1>3, <2>1
<1>. QED  BY <1>4

\* A finite, non-empty set of numbers that has an upper bound has a largest.
LEMMA LargestNumber ==
  ASSUME NEW S, S \subseteq Nat, S # {}, NEW b \in Nat, \A n \in S : n <= b
  PROVE  \E m \in S : \A n \in S : n <= m
<1> DEFINE B == {c \in Nat : \A n \in S : n <= c}
<1>1. PICK c \in B : \A d \in B : c <= d
  BY SmallestNumber
<1>2. ASSUME c \notin S PROVE FALSE
  <2>1. \A n \in S : n < c
    BY <1>1, <1>2
  <2>2. c > 0 /\ c - 1 \in Nat
    <3>1. PICK n \in S : TRUE
      OBVIOUS
    <3>2. n \in Nat /\ c \in Nat /\ n < c
      BY <2>1
    <3>. QED  BY <3>2
  <2>3. c - 1 \in B
    BY <2>1, <2>2
  <2>. QED  BY <1>1, <2>2, <2>3
<1>. QED  BY <1>1, <1>2

\* Every finite set of numbers has a largest one.
LEMMA FiniteMaximum ==
  ASSUME NEW S, IsFiniteSet(S), S \subseteq Nat, S # {}
  PROVE  \E m \in S : \A l \in S : l <= m
<1> DEFINE T == {t \in SUBSET S : t # {} /\ ~ \E m \in t : \A l \in t : l <= m}
<1>1. SUFFICES ASSUME T # {} PROVE FALSE
  OBVIOUS
<1>2. \A t \in T : IsFiniteSet(t)
  BY FS_Subset
<1>3. PICK t \in T : \A u \in T : u \subseteq t => u = t
  <2> HIDE DEF T
  <2>. QED  BY <1>1, <1>2, SmallestSet
<1>4. PICK x \in t : x \in Nat
  BY <1>3
<1>5. CASE t \ {x} = {}
  BY <1>3, <1>4, <1>5
<1>6. CASE t \ {x} # {}
  <2>1. t \ {x} \notin T
    BY <1>3, <1>4
  <2>2. PICK y \in t \ {x} : \A l \in t \ {x} : l <= y
    BY <1>3, <1>6, <2>1
  <2>3. y \in Nat /\ \A l \in t : l \in Nat
    BY <1>3, <2>2
  <2>4. \A l \in t : l <= IF x <= y THEN y ELSE x
    BY <1>4, <2>2, <2>3
  <2>. QED  BY <1>3, <1>4, <2>2, <2>4
<1>. QED  BY <1>5, <1>6

-----------------------------------------------------------------------------
(* The recursion that defines a sum has exactly one solution.              *)

Pick(s) == CHOOSE x \in s : TRUE

SumRec(f, S, g) ==
  g = [s \in SUBSET S |-> IF s = {} THEN 0 ELSE f[Pick(s)] + g[s \ {Pick(s)}]]

LEMMA PickIn == \A s : s # {} => Pick(s) \in s
BY DEF Pick

LEMMA RecAt ==
  ASSUME NEW f, NEW S, NEW g, SumRec(f, S, g), NEW s, s \subseteq S
  PROVE  g[s] = IF s = {} THEN 0 ELSE f[Pick(s)] + g[s \ {Pick(s)}]
BY DEF SumRec

LEMMA RecUnique ==
  ASSUME NEW f, NEW S, IsFiniteSet(S), NEW g, SumRec(f, S, g),
         NEW R, R \subseteq S, NEW h, SumRec(f, R, h)
  PROVE  \A s \in SUBSET R : g[s] = h[s]
<1> DEFINE T == {s \in SUBSET R : g[s] # h[s]}
<1>1. SUFFICES ASSUME T # {} PROVE FALSE
  OBVIOUS
<1>2. \A s \in T : IsFiniteSet(s)
  BY FS_Subset
<1>3. PICK s \in T : \A u \in T : u \subseteq s => u = s
  <2> HIDE DEF T
  <2>. QED  BY <1>1, <1>2, SmallestSet
<1>4. s # {}
  BY RecAt
<1>5. s \ {Pick(s)} \notin T /\ s \ {Pick(s)} \subseteq R
  BY <1>3, <1>4, PickIn
<1>6. g[s \ {Pick(s)}] = h[s \ {Pick(s)}]
  BY <1>5
<1>. QED  BY <1>3, <1>4, <1>6, RecAt

LEMMA RecRestrict ==
  ASSUME NEW f, NEW S, NEW g, SumRec(f, S, g), NEW R, R \subseteq S
  PROVE  SumRec(f, R, [s \in SUBSET R |-> g[s]])
<1>1. \A s \in SUBSET R : s \in SUBSET S /\ s \ {Pick(s)} \in SUBSET R
  OBVIOUS
<1>2. \A s \in SUBSET R : g[s] = IF s = {} THEN 0 ELSE f[Pick(s)] + g[s \ {Pick(s)}]
  BY RecAt
<1>. QED  BY <1>1, <1>2 DEF SumRec

\* The value that the recursion gives to a whole set.
LEMMA SumExists ==
  ASSUME NEW f, NEW S, IsFiniteSet(S)
  PROVE  \E g : SumRec(f, S, g)
<1> DEFINE T == {s \in SUBSET S : ~ \E g : SumRec(f, s, g)}
<1>1. SUFFICES ASSUME T # {} PROVE FALSE
  OBVIOUS
<1>2. \A s \in SUBSET S : IsFiniteSet(s)
  BY FS_Subset
<1>3. PICK m \in T : \A u \in T : u \subseteq m => u = m
  <2>1. \A s \in T : IsFiniteSet(s)
    BY <1>2
  <2> HIDE DEF T
  <2>. QED  BY <1>1, <2>1, SmallestSet
<1> DEFINE G(u) == CHOOSE g : SumRec(f, u, g)
<1>4. \A u \in SUBSET m : u # m => SumRec(f, u, G(u))
  <2>1. \A u \in SUBSET m : u # m => \E g : SumRec(f, u, g)
    BY <1>3
  <2>. QED  BY <2>1
<1>5. ASSUME NEW u, NEW s, u \subseteq m, u # m, s \subseteq u
      PROVE  G(s)[s] = G(u)[s]
  <2>1. SumRec(f, u, G(u)) /\ SumRec(f, s, G(s)) /\ IsFiniteSet(u)
    BY <1>2, <1>4, <1>5
  <2> HIDE DEF G
  <2>. QED  BY <1>5, <2>1, RecUnique
<1> DEFINE x == Pick(m)
           h == [s \in SUBSET m |->
                   IF s # m THEN G(s)[s] ELSE IF m = {} THEN 0 ELSE f[x] + G(m \ {x})[m \ {x}]]
<1>6. ASSUME NEW s \in SUBSET m
      PROVE  h[s] = IF s = {} THEN 0 ELSE f[Pick(s)] + h[s \ {Pick(s)}]
  <2>1. CASE s = {}
    <3>1. s # m => G(s)[s] = 0
      <4>1. s # m => SumRec(f, s, G(s))
        BY <1>4
      <4> HIDE DEF G
      <4>. QED  BY <2>1, <4>1, RecAt
    <3> HIDE DEF G
    <3>. QED  BY <2>1, <3>1
  <2>2. CASE s # {}
    <3>1. s \ {Pick(s)} # m /\ s \ {Pick(s)} # s /\ s \ {Pick(s)} \subseteq s
      BY <2>2, PickIn
    <3>2. h[s \ {Pick(s)}] = G(s \ {Pick(s)})[s \ {Pick(s)}]
      <4> HIDE DEF G
      <4>. QED  BY <3>1
    <3>3. CASE s = m
      <4> HIDE DEF G
      <4>. QED  BY <2>2, <3>2, <3>3
    <3>4. CASE s # m
      <4>1. SumRec(f, s, G(s))
        BY <1>4, <3>4
      <4>2. G(s \ {Pick(s)})[s \ {Pick(s)}] = G(s)[s \ {Pick(s)}]
        BY <1>5, <3>1, <3>4
      <4> HIDE DEF G
      <4>3. G(s)[s] = f[Pick(s)] + G(s)[s \ {Pick(s)}]
        BY <2>2, <4>1, RecAt
      <4>. QED  BY <2>2, <3>2, <3>4, <4>2, <4>3
    <3>. QED  BY <3>3, <3>4
  <2>. QED  BY <2>1, <2>2
<1>7. SumRec(f, m, h)
  <2>1. h = [s \in SUBSET m |-> h[s]]
    OBVIOUS
  <2> HIDE DEF h
  <2>. QED  BY <1>6, <2>1 DEF SumRec
<1>. QED  BY <1>3, <1>7

\* A sum written out, whatever solution of its recursion one has at hand.
LEMMA SumIsRec ==
  ASSUME NEW f, NEW S, IsFiniteSet(S)
  PROVE  \E g : SumRec(f, S, g) /\ Sum(f, S) = g[S]
<1> DEFINE h == CHOOSE g : SumRec(f, S, g)
<1>1. SumRec(f, S, h)
  BY SumExists
<1>2. Sum(f, S) = h[S]
  BY DEF Sum, MapThenSumSet, MapThenFoldSet, SumRec, Pick
<1>. QED  BY <1>1, <1>2

LEMMA SumByRec ==
  ASSUME NEW f, NEW S, IsFiniteSet(S), NEW g, SumRec(f, S, g), NEW R, R \subseteq S
  PROVE  Sum(f, R) = g[R]
<1>1. IsFiniteSet(R)
  BY FS_Subset
<1>2. PICK h : SumRec(f, R, h) /\ Sum(f, R) = h[R]
  BY <1>1, SumIsRec
<1>. QED  BY <1>2, RecUnique

-----------------------------------------------------------------------------
(* What a sum is.                                                          *)

LEMMA SumEmpty == \A f : Sum(f, {}) = 0
<1> TAKE f
<1>1. PICK g : SumRec(f, {}, g) /\ Sum(f, {}) = g[{}]
  BY SumIsRec, FS_EmptySet
<1>. QED  BY <1>1, RecAt

LEMMA SumPick ==
  ASSUME NEW f, NEW S, IsFiniteSet(S), S # {}
  PROVE  /\ Pick(S) \in S
         /\ Sum(f, S) = f[Pick(S)] + Sum(f, S \ {Pick(S)})
<1>1. PICK g : SumRec(f, S, g)
  BY SumExists
<1>2. Sum(f, S) = g[S] /\ Sum(f, S \ {Pick(S)}) = g[S \ {Pick(S)}]
  BY <1>1, SumByRec
<1>. QED  BY <1>1, <1>2, RecAt, PickIn

IntOn(f, S) == \A x \in S : f[x] \in Int

LEMMA SumInt ==
  ASSUME NEW f, NEW S, IsFiniteSet(S), IntOn(f, S)
  PROVE  Sum(f, S) \in Int
<1> DEFINE T == {s \in SUBSET S : Sum(f, s) \notin Int}
<1>1. SUFFICES ASSUME T # {} PROVE FALSE
  OBVIOUS
<1>2. \A s \in T : IsFiniteSet(s)
  BY FS_Subset
<1>3. PICK m \in T : \A u \in T : u \subseteq m => u = m
  <2> HIDE DEF T
  <2>. QED  BY <1>1, <1>2, SmallestSet
<1>4. m # {}
  BY SumEmpty
<1>5. Pick(m) \in m /\ Sum(f, m) = f[Pick(m)] + Sum(f, m \ {Pick(m)})
  BY <1>2, <1>4, SumPick
<1>6. Sum(f, m \ {Pick(m)}) \in Int
  BY <1>3, <1>5
<1>. QED  BY <1>3, <1>5, <1>6 DEF IntOn

LEMMA SumRemove ==
  ASSUME NEW f, NEW S, IsFiniteSet(S), IntOn(f, S), NEW x \in S
  PROVE  Sum(f, S) = f[x] + Sum(f, S \ {x})
<1> DEFINE T == {s \in SUBSET S : \E y \in s : Sum(f, s) # f[y] + Sum(f, s \ {y})}
<1>1. SUFFICES ASSUME T # {} PROVE FALSE
  OBVIOUS
<1>2. \A s \in SUBSET S : IsFiniteSet(s) /\ IntOn(f, s)
  BY FS_Subset DEF IntOn
<1>3. PICK m \in T : \A u \in T : u \subseteq m => u = m
  <2>1. \A s \in T : IsFiniteSet(s)
    BY <1>2
  <2> HIDE DEF T
  <2>. QED  BY <1>1, <2>1, SmallestSet
<1>4. PICK y \in m : Sum(f, m) # f[y] + Sum(f, m \ {y})
  OBVIOUS
<1> DEFINE p == Pick(m)
<1>5. p \in m /\ Sum(f, m) = f[p] + Sum(f, m \ {p})
  BY <1>2, <1>4, SumPick
<1>6. p # y
  BY <1>4, <1>5
<1>7. Sum(f, m \ {p}) = f[y] + Sum(f, (m \ {p}) \ {y})
  <2>1. m \ {p} \notin T
    BY <1>3, <1>5
  <2>. QED  BY <1>6, <2>1
<1>8. Sum(f, m \ {y}) = f[p] + Sum(f, (m \ {p}) \ {y})
  <2>1. m \ {y} \notin T
    BY <1>3, <1>4
  <2>2. (m \ {y}) \ {p} = (m \ {p}) \ {y}
    OBVIOUS
  <2>. QED  BY <1>5, <1>6, <2>1, <2>2
<1>9. f[p] \in Int /\ f[y] \in Int /\ Sum(f, (m \ {p}) \ {y}) \in Int
  <2>1. (m \ {p}) \ {y} \in SUBSET S
    OBVIOUS
  <2>2. IsFiniteSet((m \ {p}) \ {y}) /\ IntOn(f, (m \ {p}) \ {y})
    BY <1>2, <2>1
  <2>. QED  BY <1>4, <1>5, <2>2, SumInt DEF IntOn
<1> HIDE DEF p, T
<1>. QED  BY <1>4, <1>5, <1>7, <1>8, <1>9

LEMMA SumAdd ==
  ASSUME NEW f, NEW S, IsFiniteSet(S), NEW x, x \notin S, IntOn(f, S \cup {x})
  PROVE  Sum(f, S \cup {x}) = f[x] + Sum(f, S)
<1>1. IsFiniteSet(S \cup {x}) /\ (S \cup {x}) \ {x} = S
  BY FS_AddElement
<1>. QED  BY <1>1, SumRemove

\* Two functions that agree on a set have the same sum over it.
LEMMA SumSame ==
  ASSUME NEW f, NEW h, NEW S, IsFiniteSet(S), \A x \in S : f[x] = h[x]
  PROVE  Sum(f, S) = Sum(h, S)
<1>1. PICK g : SumRec(f, S, g)
  BY SumExists
<1>2. SumRec(h, S, g)
  <2>1. \A s \in SUBSET S : s # {} => Pick(s) \in S
    BY PickIn
  <2>. QED  BY <1>1, <2>1 DEF SumRec
<1>. QED  BY <1>1, <1>2, SumByRec

LEMMA SumUnion ==
  ASSUME NEW f, NEW A, NEW B, IsFiniteSet(A), IsFiniteSet(B), A \cap B = {},
         IntOn(f, A \cup B)
  PROVE  Sum(f, A \cup B) = Sum(f, A) + Sum(f, B)
<1> DEFINE T == {s \in SUBSET B : Sum(f, A \cup s) # Sum(f, A) + Sum(f, s)}
<1>1. SUFFICES ASSUME T # {} PROVE FALSE
  OBVIOUS
<1>2. \A s \in SUBSET B : IsFiniteSet(s) /\ IsFiniteSet(A \cup s)
                          /\ IntOn(f, s) /\ IntOn(f, A \cup s)
  BY FS_Subset, FS_Union DEF IntOn
<1>3. PICK m \in T : \A u \in T : u \subseteq m => u = m
  <2>1. \A s \in T : IsFiniteSet(s)
    BY <1>2
  <2> HIDE DEF T
  <2>. QED  BY <1>1, <2>1, SmallestSet
<1>4. IsFiniteSet(A) /\ IntOn(f, A) /\ Sum(f, A) \in Int
  BY SumInt DEF IntOn
<1>5. m # {}
  <2> SUFFICES ASSUME m = {} PROVE FALSE
    OBVIOUS
  <2>1. A \cup m = A /\ Sum(f, m) = 0
    BY SumEmpty
  <2>2. Sum(f, A \cup m) # Sum(f, A) + Sum(f, m)
    OBVIOUS
  <2> HIDE DEF T
  <2>. QED  BY <1>4, <2>1, <2>2
<1>6. PICK x \in m : TRUE
  BY <1>5
<1>7. Sum(f, A \cup (m \ {x})) = Sum(f, A) + Sum(f, m \ {x})
  BY <1>3, <1>6
<1>8. Sum(f, m) = f[x] + Sum(f, m \ {x})
  BY <1>2, <1>6, SumRemove
<1>9. Sum(f, A \cup m) = f[x] + Sum(f, A \cup (m \ {x}))
  <2>1. (A \cup m) \ {x} = A \cup (m \ {x})
    BY <1>6
  <2>. QED  BY <1>2, <1>6, <2>1, SumRemove
<1>10. f[x] \in Int /\ Sum(f, m \ {x}) \in Int
  <2>1. IsFiniteSet(m \ {x}) /\ IntOn(f, m \ {x})
    BY <1>2
  <2>. QED  BY <1>2, <1>6, <2>1, SumInt DEF IntOn
<1>. QED  BY <1>3, <1>4, <1>7, <1>8, <1>9, <1>10

LEMMA SumZero ==
  ASSUME NEW f, NEW S, IsFiniteSet(S), \A x \in S : f[x] = 0
  PROVE  Sum(f, S) = 0
<1> DEFINE T == {s \in SUBSET S : Sum(f, s) # 0}
<1>1. SUFFICES ASSUME T # {} PROVE FALSE
  OBVIOUS
<1>2. \A s \in T : IsFiniteSet(s)
  BY FS_Subset
<1>3. PICK m \in T : \A u \in T : u \subseteq m => u = m
  <2> HIDE DEF T
  <2>. QED  BY <1>1, <1>2, SmallestSet
<1>4. m # {}
  BY SumEmpty
<1>5. Pick(m) \in m /\ Sum(f, m) = f[Pick(m)] + Sum(f, m \ {Pick(m)})
  BY <1>2, <1>4, SumPick
<1>6. Sum(f, m \ {Pick(m)}) = 0
  BY <1>3, <1>5
<1>. QED  BY <1>3, <1>5, <1>6

LEMMA SumMonotone ==
  ASSUME NEW f, NEW h, NEW S, IsFiniteSet(S), IntOn(f, S), IntOn(h, S),
         \A x \in S : f[x] <= h[x]
  PROVE  Sum(f, S) <= Sum(h, S)
<1> DEFINE T == {s \in SUBSET S : ~ (Sum(f, s) <= Sum(h, s))}
<1>1. SUFFICES ASSUME T # {} PROVE FALSE
  OBVIOUS
<1>2. \A s \in SUBSET S : IsFiniteSet(s) /\ IntOn(f, s) /\ IntOn(h, s)
  BY FS_Subset DEF IntOn
<1>3. PICK m \in T : \A u \in T : u \subseteq m => u = m
  <2>1. \A s \in T : IsFiniteSet(s)
    BY <1>2
  <2> HIDE DEF T
  <2>. QED  BY <1>1, <2>1, SmallestSet
<1>4. m # {}
  BY SumEmpty
<1>5. PICK x \in m : TRUE
  BY <1>4
<1>6. /\ Sum(f, m) = f[x] + Sum(f, m \ {x})
      /\ Sum(h, m) = h[x] + Sum(h, m \ {x})
  BY <1>2, <1>5, SumRemove
<1>7. Sum(f, m \ {x}) <= Sum(h, m \ {x})
  BY <1>3, <1>5
<1>8. /\ f[x] \in Int /\ h[x] \in Int /\ f[x] <= h[x]
      /\ Sum(f, m \ {x}) \in Int /\ Sum(h, m \ {x}) \in Int
  <2>1. IsFiniteSet(m \ {x}) /\ IntOn(f, m \ {x}) /\ IntOn(h, m \ {x})
    BY <1>2
  <2>. QED  BY <1>2, <1>5, <2>1, SumInt DEF IntOn
<1> HIDE DEF T
<1>9. Sum(f, m) <= Sum(h, m)
  BY <1>6, <1>7, <1>8
<1>. QED  BY <1>3, <1>9 DEF T

LEMMA SumNat ==
  ASSUME NEW f, NEW S, IsFiniteSet(S), \A x \in S : f[x] \in Nat
  PROVE  Sum(f, S) \in Nat
<1> DEFINE z == [x \in S |-> 0]
<1>1. IntOn(f, S) /\ IntOn(z, S) /\ \A x \in S : z[x] <= f[x]
  BY DEF IntOn
<1>2. Sum(z, S) = 0
  BY SumZero
<1> HIDE DEF z
<1>. QED  BY <1>1, <1>2, SumInt, SumMonotone

LEMMA FiniteImage ==
  ASSUME NEW S, IsFiniteSet(S), NEW b
  PROVE  /\ IsFiniteSet({b[x] : x \in S})
         /\ Cardinality({b[x] : x \in S}) <= Cardinality(S)
<1> DEFINE c == [x \in S |-> b[x]]
<1>1. c \in Surjection(S, {b[x] : x \in S})
  BY DEF Surjection
<1>. QED  BY <1>1, FS_Surjection

\* A sum over the image of a one-to-one function.
LEMMA SumImage ==
  ASSUME NEW S, IsFiniteSet(S), NEW b, NEW h, NEW f,
         \A x, y \in S : b[x] = b[y] => x = y,
         \A x \in S : f[x] = h[b[x]] /\ f[x] \in Int
  PROVE  Sum(h, {b[x] : x \in S}) = Sum(f, S)
<1> DEFINE I(s) == {b[x] : x \in s}
           T == {s \in SUBSET S : Sum(h, I(s)) # Sum(f, s)}
<1>1. SUFFICES ASSUME T # {} PROVE FALSE
  OBVIOUS
<1>2. \A s \in SUBSET S : /\ IsFiniteSet(s) /\ IntOn(f, s)
                          /\ IsFiniteSet(I(s)) /\ IntOn(h, I(s))
  <2>1. \A s \in SUBSET S : IsFiniteSet(s) /\ IntOn(f, s)
    BY FS_Subset DEF IntOn
  <2>2. ASSUME NEW s \in SUBSET S PROVE IsFiniteSet(I(s))
    BY <2>1, FiniteImage
  <2>. QED  BY <2>1, <2>2 DEF IntOn
<1>3. PICK m \in T : \A u \in T : u \subseteq m => u = m
  <2>1. \A s \in T : IsFiniteSet(s)
    BY <1>2
  <2> HIDE DEF T
  <2>. QED  BY <1>1, <2>1, SmallestSet
<1>4. m # {}
  <2>1. I({}) = {}
    OBVIOUS
  <2>. QED  BY <1>3, <2>1, SumEmpty
<1>5. PICK x \in m : TRUE
  BY <1>4
<1>6. Sum(f, m) = f[x] + Sum(f, m \ {x})
  BY <1>2, <1>5, SumRemove
<1>7. Sum(h, I(m)) = h[b[x]] + Sum(h, I(m \ {x}))
  <2> DEFINE im == I(m)
             bx == b[x]
  <2>1. im \ {bx} = I(m \ {x})
    BY <1>5
  <2>2. bx \in im
    BY <1>5
  <2>3. IsFiniteSet(im) /\ IntOn(h, im)
    BY <1>2
  <2>4. Sum(h, im) = h[bx] + Sum(h, im \ {bx})
    <3> HIDE DEF im, bx, T
    <3>. QED  BY <2>2, <2>3, SumRemove
  <2> HIDE DEF T
  <2>. QED  BY <2>1, <2>4
<1>8. Sum(h, I(m \ {x})) = Sum(f, m \ {x})
  BY <1>3, <1>5
<1>. QED  BY <1>3, <1>5, <1>6, <1>7, <1>8

LEMMA SumSubset ==
  ASSUME NEW f, NEW S, IsFiniteSet(S), \A x \in S : f[x] \in Nat, NEW R, R \subseteq S
  PROVE  Sum(f, R) <= Sum(f, S)
<1>1. IsFiniteSet(R) /\ IsFiniteSet(S \ R) /\ R \cup (S \ R) = S /\ R \cap (S \ R) = {}
  BY FS_Subset
<1>2. IntOn(f, R \cup (S \ R))
  BY <1>1 DEF IntOn
<1>3. Sum(f, R \cup (S \ R)) = Sum(f, R) + Sum(f, S \ R)
  BY <1>1, <1>2, SumUnion
<1>4. Sum(f, R) \in Nat /\ Sum(f, S \ R) \in Nat
  BY <1>1, SumNat
<1>5. Sum(f, S) = Sum(f, R) + Sum(f, S \ R)
  BY <1>1, <1>3
<1>. QED  BY <1>4, <1>5

(***************************************************************************)
(* A sum in which each group of elements, those with one key, has one      *)
(* element that carries the weight of its key, and others that carry       *)
(* nothing: it is the sum of the weights.                                  *)
(***************************************************************************)
LEMMA SumGroups ==
  ASSUME NEW S, IsFiniteSet(S), NEW f, NEW key, NEW w,
         \A x \in S : f[x] \in Int,
         \A x \in S : \E y \in S :
           /\ key[y] = key[x] /\ f[y] = w[key[x]]
           /\ \A z \in S : key[z] = key[x] /\ z # y => f[z] = 0
  PROVE  Sum(f, S) = Sum(w, {key[x] : x \in S})
<1> DEFINE Rep(k) == CHOOSE y \in S :
             /\ key[y] = k /\ f[y] = w[k]
             /\ \A z \in S : key[z] = k /\ z # y => f[z] = 0
           K == {key[x] : x \in S}
           r == [k \in K |-> Rep(k)]
           R == {r[k] : k \in K}
<1>1. ASSUME NEW k \in K
      PROVE  /\ r[k] \in S /\ key[r[k]] = k /\ f[r[k]] = w[k]
             /\ \A z \in S : key[z] = k /\ z # r[k] => f[z] = 0
  <2>1. PICK x \in S : key[x] = k
    OBVIOUS
  <2>2. \E y \in S : /\ key[y] = k /\ f[y] = w[k]
                     /\ \A z \in S : key[z] = k /\ z # y => f[z] = 0
    BY <2>1
  <2>3. r[k] = Rep(k)
    OBVIOUS
  <2>. QED  BY <2>2, <2>3
<1>2. IsFiniteSet(K)
  BY FiniteImage
<1>3. R \subseteq S /\ IsFiniteSet(R) /\ IsFiniteSet(S \ R)
  <2>1. R \subseteq S
    <3> HIDE DEF r, K
    <3>. QED  BY <1>1
  <2> HIDE DEF R
  <2>. QED  BY <2>1, FS_Subset
<1>4. \A z \in S \ R : f[z] = 0
  <2> TAKE z \in S \ R
  <2>1. key[z] \in K
    OBVIOUS
  <2>2. r[key[z]] \in R
    BY <2>1
  <2> HIDE DEF r, K, R
  <2>. QED  BY <1>1, <2>1, <2>2
<1>5. Sum(f, S) = Sum(f, R) + Sum(f, S \ R)
  <2>1. R \cap (S \ R) = {} /\ R \cup (S \ R) = S
    BY <1>3
  <2>2. IntOn(f, R \cup (S \ R))
    BY <2>1 DEF IntOn
  <2>3. Sum(f, R \cup (S \ R)) = Sum(f, R) + Sum(f, S \ R)
    <3> HIDE DEF R
    <3>. QED  BY <1>3, <2>1, <2>2, SumUnion
  <2>. QED  BY <2>1, <2>3
<1>6. Sum(f, S \ R) = 0
  <2> HIDE DEF R
  <2>. QED  BY <1>3, <1>4, SumZero
<1>7. Sum(f, R) = Sum(w, K)
  <2>1. \A j, k \in K : r[j] = r[k] => j = k
    BY <1>1
  <2>2. \A k \in K : w[k] = f[r[k]] /\ w[k] \in Int
    BY <1>1
  <2>. QED
    <3> HIDE DEF r, K
    <3>. QED  BY <1>2, <2>1, <2>2, SumImage, SMTT(30)
<1>8. Sum(w, K) \in Int
  <2>1. IntOn(w, K)
    BY <1>1 DEF IntOn
  <2> HIDE DEF K
  <2>. QED  BY <1>2, <2>1, SumInt
<1> HIDE DEF R, K
<1>. QED  BY <1>5, <1>6, <1>7, <1>8 DEF K

\* A sum over a set that falls into parts is the sum of the sums of the parts.
LEMMA SumParts ==
  ASSUME NEW D, IsFiniteSet(D), NEW f, NEW part, NEW g,
         \A k \in D : IsFiniteSet(part[k]) /\ IntOn(f, part[k]) /\ g[k] = Sum(f, part[k]),
         \A j, k \in D : j # k => part[j] \cap part[k] = {}
  PROVE  Sum(f, UNION {part[k] : k \in D}) = Sum(g, D)
<1> DEFINE U(s) == UNION {part[k] : k \in s}
           T == {s \in SUBSET D : ~ (/\ IsFiniteSet(U(s)) /\ IntOn(f, U(s))
                                     /\ Sum(f, U(s)) = Sum(g, s))}
<1>1. SUFFICES ASSUME T # {} PROVE FALSE
  OBVIOUS
<1>2. \A s \in T : IsFiniteSet(s)
  BY FS_Subset
<1>3. PICK s \in T : \A u \in T : u \subseteq s => u = s
  <2> HIDE DEF T
  <2>. QED  BY <1>1, <1>2, SmallestSet
<1>4. s \in SUBSET D /\ IsFiniteSet(s)
  BY <1>2, <1>3
<1>5. s # {}
  <2>1. U({}) = {}
    OBVIOUS
  <2>2. IsFiniteSet({}) /\ IntOn(f, {}) /\ Sum(f, {}) = 0 /\ Sum(g, {}) = 0
    BY FS_EmptySet, SumEmpty DEF IntOn
  <2>. QED  BY <1>3, <2>1, <2>2
<1>6. PICK x \in s : x \in D
  BY <1>4, <1>5
<1>7. PICK r : r = s \ {x}
  OBVIOUS
<1>8. r \in SUBSET D /\ r \notin T /\ IsFiniteSet(r) /\ s = r \cup {x} /\ x \notin r
  BY <1>3, <1>4, <1>6, <1>7, FS_Subset, SMTT(30)
<1>9. IsFiniteSet(U(r)) /\ IntOn(f, U(r)) /\ Sum(f, U(r)) = Sum(g, r)
  BY <1>8
<1>10. U(s) = U(r) \cup part[x] /\ U(r) \cap part[x] = {}
  BY <1>6, <1>8
<1> HIDE DEF U
<1>11. IntOn(f, U(r) \cup part[x]) /\ IsFiniteSet(U(r) \cup part[x])
  BY <1>6, <1>9, FS_Union DEF IntOn
<1>12. Sum(f, U(s)) = Sum(f, U(r)) + Sum(f, part[x])
  BY <1>6, <1>9, <1>10, <1>11, SumUnion
<1>13. Sum(g, s) = g[x] + Sum(g, r)
  <2>1. \A k \in D : g[k] \in Int
    BY SumInt
  <2>2. IntOn(g, r \cup {x})
    BY <1>6, <1>8, <2>1 DEF IntOn
  <2>. QED  BY <1>8, <2>2, SumAdd
<1>14. Sum(f, U(s)) = Sum(g, s)
  <2>1. Sum(f, U(r)) \in Int /\ Sum(f, part[x]) \in Int
    BY <1>6, <1>9, SumInt
  <2>. QED  BY <1>6, <1>9, <1>12, <1>13, <2>1
<1>. QED  BY <1>3, <1>10, <1>11, <1>14

-----------------------------------------------------------------------------
(* Places in an order.                                                     *)

StrictlyOrders(R, S) ==
  /\ \A a \in S : <<a, a>> \notin R
  /\ \A a, b, c \in S : <<a, b>> \in R /\ <<b, c>> \in R => <<a, c>> \in R
  /\ \A a, b \in S : a # b => <<a, b>> \in R \/ <<b, a>> \in R

\* The members of S that come before c.
Earlier(R, S, c) == {d \in S : <<d, c>> \in R}

\* Each member of a finite set has a place, counted from 0, and each place
\* is one member's.
LEMMA Places ==
  ASSUME NEW S, IsFiniteSet(S), NEW R, StrictlyOrders(R, S)
  PROVE  /\ \A c \in S : Cardinality(Earlier(R, S, c)) \in 0 .. Cardinality(S) - 1
         /\ \A b, c \in S : <<b, c>> \in R =>
              Cardinality(Earlier(R, S, b)) < Cardinality(Earlier(R, S, c))
         /\ \A k \in 0 .. Cardinality(S) - 1 :
              \E c \in S : Cardinality(Earlier(R, S, c)) = k
<1> DEFINE place == [c \in S |-> Cardinality(Earlier(R, S, c))]
           m == Cardinality(S)
<1>1. m \in Nat
  BY FS_CardinalityType
<1>2. ASSUME NEW c \in S
      PROVE  IsFiniteSet(Earlier(R, S, c)) /\ Cardinality(Earlier(R, S, c)) \in Nat
  <2>1. IsFiniteSet(Earlier(R, S, c))
    BY FS_Subset DEF Earlier
  <2>. QED  BY <2>1, FS_CardinalityType
<1>3. ASSUME NEW c \in S
      PROVE  Cardinality(Earlier(R, S, c)) \in 0 .. m - 1
  <2>1. Earlier(R, S, c) \subseteq S /\ c \notin Earlier(R, S, c)
    BY DEF Earlier, StrictlyOrders
  <2>2. Cardinality(Earlier(R, S, c)) <= m /\ Cardinality(Earlier(R, S, c)) # m
    BY <2>1, FS_Subset
  <2>. QED  BY <1>1, <1>2, <2>2
<1>4. ASSUME NEW b \in S, NEW c \in S, <<b, c>> \in R
      PROVE  Cardinality(Earlier(R, S, b)) < Cardinality(Earlier(R, S, c))
  <2>1. Earlier(R, S, b) \subseteq Earlier(R, S, c)
    BY <1>4 DEF Earlier, StrictlyOrders
  <2>2. b \in Earlier(R, S, c) /\ b \notin Earlier(R, S, b)
    BY <1>4 DEF Earlier, StrictlyOrders
  <2>3. /\ Cardinality(Earlier(R, S, b)) <= Cardinality(Earlier(R, S, c))
        /\ Cardinality(Earlier(R, S, b)) # Cardinality(Earlier(R, S, c))
    BY <1>2, <2>1, <2>2, FS_Subset
  <2>. QED  BY <1>2, <2>3
<1>5. ASSUME NEW k \in 0 .. m - 1
      PROVE  \E c \in S : Cardinality(Earlier(R, S, c)) = k
  <2>1. place \in [S -> 0 .. m - 1]
    BY <1>3
  <2>2. \A b, c \in S : place[b] = place[c] => b = c
    <3> SUFFICES ASSUME NEW b \in S, NEW c \in S, b # c PROVE place[b] # place[c]
      OBVIOUS
    <3>1. <<b, c>> \in R \/ <<c, b>> \in R
      BY DEF StrictlyOrders
    <3>2. place[b] \in Nat /\ place[c] \in Nat /\ (place[b] < place[c] \/ place[c] < place[b])
      BY <1>2, <1>4, <3>1
    <3> HIDE DEF place
    <3>. QED  BY <3>2
  <2>3. place \in Injection(S, 0 .. m - 1)
    BY <2>1, <2>2 DEF Injection, IsInjective
  <2>4. IsFiniteSet(0 .. m - 1) /\ Cardinality(0 .. m - 1) = m
    BY <1>1, FS_Interval
  <2>5. place \in Surjection(S, 0 .. m - 1)
    <3> HIDE DEF place
    <3>. QED  BY <2>3, <2>4, FS_Injection
  <2>6. \E c \in S : place[c] = k
    <3> HIDE DEF place
    <3>. QED  BY <2>5 DEF Surjection
  <2>. QED  BY <2>6
<1>. QED  BY <1>3, <1>4, <1>5

-----------------------------------------------------------------------------
(* Sums and counts.                                                        *)

\* The number of elements is the sum of as many ones.
LEMMA CountIsSum ==
  ASSUME NEW S, IsFiniteSet(S), NEW f, \A x \in S : f[x] = 1
  PROVE  Sum(f, S) = Cardinality(S)
<1> DEFINE T == {s \in SUBSET S : Sum(f, s) # Cardinality(s)}
<1>1. SUFFICES ASSUME T # {} PROVE FALSE
  OBVIOUS
<1>2. \A s \in T : IsFiniteSet(s)
  BY FS_Subset
<1>3. PICK s \in T : \A r \in T : r \subseteq s => r = s
  <2> HIDE DEF T
  <2>. QED  BY <1>1, <1>2, SmallestSet
<1>4. s # {}
  BY <1>3, SumEmpty, FS_EmptySet
<1>5. PICK x \in s : TRUE
  BY <1>4
<1>6. IsFiniteSet(s) /\ IntOn(f, s) /\ f[x] = 1 /\ s \subseteq S
  BY <1>2, <1>3, <1>5 DEF IntOn
<1>7. Sum(f, s) = 1 + Sum(f, s \ {x})
  BY <1>5, <1>6, SumRemove
<1>8. Sum(f, s \ {x}) = Cardinality(s \ {x})
  BY <1>3, <1>5, <1>6
<1>9. Cardinality(s \ {x}) = Cardinality(s) - 1 /\ Cardinality(s) \in Nat
  BY <1>5, <1>6, FS_RemoveElement, FS_CardinalityType
<1>. QED  BY <1>3, <1>7, <1>8, <1>9

=============================================================================
