------------------------------ MODULE FileTypes ------------------------------
(***************************************************************************)
(* type_stats_into: the sizes of a folded arena by file type, for names    *)
(* that are sequences of characters.                                       *)
(***************************************************************************)
EXTENDS EmitTree

CONSTANTS
  Namings,    \* Namings: a set of [root, name, size]: the scanned path, the
              \* nodes' names, and their sizes (st_size, where `own` is the
              \* disk usage that is summed, or 0 for an inode's later links)
  EmptyDirs,  \* nodes that are folders without having children
  Links,      \* nodes that are symbolic links, if they have no children
  MaxTypes    \* how many types are listed, 60

ASSUME NamingsAssumption ==
  /\ \A w \in Namings : w.root[1] = "/" /\ w.size \in [DOMAIN w.size -> Nat]
  /\ 0 \in EmptyDirs /\ EmptyDirs \cap Links = {}
  /\ MaxTypes \in Nat

IsDir(c) == Children(c) # {} \/ c \in EmptyDirs

IsLink(c) == ~IsDir(c) /\ c \in Links

\* The text after the last dot, if it is neither the first character nor the
\* last.
Ext(name) ==
  LET dots == {k \in DOMAIN name : name[k] = "."}
      last == Max(dots)
  IN IF dots # {} /\ last > 1 /\ last < Len(name) THEN SubSeq(name, last + 1, Len(name))
     ELSE <<"(no ext)">>

\* Mutant: symbolic links are taken for files.
TypedWithLinks == {c \in Ids : ~IsDir(c)}

Typed == {c \in Ids : ~IsDir(c) /\ ~IsLink(c)}

TypeStats(w) ==
  {LET of == {c \in Typed : Ext(w.name[c]) = ext}
   IN [e |-> ext, v |-> SumOver(LAMBDA c : sub[c], of), c |-> Cardinality(of)]
     : ext \in {Ext(w.name[c]) : c \in Typed}}

\* The largest types; a HashMap lists equal ones in any order.
TypesListed(w) ==
  {S \in kSubset(Min({MaxTypes, Cardinality(TypeStats(w))}), TypeStats(w)) :
     \A s \in S, t \in TypeStats(w) \ S : s.v >= t.v}

(***************************************************************************)
(* "per-extension size + count over the whole scan" (internal.rs:479): the *)
(* listed types with the folders' and links' own sizes make up the scan's  *)
(* total, as long as there are no more types than are listed; and if there *)
(* are more, what is listed is still no more than the total.               *)
(***************************************************************************)
TypesMakeTotal ==
  pc = "done" =>
    \A w \in Namings : \A listed \in TypesListed(w) :
      LET other == {c \in Ids : IsDir(c) \/ IsLink(c)}
          count == [t \in listed |-> t.c]
          size == [t \in listed |-> t.v]
          files == MapThenSumSet(LAMBDA t : count[t], listed)
          complete == Cardinality(listed) = Cardinality(TypeStats(w))
      IN /\ files + Cardinality(other) <= n
         /\ complete =>
              /\ files + Cardinality(other) = n
              /\ (SumOver(LAMBDA t : size[t], listed) + SumOver(LAMBDA c : own[c], other)) % U64Mod
                   = sub[0]

=============================================================================
