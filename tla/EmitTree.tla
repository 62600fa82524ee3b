------------------------------ MODULE EmitTree ------------------------------
(***************************************************************************)
(* emit_json: the tree of a folded arena that the GUI and --json show,     *)
(* with the `top` largest children of each directory and one leaf for the  *)
(* others.                                                                 *)
(***************************************************************************)
EXTENDS SizeFold, SequencesExt

CONSTANT Tops  \* the values of cfg.top under study

ASSUME TopsAssumption == Tops \subseteq Nat

-----------------------------------------------------------------------------

\* The order of sort_by, which is stable, on the ascending lists of Csr.
Precedes(a, b) == sub[a] > sub[b] \/ (sub[a] = sub[b] /\ a < b)

\* The children in that order: so many precede the k-th.
Ranked(p) ==
  LET cs == ToSet(Of(p))
  IN [k \in 1 .. Len(Of(p)) |->
        CHOOSE c \in cs : Cardinality({d \in cs : Precedes(d, c)}) = k - 1]

RestAfterNext(ranked, keep) == SubSeq(ranked, keep + 2, Len(ranked))

Rest(ranked, keep) == SubSeq(ranked, keep + 1, Len(ranked))

Keep(ranked, top) == IF Len(ranked) < top THEN Len(ranked) ELSE top

\* The leaf that stands for the children left out.
MoreLeaf(p, rest) ==
  [n |-> <<p, "more">>, v |-> SumOver(LAMBDA c : sub[c], ToSet(rest)), c |-> <<>>]

\* What is written for each node; a child has a larger id, so it ends.
Emit(top) ==
  LET emit[p \in Ids] ==
        LET ranked == Ranked(p)
            keep == Keep(ranked, top)
            kept == [j \in 1 .. keep |-> emit[ranked[j]]]
        IN [n |-> <<p>>, v |-> sub[p],
            c |-> IF Len(ranked) > keep
                  THEN Append(kept, MoreLeaf(p, Rest(ranked, keep)))
                  ELSE kept]
  IN emit

(***************************************************************************)
(* "totals stay exact and the tree stays explorable-but-bounded"           *)
(* (internal.rs:453): what an emitted directory shows of its content, the  *)
(* leaf included, adds up with its own size to its total; there are at     *)
(* most `top` entries and the leaf; and no child that the leaf stands for  *)
(* is larger than one that is shown.                                       *)
(***************************************************************************)
EmittedTotals ==
  pc = "done" =>
    \A top \in Tops : \A p \in Ids :
      LET t == Emit(top)[p]
          shown == {c \in Children(p) : Emit(top)[c] \in ToSet(t.c)}
          bucket == {x \in ToSet(t.c) : Len(x.n) = 2}
          values == [k \in DOMAIN t.c |-> t.c[k].v]
      IN /\ t.v = (own[p] + SumOver(LAMBDA k : values[k], DOMAIN values)) % U64Mod
         /\ Len(t.c) <= top + 1
         /\ Len(t.c) = Cardinality(shown) + Cardinality(bucket)
         /\ \A c \in shown, d \in Children(p) \ shown : sub[d] <= sub[c]

=============================================================================
