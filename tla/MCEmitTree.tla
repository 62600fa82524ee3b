----------------------------- MODULE MCEmitTree -----------------------------
(* Every parent-first arena of up to six nodes, under three size patterns. *)
EXTENDS CacheFile

MaxNodes == 6

Parents(size) ==
  {p \in [0 .. size - 1 -> 0 .. size - 1] : p[0] = 0 /\ \A c \in 1 .. size - 1 : p[c] < c}

\* A subset of the first pattern is known by its sum; the second has ties;
\* the third, the sizes of sparse files with --apparent, overflows.
Patterns(size) ==
  {[c \in 0 .. size - 1 |-> 2 ^ c],
   [c \in 0 .. size - 1 |-> 1],
   [c \in 0 .. size - 1 |-> U64Mod - 40 + c]}

MCArenas ==
  UNION {[n : {size}, parent : Parents(size), own : Patterns(size)] : size \in 1 .. MaxNodes}

\* Sizes as stat gives them: below, above (sparse files) and equal to what the
\* arenas count.
Sizes(f(_)) == [c \in 0 .. MaxNodes - 1 |-> f(c)]

\* Names with a space, a percent sign, an escape, extensions and dots; below
\* the file system's root or not; and one with a wide space.
MCNamings ==
  {[root |-> <<"/">>, size |-> Sizes(LAMBDA c : 5 * c),
    name |-> <<<<"a", " ">>, <<"%", "2", "0">>, <<".", "t">>, <<"a", ".", "t">>, <<"b", ".", "t">>>>],
   [root |-> <<"/", "r", "%", "/", "s">>, size |-> Sizes(LAMBDA c : 130 - c),
    name |-> <<<<" ">>, <<"%">>, <<"2", "5", ".">>, <<"c", ".", "u">>, <<"d", ".", ".", "K">>>>],
   [root |-> <<"/", "r">>, size |-> Sizes(LAMBDA c : 1),
    name |-> <<<<"a", "nb", "b">>, <<"nb", "7">>, <<"a">>, <<"nb">>, <<"e">>>>]}

\* Two links of a file of 24 bytes that takes up 8, counted once.
LinkedArenas == {[n |-> 3, parent |-> [c \in 0 .. 2 |-> 0], own |-> (0 :> 4 @@ 1 :> 8 @@ 2 :> 0)]}

LinkedNamings ==
  {[root |-> <<"/">>, size |-> (0 :> 4 @@ 1 :> 24 @@ 2 :> 24), name |-> <<<<"a">>, <<"b">>>>]}

=============================================================================
