------------------------------ MODULE CacheFile ------------------------------
(***************************************************************************)
(* Two other things made of an arena, and what is read back from them: the *)
(* QDirStat cache file (emit_cache, parse_qdirstat_cache) and the flat     *)
(* listing of a remote (build_tree_from_flat).                             *)
(*                                                                         *)
(* A text is a sequence of characters.  The character "nb" stands for      *)
(* white space above ASCII (U+00A0, U+2003, ...), which split_whitespace   *)
(* splits at and `esc` leaves alone.                                       *)
(***************************************************************************)
EXTENDS FileTypes

-----------------------------------------------------------------------------
(* Characters.                                                             *)

Decimal == <<"0", "1", "2", "3", "4", "5", "6", "7", "8", "9">>

\* The escaped characters with their codes.
Hex(ch) == CASE ch = " " -> <<"2", "0">> [] ch = "%" -> <<"2", "5">>

Chr(hi, lo) == IF <<hi, lo>> = Hex(" ") THEN " " ELSE IF <<hi, lo>> = Hex("%") THEN "%" ELSE "?"

Escaped(ch) == ch \in {" ", "%"}

Esc(s) == FlattenSeq([k \in DOMAIN s |-> IF Escaped(s[k]) THEN <<"%">> \o Hex(s[k]) ELSE <<s[k]>>])

RECURSIVE Unescape(_)
Unescape(s) ==
  IF s = <<>> THEN <<>>
  ELSE IF s[1] = "%" /\ Len(s) >= 3 THEN <<Chr(s[2], s[3])>> \o Unescape(SubSeq(s, 4, Len(s)))
  ELSE <<s[1]>> \o Unescape(Tail(s))

\* Acc::radix for radix 10.
RECURSIVE Digits(_)
Digits(v) == (IF v < 10 THEN <<>> ELSE Digits(v \div 10)) \o <<Decimal[(v % 10) + 1]>>

Parse(s) ==
  IF s # <<>> /\ ToSet(s) \subseteq ToSet(Decimal)
  THEN FoldLeft(LAMBDA v, ch : 10 * v + CHOOSE d \in 0 .. 9 : Decimal[d + 1] = ch, 0, s)
  ELSE 0

CacheSize(s) ==
  CASE Last(s) = "K" -> Parse(Front(s)) * 2 ^ 10
    [] Last(s) = "M" -> Parse(Front(s)) * 2 ^ 20
    [] Last(s) = "G" -> Parse(Front(s)) * 2 ^ 30
    [] OTHER -> Parse(s)

\* The non-empty pieces of s between separators.
Split(s, separators) ==
  LET cut == FoldLeft(LAMBDA ts, ch : IF ch \in separators THEN Append(ts, <<>>)
                                      ELSE [ts EXCEPT ![Len(ts)] = Append(@, ch)],
                      << <<>> >>, s)
  IN SelectSeq(cut, LAMBDA t : t # <<>>)

SplitWhitespace(s) == Split(s, {" ", "\t", "nb"})

Comps(path) == Split(path, {"/"})

-----------------------------------------------------------------------------
(* emit_cache.  A line has the size that stat gave, not what was summed.   *)
(* Of the rest of the tail only the uid is modelled: what follows, `blocks:` *)
(* and `links:` with it, is read by nobody here.                           *)

\* Mutant: the disk usage is written.
OwnAsSize(w, c) == own[c]

SizeField(w, c) == w.size[c]

CacheLine(w, ty, raw, c) ==
  <<ty, " ">> \o Esc(raw) \o <<"\t">> \o Digits(SizeField(w, c)) \o <<"\t">> \o Digits(0)

\* path.trim_end_matches('/') + '/' + name.
SubPath(path, name) == (IF Last(path) = "/" THEN Front(path) ELSE path) \o <<"/">> \o name

RECURSIVE CacheDir(_, _, _)
CacheDir(w, d, path) ==
  LET files == SelectSeq(Of(d), LAMBDA c : ~IsDir(c))
      dirs == SelectSeq(Of(d), LAMBDA c : IsDir(c))
  IN <<CacheLine(w, "D", path, d)>>
       \o [k \in DOMAIN files |->
             CacheLine(w, IF IsLink(files[k]) THEN "L" ELSE "F", w.name[files[k]], files[k])]
       \o FlattenSeq([k \in DOMAIN dirs |->
             CacheDir(w, dirs[k], SubPath(path, w.name[dirs[k]]))])

EmitCache(w) == CacheDir(w, 0, w.root)

-----------------------------------------------------------------------------
(* Arenas under construction; the k-th node has index k - 1 in the code.   *)
(* Both importers sum the sizes they read: own = sub = size.               *)

Node(par, name, isDir, isLink, size) ==
  [parent |-> par, name |-> name, is_dir |-> isDir, is_link |-> isLink, own |-> size]

Fresh == [nodes |-> <<Node(1, <<>>, TRUE, FALSE, 0)>>, dirmap |-> <<>>, cur |-> 1]

Pushed(st, node) == [st EXCEPT !.nodes = Append(@, node)]

\* Mutant: new folders are not entered in dirmap.
NewDirUnmapped(st, key) ==
  [Pushed(st, Node(st.cur, Last(key), TRUE, FALSE, 0)) EXCEPT !.cur = Len(st.nodes) + 1]

NewDir(st, key) ==
  [Pushed(st, Node(st.cur, Last(key), TRUE, FALSE, 0)) EXCEPT
     !.cur = Len(st.nodes) + 1,
     !.dirmap = (key :> Len(st.nodes) + 1) @@ @]

\* ensure_cache_dir, and the folders of a line in build_tree_from_flat.
EnsureDir(st, comps) ==
  FoldLeft(LAMBDA s, k :
             LET key == SubSeq(comps, 1, k)
             IN IF key \in DOMAIN s.dirmap THEN [s EXCEPT !.cur = s.dirmap[key]]
                ELSE NewDir(s, key),
           [st EXCEPT !.cur = 1], [k \in DOMAIN comps |-> k])

\* One line of a cache file; a file line may name its folder (version 1).
ParseLine(st, line) ==
  LET field == SplitWhitespace(line)
      name == Unescape(field[2])
      size == CacheSize(field[3])
      isLink == field[1] = <<"L">>
      dir == EnsureDir(st, Comps(name))
      holder == EnsureDir(st, Front(Comps(name)))
  IN IF field[1] = <<"D">> THEN [dir EXCEPT !.nodes[dir.cur].own = size]
     ELSE IF name[1] = "/"
     THEN [Pushed(holder, Node(holder.cur, Last(Comps(name)), FALSE, isLink, size)) EXCEPT
             !.cur = st.cur]
     ELSE Pushed(st, Node(st.cur, name, FALSE, isLink, size))

ParseCache(lines) == FoldLeft(ParseLine, Fresh, lines).nodes

\* What a remote lists: the files' sizes, and their paths below the remote.
RECURSIVE Below(_, _)
Below(w, c) == IF c = 0 THEN <<>> ELSE Append(Below(w, parent[c]), w.name[c])

Files == SelectSeq([k \in 1 .. n |-> k - 1], LAMBDA c : ~IsDir(c))

FlatLine(st, line) ==
  LET s == EnsureDir(st, Front(line.path))
  IN Pushed(s, Node(s.cur, Last(line.path), FALSE, FALSE, line.size))

BuildTreeFromFlat(lines) == FoldLeft(FlatLine, Fresh, lines).nodes

Lsf(w) == [k \in DOMAIN Files |-> [size |-> w.size[Files[k]], path |-> Below(w, Files[k])]]

-----------------------------------------------------------------------------

\* A tree as a set of entries known by their paths.
RECURSIVE PathIn(_, _)
PathIn(nodes, k) == IF k = 1 THEN <<>> ELSE Append(PathIn(nodes, nodes[k].parent), nodes[k].name)

Entry(path, isDir, isLink, size) == [path |-> path, dir |-> isDir, link |-> isLink, own |-> size]

EntriesOf(nodes) ==
  {Entry(PathIn(nodes, k), nodes[k].is_dir, nodes[k].is_link, nodes[k].own) : k \in DOMAIN nodes}

\* Where an importer finds node c.
Place(w, c) == Comps(w.root) \o Below(w, c)

\* The scanned entries, with the sizes stat gave them.
Scanned(w) == {Entry(Place(w, c), IsDir(c), IsLink(c), w.size[c]) : c \in Ids}

\* The folders above the scanned path, which an import adds.
Leading(w) == {Entry(SubSeq(Comps(w.root), 1, k), TRUE, FALSE, 0) : k \in 0 .. Len(Comps(w.root)) - 1}

Plain(w) == \A c \in Ids \ {0} : "nb" \notin ToSet(w.name[c])

Foldable(nodes) == \A k \in 2 .. Len(nodes) : nodes[k].parent < k

(***************************************************************************)
(* A cache file read back has every scanned entry once, under its name and *)
(* in its folder, with the size stat gave it, below the folders that lead  *)
(* to the scanned path; and a listing of a remote's files gives these      *)
(* files, with their sizes, and their folders.  Both arenas are parent-    *)
(* first, which the size fold needs.  Names with white space above ASCII   *)
(* come back mangled from a cache file, yet one for each file.             *)
(***************************************************************************)
Imports ==
  pc = "done" =>
    \A w \in Namings :
      LET cache == ParseCache(EmitCache(w))
          flat == BuildTreeFromFlat(Lsf(w))
          files == {c \in Ids : ~IsDir(c)}
          holders == {0} \cup UNION {Path[c] \ {c} : c \in files}
      IN /\ Foldable(cache) /\ Foldable(flat)
         /\ Len(SelectSeq(cache, LAMBDA nd : ~nd.is_dir)) = Cardinality(files)
         /\ Plain(w) =>
              /\ EntriesOf(cache) = Scanned(w) \cup Leading(w)
              /\ Len(cache) = n + Len(Comps(w.root))
         /\ EntriesOf(flat) = {Entry(Below(w, c), FALSE, FALSE, w.size[c]) : c \in files}
              \cup {Entry(Below(w, d), TRUE, FALSE, 0) : d \in holders}
         /\ Len(flat) = Cardinality(files) + Cardinality(holders)

(***************************************************************************)
(* "full fidelity" (internal.rs:536-537) of a cache file: read back, each  *)
(* scanned entry weighs what it weighed in the scan.  It does not hold     *)
(* where disk usage and size differ, or for the later links of a file: the *)
(* importer takes the size (main.rs:371, :386) and leaves `blocks:` and    *)
(* `links:`, which would tell, unread.                                     *)
(***************************************************************************)
FullFidelity ==
  pc = "done" =>
    \A w \in Namings :
      LET cache == ParseCache(EmitCache(w))
      IN Plain(w) =>
           \A c \in Ids : \E k \in DOMAIN cache :
             PathIn(cache, k) = Place(w, c) /\ cache[k].own = own[c]

=============================================================================
