------------------------------- MODULE Cleaner -------------------------------
(***************************************************************************)
(* `sdirstat clean` (clean.rs): list what can be reclaimed, then remove    *)
(* what was listed.  Other programs create and delete files meanwhile, and *)
(* a removal may fail half way.                                            *)
(*                                                                         *)
(* A path has its kind for good; what changes is which paths exist.        *)
(***************************************************************************)
EXTENDS Naturals, SequencesExt

CONSTANTS
  Path,      \* every path that ever exists
  Spare,     \* those that do not exist at first
  Optional,  \* those that may or may not exist at first
  Parent,    \* Parent[p]: the folder p is in, p itself for a top folder
  Kind,      \* Kind[p]: "dir", "file" or "link"
  Target,    \* Target[p]: what p resolves to, p itself unless it is a link
  Ino,       \* Ino[p]: the file p is a name of
  Len1,      \* Len1[p]: the length lstat gives for p
  Caches,    \* the six cache folders below $HOME
  Temp,      \* entries of /tmp whose names are listed
  Logs,      \* entries of /var/log whose names are listed
  Locked,    \* folders whose entries this user may or may not remove
  MaxOther   \* bound on what other programs do

Candidates == Caches \cup Temp \cup Logs

ASSUME CleanerAssumption ==
  /\ Spare \subseteq Path /\ Optional \subseteq Path /\ Candidates \subseteq Path /\ Locked \subseteq Path
  /\ Parent \in [Path -> Path] /\ Target \in [Path -> Path]
  /\ Kind \in [Path -> {"dir", "file", "link"}]
  /\ Len1 \in [Path -> Nat]
  /\ DOMAIN Ino = Path
  /\ \A p \in Path : Kind[Parent[p]] = "dir" /\ (Kind[p] # "link" => Target[p] = p)
  /\ \A p \in Spare : Kind[p] = "file"
  /\ Caches \cap Temp = {} /\ Caches \cap Logs = {} /\ Temp \cap Logs = {}
  /\ MaxOther \in Nat

\* The way up ends: of any paths, one is topmost.
ASSUME TreeAssumption ==
  /\ IsFiniteSet(Path)
  /\ \A S \in (SUBSET Path) \ {{}} : \E p \in S : Parent[p] \in S => Parent[p] = p

VARIABLES
  fs,      \* the paths that exist
  denied,  \* the folders whose entries cannot be removed
  mode,    \* what is asked: "list", "dry run" (the library's) or "apply"
  pc,
  seen,    \* the candidates looked at
  report,  \* CleanReport.items
  result,  \* CleanResult
  gone,    \* what the cleaner has removed (a history)
  others   \* what other programs have done

vars == <<fs, denied, mode, pc, seen, report, result, gone, others>>

-----------------------------------------------------------------------------

Above[p \in Path] == {p} \cup IF Parent[p] = p THEN {} ELSE Above[Parent[p]]

Below(p) == {q \in Path : p \in Above[q]}

SumOf(f(_), S) == MapThenSumSet(f, S)

\* Mutant: metadata that follows links.
DirSizeFollowing(p) == SumOf(LAMBDA q : Len1[Target[q]], {q \in fs \cap Below(p) : Kind[q] # "dir"})

\* dir_size: the lengths of what is not a folder; links are not followed.
DirSize(p) == SumOf(LAMBDA q : Len1[q], {q \in fs \cap Below(p) : Kind[q] # "dir"})

\* exists and metadata follow a link.
Resolves(p) == p \in fs /\ Target[p] \in fs

IsDir(p) == Kind[Target[p]] = "dir"

\* The items for a candidate that resolves: a cache that is not empty ...
CacheItem(p) ==
  [path |-> p, isDir |-> TRUE, bytes |-> IF IsDir(p) THEN DirSize(Target[p]) ELSE 0]

\* ... something in /tmp ...
TempItem(p) ==
  [path |-> p, isDir |-> IsDir(p),
   bytes |-> IF IsDir(p) THEN DirSize(Target[p]) ELSE Len1[Target[p]]]

\* ... and in /var/log, where nothing is taken for a folder.
LogItem(p) == [path |-> p, isDir |-> FALSE, bytes |-> Len1[Target[p]]]

Item(p) ==
  IF p \in Caches THEN CacheItem(p) ELSE IF p \in Temp THEN TempItem(p) ELSE LogItem(p)

\* Mutant: empty folders are listed too.
ListsEmpty(p) == Resolves(p)

Lists(p) == Resolves(p) /\ (p \in Logs \/ Item(p).bytes > 0)

Bytes == [k \in DOMAIN report |-> report[k].bytes]

TotalBytes == SumOf(LAMBDA k : Bytes[k], DOMAIN report)

NoResult == [reclaimed |-> 0, deleted |-> 0, errors |-> <<>>]

Init ==
  /\ fs \in {Path \ (Spare \cup missing) : missing \in SUBSET Optional}
  /\ denied \in SUBSET Locked
  /\ mode \in {"list", "dry run", "apply"}
  /\ pc = "scan"
  /\ seen = {}
  /\ report = <<>>
  /\ result = NoResult
  /\ gone = {}
  /\ others = 0

-----------------------------------------------------------------------------
(* scan_cleanable: the caches, then /tmp, then /var/log.                   *)

InTurn(p) ==
  /\ p \in Temp => Caches \subseteq seen
  /\ p \in Logs => (Caches \cup Temp) \subseteq seen

Look(p) ==
  /\ pc = "scan"
  /\ InTurn(p)
  /\ seen' = seen \cup {p}
  /\ report' = IF Lists(p) THEN Append(report, Item(p)) ELSE report
  /\ UNCHANGED <<fs, denied, mode, pc, result, gone, others>>

\* The report is printed; without --apply or --yes that is all.
Listed ==
  /\ pc = "scan"
  /\ seen = Candidates
  /\ pc' = IF mode = "list" THEN "done" ELSE "execute"
  /\ UNCHANGED <<fs, denied, mode, seen, report, result, gone, others>>

-----------------------------------------------------------------------------
(* execute_clean: one item after the other.                                *)

Handled == result.deleted + Len(result.errors)

Current == report[Handled + 1]

Executing(m) == pc = "execute" /\ mode = m /\ Handled < Len(report)

Reclaimed(item) ==
  [result EXCEPT !.reclaimed = @ + item.bytes, !.deleted = @ + 1]

\* Mutant: a failure is counted like a success of no bytes.
FailedQuietly(item) == [result EXCEPT !.deleted = @ + 1]

Failed(item) == [result EXCEPT !.errors = Append(@, item.path)]

CountOnly ==
  /\ Executing("dry run")
  /\ result' = Reclaimed(Current)
  /\ UNCHANGED <<fs, denied, mode, pc, seen, report, gone, others>>

MayUnlink(q) == q \in fs /\ Parent[q] \notin denied /\ fs \cap Below(q) = {q}

\* Mutant: a link to a folder is followed.
DoomedThroughLink(item) == IF item.isDir THEN Below(Target[item.path]) ELSE {item.path}

\* What a call for an item removes, given the time: remove_dir_all takes a
\* link for what it is, remove_file refuses a folder.
Doomed(item) ==
  IF item.isDir THEN Below(item.path)
  ELSE IF Kind[item.path] = "dir" THEN {} ELSE {item.path}

\* The call has removed one more entry, but not yet the item itself.
RemoveInside(q) ==
  /\ Executing("apply")
  /\ q \in Doomed(Current) \ {Current.path}
  /\ MayUnlink(q)
  /\ fs' = fs \ {q}
  /\ gone' = gone \cup {q}
  /\ UNCHANGED <<denied, mode, pc, seen, report, result, others>>

RemoveItem ==
  /\ Executing("apply")
  /\ Current.path \in Doomed(Current)
  /\ MayUnlink(Current.path)
  /\ fs' = fs \ {Current.path}
  /\ gone' = gone \cup {Current.path}
  /\ result' = Reclaimed(Current)
  /\ UNCHANGED <<denied, mode, pc, seen, report, others>>

\* It is not there, cannot be removed in this way, or something in it cannot
\* be: denied, or made by others after the call listed its folder.
CannotRemove(item) ==
  \/ item.path \notin fs
  \/ Doomed(item) = {}
  \/ \E q \in Doomed(item) \cap fs : Parent[q] \in denied \/ q \in Spare

RemoveFails ==
  /\ Executing("apply")
  /\ CannotRemove(Current)
  /\ result' = Failed(Current)
  /\ UNCHANGED <<fs, denied, mode, pc, seen, report, gone, others>>

End ==
  /\ pc = "execute"
  /\ Handled = Len(report)
  /\ pc' = "done"
  /\ UNCHANGED <<fs, denied, mode, seen, report, result, gone, others>>

-----------------------------------------------------------------------------
(* Other programs create and delete files.                                 *)

Other(p) ==
  /\ pc # "done"
  /\ others < MaxOther
  /\ others' = others + 1
  /\ Kind[p] = "file"
  /\ \/ p \in fs /\ fs' = fs \ {p}
     \/ p \in Spare \ fs /\ Parent[p] \in fs /\ fs' = fs \cup {p}
  /\ UNCHANGED <<denied, mode, pc, seen, report, result, gone>>

Exited == pc = "done" /\ UNCHANGED vars

Next ==
  \/ \E p \in Candidates \ seen : Look(p)
  \/ Listed \/ CountOnly
  \/ \E q \in Path : RemoveInside(q)
  \/ RemoveItem \/ RemoveFails \/ End
  \/ \E p \in Path : Other(p)
  \/ Exited

Spec == Init /\ [][Next]_vars

-----------------------------------------------------------------------------

TypeOK ==
  /\ fs \subseteq Path /\ gone \subseteq Path /\ seen \subseteq Candidates
  /\ denied \subseteq Locked
  /\ pc \in {"scan", "execute", "done"}
  /\ \A i \in DOMAIN report :
       report[i].path \in seen /\ report[i].bytes \in Nat
         /\ (report[i].isDir => report[i].bytes > 0)
  /\ result.deleted \in 0 .. Len(report) /\ result.reclaimed \in 0 .. TotalBytes
  /\ others \in 0 .. MaxOther

ItemPaths == {report[i].path : i \in DOMAIN report}

(***************************************************************************)
(* What the user was shown bounds what is lost: whatever happens between   *)
(* the listing and the removal, and wherever a link listed for removal     *)
(* points, nothing goes but the paths on the list and what was in these    *)
(* folders, and nothing at all without --apply.                            *)
(***************************************************************************)
OnlyListedGoes ==
  /\ mode # "apply" => gone = {}
  /\ gone \subseteq ItemPaths \cup UNION {Below(p) : p \in ItemPaths}

Quiet == others = 0

\* No candidate lies in another, as a home in a listed folder of /tmp would
\* have it.
Apart == \A p \in Candidates : \A q \in Candidates \ {p} : q \notin Below(p)

ErrorPaths == ToSet(result.errors)

(***************************************************************************)
(* "... across {deleted} items ({errors} errors)" (main.rs:860) covers the *)
(* list: when no other program interferes and no item lies in another, an  *)
(* item is among the errors exactly when its path is still there, the      *)
(* totals of the two add up to the total shown before, and a new listing   *)
(* finds the failed items only.                                            *)
(***************************************************************************)
AccountsForAll ==
  pc = "done" /\ mode = "apply" =>
    /\ Handled = Len(report)
    /\ Quiet /\ Apart =>
         /\ ErrorPaths = ItemPaths \cap fs
         /\ \A p \in Candidates : Lists(p) => p \in ErrorPaths
         /\ result.reclaimed
              + SumOf(LAMBDA k : Bytes[k],
                      {k \in DOMAIN report : report[k].path \in ErrorPaths}) = TotalBytes

\* The bytes freed by now: of the files none of whose names is left.
Freed ==
  LET lost == {n \in {Ino[p] : p \in gone} : \A p \in fs : Ino[p] # n}
      nameOf(n) == CHOOSE p \in gone : Ino[p] = n
      length == [n \in lost |-> IF Kind[nameOf(n)] = "dir" THEN 0 ELSE Len1[nameOf(n)]]
  IN SumOf(LAMBDA n : length[n], lost)

Linked == \E p \in ItemPaths : Kind[p] = "link"

\* A file of which a name went has another.
Shared == \E p \in gone, q \in fs \cup gone : p # q /\ Ino[p] = Ino[q]

(***************************************************************************)
(* "reclaims disk space with byte-exact precision" (clean.rs:5): the bytes *)
(* said to be reclaimed are those of the files that are gone, as long as   *)
(* nothing else writes, no item lies in another, no removal failed half    *)
(* way, no item is a link (its bytes are those of what it points to) and   *)
(* no file that went has a second name (it would count twice, or free      *)
(* nothing).                                                               *)
(***************************************************************************)
ByteExact ==
  pc = "done" /\ mode = "apply" /\ Quiet /\ Apart /\ ~Linked /\ ~Shared
    /\ (\A e \in ErrorPaths : gone \cap Below(e) = {}) => result.reclaimed = Freed

=============================================================================
