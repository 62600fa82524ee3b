------------------------------- MODULE GuiTree -------------------------------
(***************************************************************************)
(* The tree the GUI shows (app.html), the requests that change it and the  *)
(* server that answers them.  A node is an object with a `_p` link to its  *)
(* parent; an answer to /scan replaces the objects below the one it was    *)
(* asked for, while other handlers may hold on to the replaced ones.       *)
(*                                                                         *)
(* A handler runs in one go up to its next await.  The disk changes only   *)
(* when the server trashes a path.                                         *)
(***************************************************************************)
EXTENDS Integers, FiniteSetsExt

CONSTANTS
  Path,          \* what is on the disk at first
  Root,          \* the scanned folder
  Parent,        \* Parent[p]: the folder that holds p
  Own,           \* Own[p]: the size of p alone
  Hidden,        \* what falls into a "... (N more)" bucket with top=120
  RefreshDepth,  \* the depth of a scan after a trash, 6
  LazyDepth,     \* the depth of a scan that fills a bucket, 4
  Handler,       \* handlers that may wait at once
  MaxOps         \* bound on what the user starts

ASSUME GuiTreeAssumption ==
  /\ IsFiniteSet(Path) /\ Root \in Path /\ Hidden \subseteq Path \ {Root}
  /\ Parent \in [Path -> Path]
  /\ Own \in [Path -> Nat]
  /\ {RefreshDepth, LazyDepth} \subseteq Nat \ {0} /\ MaxOps \in Nat

\* The paths are a tree below Root: of any of them, one is topmost.
ASSUME TreeAssumption ==
  \A S \in (SUBSET Path) \ {{}} : \E p \in S : p = Root \/ Parent[p] \notin S

VARIABLES
  disk,    \* the paths that exist
  cached,  \* cached[k]: the disk the server's cached body of request k shows
  heap,    \* the objects of the client
  tree,    \* TREE
  view,    \* viewRoot
  req,     \* req[h]: the locals of handler h and where it waits
  ops,     \* what the user has started so far
  excuses  \* what has happened that makes shown sizes differ (a history)

vars == <<disk, cached, heap, tree, view, req, ops, excuses>>

-----------------------------------------------------------------------------
(* Paths and what the server says about them.                              *)

Above[p \in Path] == {p} \cup IF p = Root THEN {} ELSE Above[Parent[p]]

Below(p) == {q \in Path : p \in Above[q]}

\* A scan of p with max_depth lists the entries of so many levels.
Within(p, depth) ==
  {q \in Below(p) : Cardinality(Above[q]) - Cardinality(Above[p]) < depth}

NoLimit == Cardinality(Path) + 1

SumOf(f(_), S) == MapThenSumSet(f, S)

\* The entries a scan of p counts, and the totals it gives them.
Counted(D, p, depth) == D \cap Within(p, depth)

Totals(D, p, depth) ==
  [q \in Below(p) |-> SumOf(LAMBDA e : Own[e], Below(q) \cap Counted(D, p, depth))]

\* An answer: the disk the walk saw, what it counts, the totals, and what it
\* leaves in buckets.
Answer(D, p, depth, hides) ==
  [saw |-> D, counted |-> Counted(D, p, depth), v |-> Totals(D, p, depth), hides |-> hides]

Entries(D, p) == {q \in D \ {Root} : Parent[q] = p}

-----------------------------------------------------------------------------
(* Objects.  <<q, g>> is the object made for q of the g-th answer.         *)

NoObj == <<"none">>

PathOf(o) == o[1]

KidsIn(a, q, g) ==
  {<<e, g>> : e \in {x \in a.counted \ a.hides : x # Root /\ Parent[x] = q}}

InBucket(a, q) == {e \in a.counted \cap a.hides : Parent[e] = q}

Bucket(a, q) == SumOf(LAMBDA e : a.v[e], InBucket(a, q))

Made(a, q, g, par, total, loaded) ==
  [v |-> total, par |-> par, kids |-> KidsIn(a, q, g), more |-> Bucket(a, q),
   pruned |-> InBucket(a, q) # {}, loaded |-> loaded]

\* augment: objects at the top of an answer for o's path link to o itself.
\* Mutants: to the object of the answer; all of them to o.
LinkedToAnswer(q, g, o) == <<Parent[q], g>>

LinkedToTop(q, g, o) == o

LinkedTo(q, g, o) == IF Parent[q] = PathOf(o) THEN o ELSE <<Parent[q], g>>

\* The objects made for what is shown below p, whose own object is o.
MadeBelow(a, p, g, o) ==
  LET shown == {q \in a.counted \ {p} : Above[q] \cap a.hides = {}}
  IN [x \in {<<q, g>> : q \in shown} |->
        Made(a, PathOf(x), g, LinkedTo(PathOf(x), g, o), a.v[PathOf(x)], FALSE)]

\* The objects after those below o are replaced.
Graft(a, g, o, total) ==
  LET made == MadeBelow(a, PathOf(o), g, o)
      top == Made(a, PathOf(o), g, heap[o].par, total, TRUE)
  IN [x \in DOMAIN heap \cup DOMAIN made |->
        IF x \in DOMAIN made THEN made[x] ELSE IF x = o THEN top ELSE heap[x]]

\* augment(TREE, null, 0).
Loaded(a, g) ==
  LET top == <<Root, g>>
      made == MadeBelow(a, Root, g, top)
  IN [x \in {top} \cup DOMAIN made |->
        IF x = top THEN Made(a, Root, g, NoObj, a.v[Root], FALSE) ELSE made[x]]

\* The objects met by following _p.
Ancestors[o \in DOMAIN heap] ==
  IF heap[o].par = NoObj THEN {} ELSE {heap[o].par} \cup Ancestors[heap[o].par]

\* What hangs below an object, as opposed to one that was replaced.
Hangs(top) ==
  LET under[o \in DOMAIN heap] ==
        \/ o = top
        \/ heap[o].par # NoObj /\ o \in heap[heap[o].par].kids /\ under[heap[o].par]
  IN {o \in DOMAIN heap : under[o]}

\* What the user sees, and can click on.
Shown == Hangs(view)

Idle == [pc |-> "idle"]

Init ==
  /\ disk = Path
  /\ cached = [k \in {"scan"} \cup Path |-> {}]
  /\ heap = Loaded(Answer(Path, Root, NoLimit, Hidden), 0)
  /\ tree = <<Root, 0>>
  /\ view = <<Root, 0>>
  /\ req = [h \in Handler |-> Idle]
  /\ ops = 0
  /\ excuses = {}

-----------------------------------------------------------------------------
(* What the user starts.                                                   *)

Start(h, kind, o) ==
  /\ req[h] = Idle
  /\ ops < MaxOps
  /\ ops' = ops + 1
  /\ req' = [req EXCEPT ![h] =
       [kind |-> kind, pc |-> IF kind = "trash" THEN "act" ELSE "asked", node |-> o,
        g |-> ops + 1, old |-> 0, ans |-> <<>>]]

\* act('trash', node), confirmed; a bucket and the root cannot be trashed.
Trash(h) ==
  \E o \in Shown :
    /\ heap[o].par # NoObj
    /\ Start(h, "trash", o)
    /\ UNCHANGED <<disk, cached, heap, tree, view, excuses>>

Incomplete(o) == heap[o].pruned /\ ~heap[o].loaded

\* A folder is expanded, or becomes the view; a bucket in it is filled.
Open(h) ==
  \E o \in Shown :
    /\ heap[o].kids # {} \/ heap[o].pruned
    /\ view' \in {view, o}
    /\ IF Incomplete(o) THEN Start(h, "lazy", o) ELSE UNCHANGED <<req, ops>>
    /\ UNCHANGED <<disk, cached, heap, tree, excuses>>

\* Backspace and the path above the view lead up by _p.
Up ==
  /\ view' \in Ancestors[view]
  /\ UNCHANGED <<disk, cached, heap, tree, req, ops, excuses>>

\* The Scan and Rescan buttons; only the latter forces.
Scan(h) ==
  /\ Start(h, "scan", tree) \/ Start(h, "rescan", tree)
  /\ UNCHANGED <<disk, cached, heap, tree, view, excuses>>

-----------------------------------------------------------------------------
(* What the server does.                                                   *)

\* run_action: the path and all below it go to the trash, or an error.
ServerTrash(h) ==
  LET p == PathOf(req[h].node)
  IN /\ req[h].pc = "act"
     /\ \/ /\ p \in disk
           /\ disk' = disk \ Below(p)
           /\ req' = [req EXCEPT ![h].pc = "trashed"]
        \/ /\ req' = [req EXCEPT ![h] = Idle]
           /\ UNCHANGED disk
     /\ UNCHANGED <<cached, heap, tree, view, ops, excuses>>

\* scan_cached, unforced: a cached body is served while the folder itself
\* lists what it did.
Certified(D, p) == Entries(D, p) = Entries(disk, p) /\ (p \in D <=> p \in disk)

Served(k, p) == {D \in cached[k] : Certified(D, p)}

\* The kinds of requests have shapes of their own, so they share no body.
Key(h) == IF req[h].kind = "lazy" THEN PathOf(req[h].node) ELSE "scan"

Depth(kind) == CASE kind = "trash" -> RefreshDepth [] kind = "lazy" -> LazyDepth
                 [] OTHER -> NoLimit

Hides(kind) == IF kind \in {"scan", "rescan"} THEN Hidden ELSE {}

Forced(kind) == kind \in {"trash", "rescan"}

ServerAnswer(h) ==
  LET kind == req[h].kind
      p == PathOf(req[h].node)
      served == IF Forced(kind) THEN {} ELSE Served(Key(h), p)
      D == IF served = {} THEN disk ELSE CHOOSE E \in served : TRUE
  IN /\ req[h].pc = "asked"
     /\ req' = [req EXCEPT ![h].pc = "answered", ![h].ans = Answer(D, p, Depth(kind), Hides(kind))]
     /\ cached' = IF kind = "trash" THEN cached ELSE [cached EXCEPT ![Key(h)] = {D}]
     /\ UNCHANGED <<disk, heap, tree, view, ops, excuses>>

-----------------------------------------------------------------------------
(* The handlers go on.                                                     *)

\* Mutant: the folder in view, whichever it is by now.
RefreshedView(h) == view

\* The folder to scan again after a trash.
Refreshed(h) == heap[req[h].node].par

\* refreshSubtree(node._p) reads the old total and asks for a new one.
StartRefresh(h) ==
  LET o == Refreshed(h)
  IN /\ req[h].pc = "trashed"
     /\ req' = [req EXCEPT ![h].pc = "asked", ![h].node = o, ![h].old = heap[o].v]
     /\ UNCHANGED <<disk, cached, heap, tree, view, ops, excuses>>

\* The folder whose objects a handler replaces.
Area(h) ==
  LET p == PathOf(req[h].node)
  IN IF req[h].pc \in {"act", "trashed"} THEN Parent[p] ELSE p

Comparable(p, q) == p \in Above[q] \/ q \in Above[p]

\* Another handler waits that has to do with the folder this one replaces.
Tangles(h) ==
  IF \E k \in Handler \ {h} : req[k] # Idle /\ Comparable(Area(h), Area(k))
  THEN {"tangled"} ELSE {}

\* What the answer shows is not on the disk, or its depth cut it; or it fills
\* a bucket below a total that is not the disk's any more, and then its exact
\* sizes do not make up that total.
Misses(h) ==
  LET a == req[h].ans
      p == PathOf(req[h].node)
  IN (IF (a.saw \cap Below(p)) # (disk \cap Below(p)) THEN {"stale"} ELSE {})
       \cup (IF a.counted = a.saw \cap Below(p) THEN {}
            ELSE IF req[h].kind = "trash" THEN {"cut refresh"} ELSE {"cut fill"})
       \cup IF req[h].kind = "lazy" /\ excuses # {} THEN {"cut fill"} ELSE {}

\* The user looks at an object that is replaced.
LosesView(h) == IF req[h].node \in Ancestors[view] THEN {"view replaced"} ELSE {}

Resume(h, kind) == req[h].pc = "answered" /\ req[h].kind = kind

Finish(h) == req' = [req EXCEPT ![h] = Idle]

Replace(h) ==
  /\ excuses' = excuses \cup Misses(h) \cup Tangles(h) \cup LosesView(h)
  /\ Finish(h)
  /\ UNCHANGED <<disk, cached, tree, view, ops>>

\* Mutant: the fold stops at the parent.
AboveParentOnly(o) == IF heap[o].par = NoObj THEN {} ELSE {heap[o].par}

FoldedInto(o) == Ancestors[o]

NewTotal(h) == req[h].ans.v[PathOf(req[h].node)]

\* The rest of refreshSubtree: replace, and fold the difference up by _p.
FinishRefresh(h) ==
  LET o == req[h].node
      grafted == Graft(req[h].ans, req[h].g, o, NewTotal(h))
  IN /\ Resume(h, "trash")
     /\ heap' = [x \in DOMAIN grafted |->
                   IF x \in FoldedInto(o)
                   THEN [grafted[x] EXCEPT !.v = @ + NewTotal(h) - req[h].old]
                   ELSE grafted[x]]
     /\ Replace(h)

\* The rest of lazyLoad: the total stays as it was, and so does everything
\* else if the answer has no entries, and therefore no `c`.
FinishLazy(h) ==
  LET o == req[h].node
      a == req[h].ans
  IN /\ Resume(h, "lazy")
     /\ heap' = IF KidsIn(a, PathOf(o), 0) # {}
                THEN Graft(a, req[h].g, o, heap[o].v)
                ELSE [heap EXCEPT ![o].loaded = TRUE]
     /\ Replace(h)

\* loadScan: another tree.  Old objects live on in the handlers that wait.
FinishScan(h) ==
  LET made == Loaded(req[h].ans, req[h].g)
      kept == IF \A k \in Handler \ {h} : req[k] = Idle THEN {} ELSE DOMAIN heap
  IN /\ Resume(h, "scan") \/ Resume(h, "rescan")
     /\ heap' = [x \in kept \cup DOMAIN made |->
                   IF x \in DOMAIN made THEN made[x] ELSE heap[x]]
     /\ tree' = <<Root, req[h].g>>
     /\ view' = <<Root, req[h].g>>
     /\ excuses' = Misses(h) \cup Tangles(h)
     /\ Finish(h)
     /\ UNCHANGED <<disk, cached, ops>>

\* A request or its answer is lost: the handler shows an error and ends.
Lose(h) ==
  /\ req[h] # Idle
  /\ excuses' = IF req[h].kind = "trash" /\ req[h].pc # "act"
                THEN excuses \cup {"lost"} ELSE excuses
  /\ Finish(h)
  /\ UNCHANGED <<disk, cached, heap, tree, view, ops>>

HandlerStep(h) ==
  \/ Trash(h) \/ Open(h) \/ Scan(h)
  \/ ServerTrash(h) \/ ServerAnswer(h)
  \/ StartRefresh(h) \/ FinishRefresh(h) \/ FinishLazy(h) \/ FinishScan(h)
  \/ Lose(h)

Next == Up \/ \E h \in Handler : HandlerStep(h)

Spec == Init /\ [][Next]_vars

-----------------------------------------------------------------------------

ReqType ==
  [kind : {"trash", "lazy", "scan", "rescan"}, pc : {"act", "trashed", "asked", "answered"},
   node : DOMAIN heap, g : 1 .. MaxOps]

TypeOK ==
  /\ disk \subseteq Path
  /\ DOMAIN heap \subseteq Path \X (0 .. MaxOps)
  /\ {tree, view} \subseteq DOMAIN heap
  /\ \A o \in DOMAIN heap :
       /\ heap[o].v \in Int /\ heap[o].more \in Nat
       /\ heap[o].par \in DOMAIN heap \cup {NoObj}
       /\ heap[o].kids \subseteq DOMAIN heap
  /\ \A h \in Handler : req[h] # Idle =>
       [kind |-> req[h].kind, pc |-> req[h].pc, node |-> req[h].node, g |-> req[h].g] \in ReqType
  /\ ops \in 0 .. MaxOps

LiveObjs == Hangs(tree)

(***************************************************************************)
(* However answers arrive, TREE is a tree: each child of a node in it      *)
(* links back to that node, is named below it, and stands there once;      *)
(* fullPath, and so what a click on Trash removes, rests on it.            *)
(***************************************************************************)
WellFormed ==
  \A o \in LiveObjs :
    /\ \A k \in heap[o].kids : heap[k].par = o /\ Parent[PathOf(k)] = PathOf(o)
    /\ \A k, l \in heap[o].kids : PathOf(k) = PathOf(l) => k = l

(***************************************************************************)
(* "fold the size delta up the parent chain to the root" (app.html:194):   *)
(* each folder in TREE shows its own size and that of its children, bucket *)
(* included, at any time; unless requests about one folder overlapped, the *)
(* user looked at an object that was replaced, the answer after a trash    *)
(* was lost, or a bucket was filled from a cut or stale answer, or after   *)
(* anything else had made a shown total differ.                            *)
(***************************************************************************)
SumsAgree ==
  LET size == [o \in DOMAIN heap |-> heap[o].v]
  IN  excuses \subseteq {"cut refresh"} =>
        \A o \in LiveObjs :
          size[o] = Own[PathOf(o)] + heap[o].more + SumOf(LAMBDA k : size[k], heap[o].kids)

(***************************************************************************)
(* When nothing is under way, each folder shows what is on the disk, with  *)
(* the same exceptions, and if no answer was cut by its depth.  A scan     *)
(* that overlaps nothing and is not stale makes everything right again.    *)
(***************************************************************************)
ShownIsDisk ==
  excuses = {} /\ (\A h \in Handler : req[h] = Idle) =>
    \A o \in LiveObjs :
      heap[o].v = SumOf(LAMBDA q : Own[q], Below(PathOf(o)) \cap disk)

=============================================================================
