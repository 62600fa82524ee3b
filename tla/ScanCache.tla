------------------------------ MODULE ScanCache ------------------------------
(***************************************************************************)
(* scan_cached: the cache of /scan bodies that the server's connection     *)
(* threads share.  A body is filed under the canonical path and the shape  *)
(* asked for, and is served again while the directory's own mtime is the   *)
(* one read before it was scanned.  One action is one system call or one   *)
(* hold of the cache's mutex; the file system changes in between.          *)
(*                                                                         *)
(* The file system is external.  Its clock is coarse: several changes can  *)
(* carry one mtime.  Beside some definitions stands a variant with a slip  *)
(* one could make in the code; none is part of Spec.                       *)
(***************************************************************************)
EXTENDS Integers, FiniteSets, SequencesExt

CONSTANTS
  Dir,       \* canonical paths of directories
  Link,      \* paths that are symbolic links to directories
  Shape,     \* the top/depth/metric views one can ask for
  Request,   \* connection threads
  Cap,       \* SCAN_CACHE_CAP, 32 in the code
  MaxClock,  \* bound on the file system's clock
  MaxChanges \* bound on the number of changes to the file system

ASSUME ScanCacheAssumption ==
  /\ IsFiniteSet(Dir) /\ IsFiniteSet(Link) /\ IsFiniteSet(Shape)
  /\ Dir # {} /\ Dir \cap Link = {} /\ Shape # {}
  /\ Cap \in Nat \ {0}
  /\ MaxClock \in Nat /\ MaxChanges \in Nat

Path == Dir \cup Link

VARIABLES
  clock,    \* the file system's time
  alive,    \* directories that exist
  target,   \* where each link points
  mtime,    \* mtime of each path itself, not following links
  listing,  \* how often the entries of a directory, or a link, have changed
  growth,   \* how often something below it has grown, its mtime unchanged
  cache,    \* the bodies on file, by key
  lru,      \* its keys, by the time they were last touched
  req,      \* the state of each request
  rescanned \* the most growth that an answered Rescan has shown, by key

fs == <<clock, alive, target, mtime, listing, growth>>
vars == <<fs, cache, lru, req, rescanned>>

\* mtime_of gives None for a path that is gone.  A body is then filed with
\* i128::MIN, which no mtime equals.
NoMtime == -1

Key == Path \X Shape

Body == [dir : Path, shape : Shape, listing : Nat, growth : Nat]

\* struct Cached.  Two fields tell the properties how the entry came about:
\* `racy`, that the mtime was read within the clock tick it was set in, and
\* `via`, the path that was asked for.
Entry == [body : Body, root_mtime : Int, racy : BOOLEAN, via : Path]

Pc == {"idle", "mtime", "lookup", "touch", "scan", "insert"}

NoBody ==
  [dir |-> CHOOSE p \in Path : TRUE, shape |-> CHOOSE s \in Shape : TRUE,
   listing |-> 0, growth |-> 0]

NoEntry == [body |-> NoBody, root_mtime |-> NoMtime, racy |-> FALSE, via |-> NoBody.dir]

\* The locals of a request; `listed` and `owed` are what listing and
\* rescanned were when it read the mtime, for the properties.
Req ==
  [pc : Pc, path : Path, shape : Shape, force : BOOLEAN, canon : Path, now : Int,
   racy : BOOLEAN, entry : Entry, listed : Nat, owed : Nat]

Idle ==
  [pc |-> "idle", path |-> NoBody.dir, shape |-> NoBody.shape, force |-> FALSE,
   canon |-> NoBody.dir, now |-> NoMtime, racy |-> FALSE, entry |-> NoEntry,
   listed |-> 0, owed |-> 0]

Init ==
  /\ clock = 1
  /\ alive = Dir
  /\ target \in [Link -> Dir]
  /\ mtime = [p \in Path |-> 0]
  /\ listing = [p \in Path |-> 0]
  /\ growth = [p \in Path |-> 0]
  /\ cache = <<>>
  /\ lru = <<>>
  /\ req = [r \in Request |-> Idle]
  /\ rescanned = [k \in Key |-> 0]

-----------------------------------------------------------------------------
(* The file system.                                                        *)

Tick ==
  /\ clock < MaxClock
  /\ clock' = clock + 1
  /\ UNCHANGED <<alive, target, mtime, listing, growth>>

MayChange == MapThenSumSet(LAMBDA p : listing[p] + growth[p], Path) < MaxChanges

Stamp(p) ==
  /\ MayChange
  /\ listing' = [listing EXCEPT ![p] = @ + 1]
  /\ mtime' = [mtime EXCEPT ![p] = clock]
  /\ UNCHANGED <<clock, growth>>

\* An entry of d is added, removed or renamed.
Edit(d) == d \in alive /\ Stamp(d) /\ UNCHANGED <<alive, target>>

Delete(d) == d \in alive /\ Stamp(d) /\ alive' = alive \ {d} /\ UNCHANGED target

Create(d) == d \in Dir \ alive /\ Stamp(d) /\ alive' = alive \cup {d} /\ UNCHANGED target

Retarget(l, d) == Stamp(l) /\ target' = [target EXCEPT ![l] = d] /\ UNCHANGED alive

\* A file of d grows in place, or something changes below a subdirectory.
Grow(d) ==
  /\ d \in alive
  /\ MayChange
  /\ growth' = [growth EXCEPT ![d] = @ + 1]
  /\ UNCHANGED <<clock, alive, target, mtime, listing>>

FileSystem ==
  /\ \/ Tick
     \/ \E d \in Dir : Edit(d) \/ Delete(d) \/ Create(d) \/ Grow(d)
     \/ \E l \in Link, d \in Dir : Retarget(l, d)
  /\ UNCHANGED <<cache, lru, req, rescanned>>

-----------------------------------------------------------------------------
(* A request.                                                              *)

\* canonicalize fails on a path that leads nowhere; the path itself stands in.
Canonical(p) == IF p \in Link /\ target[p] \in alive THEN target[p] ELSE p

Ask(r) ==
  /\ req[r].pc = "idle"
  /\ \E p \in Path, s \in Shape, f \in BOOLEAN :
       req' = [req EXCEPT ![r].pc = "mtime", ![r].path = p, ![r].shape = s,
                          ![r].force = f, ![r].canon = Canonical(p)]
  /\ UNCHANGED <<fs, cache, lru, rescanned>>

\* lstat; a link is there even if it dangles.
MtimeOf(p) == IF p \in alive \cup Link THEN mtime[p] ELSE NoMtime

KeyOf(r) == <<req[r].canon, req[r].shape>>

ReadMtime(r) ==
  LET p == req[r].canon IN
  /\ req[r].pc = "mtime"
  /\ req' = [req EXCEPT ![r].pc = IF req[r].force THEN "scan" ELSE "lookup",
                        ![r].now = MtimeOf(p), ![r].racy = (MtimeOf(p) = clock),
                        ![r].listed = listing[p], ![r].owed = rescanned[KeyOf(r)]]
  /\ UNCHANGED <<fs, cache, lru, rescanned>>

Valid(r) ==
  /\ KeyOf(r) \in DOMAIN cache
  /\ req[r].now # NoMtime
  /\ cache[KeyOf(r)].root_mtime = req[r].now

Lookup(r) ==
  /\ req[r].pc = "lookup"
  /\ req' = IF Valid(r)
            THEN [req EXCEPT ![r].pc = "touch", ![r].entry = cache[KeyOf(r)]]
            ELSE [req EXCEPT ![r].pc = "scan"]
  /\ UNCHANGED <<fs, cache, lru, rescanned>>

\* `touched` is set to the present: the key comes last.
Touched(key) ==
  Append(IF key \in ToSet(lru)
         THEN RemoveAt(lru, CHOOSE i \in DOMAIN lru : lru[i] = key) ELSE lru, key)

TouchAnyway(r) ==
  /\ req[r].pc = "touch"
  /\ lru' = Touched(KeyOf(r))
  /\ req' = [req EXCEPT ![r] = Idle]
  /\ UNCHANGED <<fs, cache, rescanned>>

\* The mutex was let go after the lookup: the entry may have been evicted.
Touch(r) ==
  /\ req[r].pc = "touch"
  /\ lru' = IF KeyOf(r) \in DOMAIN cache THEN Touched(KeyOf(r)) ELSE lru
  /\ req' = [req EXCEPT ![r] = Idle]
  /\ UNCHANGED <<fs, cache, rescanned>>

\* The scan, without the lock, of the path as it was asked for.
Scan(r) ==
  LET d == Canonical(req[r].path)
      body == [dir |-> d, shape |-> req[r].shape, listing |-> listing[d], growth |-> growth[d]]
  IN /\ req[r].pc = "scan"
     /\ req' = [req EXCEPT ![r].pc = "insert",
                           ![r].entry = [body |-> body, root_mtime |-> NoMtime,
                                         racy |-> req[r].racy, via |-> req[r].path]]
     /\ UNCHANGED <<fs, cache, lru, rescanned>>

MtimeAtInsertion(r) == MtimeOf(req[r].canon)

MtimeToFile(r) == req[r].now

FullPastCap(key) == Cardinality(DOMAIN cache) > Cap /\ key \notin DOMAIN cache

Full(key) == Cardinality(DOMAIN cache) >= Cap /\ key \notin DOMAIN cache

\* Eviction and insertion under one hold of the mutex.
Insert(r) ==
  LET key == KeyOf(r)
      evicted == IF Full(key) THEN {Head(lru)} ELSE {}
      shown == req[r].entry.body
  IN /\ req[r].pc = "insert"
     /\ cache' = [k \in (DOMAIN cache \ evicted) \cup {key} |->
                    IF k = key THEN [req[r].entry EXCEPT !.root_mtime = MtimeToFile(r)]
                    ELSE cache[k]]
     /\ lru' = IF Full(key) THEN Append(Tail(lru), key) ELSE Touched(key)
     /\ rescanned' = IF req[r].force /\ shown.dir = req[r].canon
                     THEN [rescanned EXCEPT ![key] = Max({@, shown.growth})]
                     ELSE rescanned
     /\ req' = [req EXCEPT ![r] = Idle]
     /\ UNCHANGED fs

RequestStep(r) ==
  \/ Ask(r) \/ ReadMtime(r)
  \/ Lookup(r) \/ Touch(r)
  \/ Scan(r) \/ Insert(r)

Next == FileSystem \/ \E r \in Request : RequestStep(r)

Spec == Init /\ [][Next]_vars

-----------------------------------------------------------------------------

TypeOK ==
  /\ clock \in Nat
  /\ alive \subseteq Dir
  /\ target \in [Link -> Dir]
  /\ mtime \in [Path -> 0 .. clock]
  /\ listing \in [Path -> Nat]
  /\ growth \in [Path -> Nat]
  /\ DOMAIN cache \subseteq Key
  /\ \A k \in DOMAIN cache : cache[k] \in Entry
  /\ ToSet(lru) = DOMAIN cache
  /\ Len(lru) = Cardinality(DOMAIN cache)
  /\ req \in [Request -> Req]
  /\ rescanned \in [Key -> Nat]

(***************************************************************************)
(* The cache stays within its bound whatever requests insert concurrently. *)
(***************************************************************************)
CacheBounded == Cardinality(DOMAIN cache) <= Cap

\* Request r has found a body that it is about to serve without a scan.
Hit(r) == req[r].pc = "touch"

(***************************************************************************)
(* "unchanged => certify the cache" (main.rs:32): a served body is of the  *)
(* shape asked for and shows the entries the directory had when the        *)
(* request read its mtime, or later ones; requests that scan concurrently  *)
(* may insert in any order and directories may be removed and made again.  *)
(* There are exactly two exceptions: an entry whose mtime was read in the  *)
(* tick that set it, when a later change of that tick goes unseen, and one *)
(* that was asked for through a link which then led elsewhere.             *)
(***************************************************************************)
CertifiedIsCurrent ==
  \A r \in Request : Hit(r) =>
    LET e == req[r].entry IN
    /\ e.body.shape = req[r].shape
    /\ e.body.dir = req[r].canon \/ e.via \in Link
    /\ e.body.dir = req[r].canon /\ ~e.racy => e.body.listing >= req[r].listed

(***************************************************************************)
(* "... or eagerly via the Rescan button" (main.rs:35): once a Rescan of a *)
(* directory has been answered, later requests for it show nothing older.  *)
(* It does not hold: a scan that began before the Rescan can insert its    *)
(* older body after it, with the same mtime.                               *)
(***************************************************************************)
RescanSticks ==
  \A r \in Request : Hit(r) /\ req[r].entry.body.dir = req[r].canon =>
    req[r].entry.body.growth >= req[r].owed

=============================================================================
