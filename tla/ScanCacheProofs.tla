-------------------------- MODULE ScanCacheProofs --------------------------
(***************************************************************************)
(* A certified body is current, and the cache is bounded, for any number   *)
(* of requests, directories and links, whatever changes between the steps. *)
(***************************************************************************)
EXTENDS ScanCache, DataLemmas

\* What the argument needs to know of the types.
Types ==
  /\ clock \in Nat
  /\ alive \subseteq Dir
  /\ target \in [Link -> Dir]
  /\ mtime \in [Path -> Nat]
  /\ \A p \in Path : mtime[p] <= clock
  /\ listing \in [Path -> Nat]
  /\ growth \in [Path -> Nat]
  /\ rescanned \in [Key -> Nat]
  /\ DOMAIN cache \subseteq Key
  /\ \A k \in DOMAIN cache : cache[k] \in Entry
  /\ req \in [Request -> Req]

\* Request r has read the mtime.
After(r) == req[r].pc \in {"lookup", "touch", "scan", "insert"}

\* Whoever reads, or has read, mtime m of p reads at most v entries' changes.
Fresh(p, m, v) ==
  /\ m < clock
  /\ mtime[p] = m => listing[p] <= v
  /\ \A r \in Request :
       After(r) /\ req[r].canon = p /\ req[r].now = m => req[r].listed <= v

\* What a request knows of the directory it asked for.
Asked(r) ==
  /\ After(r) => req[r].listed <= listing[req[r].canon]
  /\ req[r].pc # "idle" => req[r].path \in Link \/ req[r].canon = req[r].path
  /\ req[r].pc \in {"lookup", "scan"} /\ ~req[r].racy /\ req[r].now # NoMtime
       => Fresh(req[r].canon, req[r].now, req[r].listed)

\* An entry e is fit to be filed under key k with mtime m.
Fit(e, k, m) ==
  /\ e.body.shape = k[2]
  /\ e.body.dir = k[1] \/ e.via \in Link
  /\ e.body.dir = k[1] /\ ~e.racy /\ m # NoMtime => Fresh(k[1], m, e.body.listing)

\* A body about to be filed.
ToInsert(r) == req[r].pc = "insert" => Fit(req[r].entry, KeyOf(r), req[r].now)

Filed == \A k \in DOMAIN cache : Fit(cache[k], k, cache[k].root_mtime)

CInv ==
  /\ Types
  /\ \A r \in Request : Asked(r) /\ ToInsert(r)
  /\ Filed
  /\ CertifiedIsCurrent

LEMMA PathFacts ==
  /\ NoBody \in Body /\ NoEntry \in Entry /\ Idle \in Req
  /\ NoMtime \in Int /\ NoMtime < 0
<1>1. Path # {} /\ Shape # {}
  BY ScanCacheAssumption DEF Path
<1>2. NoBody \in Body
  <2>1. (CHOOSE p \in Path : TRUE) \in Path
    BY <1>1
  <2>2. (CHOOSE s \in Shape : TRUE) \in Shape
    BY <1>1
  <2>. QED  BY <2>1, <2>2 DEF NoBody, Body
<1>3. NoMtime \in Int /\ NoMtime < 0
  BY DEF NoMtime
<1>4. NoEntry \in Entry
  BY <1>2, <1>3 DEF NoEntry, Entry, Body
<1>. QED  BY <1>2, <1>3, <1>4 DEF Idle, Req, Pc, Body

LEMMA CInit == Init => CInv
<1> SUFFICES ASSUME Init PROVE CInv
  OBVIOUS
<1>1. \A r \in Request : req[r] = Idle /\ req[r].pc = "idle"
  BY DEF Init, Idle
<1>2. Types
  BY PathFacts, <1>1 DEF Init, Types
<1>3. \A r \in Request : Asked(r) /\ ToInsert(r)
  BY <1>1 DEF Asked, ToInsert, After
<1>4. Filed
  BY DEF Init, Filed
<1>5. CertifiedIsCurrent
  BY <1>1 DEF CertifiedIsCurrent, Hit
<1>. QED  BY <1>2, <1>3, <1>4, <1>5 DEF CInv

-----------------------------------------------------------------------------
(* The file system: a change gives a directory an mtime that no claim is   *)
(* about, since claims are about mtimes before the clock.                  *)

LEMMA FileSystemFrame ==
  ASSUME Types, FileSystem
  PROVE  /\ req' = req /\ cache' = cache /\ Types'
         /\ clock' >= clock
         /\ \A p \in Path : /\ listing'[p] >= listing[p]
                            /\ \/ mtime'[p] = mtime[p] /\ listing'[p] = listing[p]
                               \/ mtime'[p] = clock
<1>1. req' = req /\ cache' = cache /\ lru' = lru /\ rescanned' = rescanned
  BY DEF FileSystem
<1>2. CASE Tick
  BY <1>1, <1>2 DEF Tick, Types
<1>3. ASSUME NEW p \in Path, Stamp(p), alive' \subseteq Dir, target' \in [Link -> Dir]
      PROVE  /\ Types' /\ clock' = clock
             /\ \A q \in Path : /\ listing'[q] >= listing[q]
                                /\ \/ mtime'[q] = mtime[q] /\ listing'[q] = listing[q]
                                   \/ mtime'[q] = clock
  BY <1>1, <1>3 DEF Stamp, Types
<1>4. ASSUME NEW d \in Dir, Edit(d) \/ Delete(d) \/ Create(d)
      PROVE  d \in Path /\ Stamp(d) /\ alive' \subseteq Dir /\ target' \in [Link -> Dir]
  BY <1>4 DEF Edit, Delete, Create, Path, Types
<1>5. ASSUME NEW l \in Link, NEW d \in Dir, Retarget(l, d)
      PROVE  l \in Path /\ Stamp(l) /\ alive' \subseteq Dir /\ target' \in [Link -> Dir]
  BY <1>5 DEF Retarget, Path, Types
<1>6. ASSUME NEW d \in Dir, Grow(d)
      PROVE  /\ Types' /\ clock' = clock /\ mtime' = mtime /\ listing' = listing
  BY <1>1, <1>6 DEF Grow, Types, Path
<1>7. \/ Tick
      \/ \E d \in Dir : Edit(d) \/ Delete(d) \/ Create(d) \/ Grow(d)
      \/ \E l \in Link, d \in Dir : Retarget(l, d)
  BY DEF FileSystem
<1>8. CASE \E d \in Dir : Edit(d) \/ Delete(d) \/ Create(d)
  <2>1. PICK d \in Dir : Edit(d) \/ Delete(d) \/ Create(d)
    BY <1>8
  <2>2. /\ Types' /\ clock' = clock
        /\ \A q \in Path : /\ listing'[q] >= listing[q]
                           /\ \/ mtime'[q] = mtime[q] /\ listing'[q] = listing[q]
                              \/ mtime'[q] = clock
    BY <2>1, <1>3, <1>4
  <2>. QED  BY <1>1, <2>2 DEF Types
<1>9. CASE \E l \in Link, d \in Dir : Retarget(l, d)
  <2>1. PICK l \in Link, d \in Dir : Retarget(l, d)
    BY <1>9
  <2>2. /\ Types' /\ clock' = clock
        /\ \A q \in Path : /\ listing'[q] >= listing[q]
                           /\ \/ mtime'[q] = mtime[q] /\ listing'[q] = listing[q]
                              \/ mtime'[q] = clock
    BY <2>1, <1>3, <1>5
  <2>. QED  BY <1>1, <2>2 DEF Types
<1>10. CASE \E d \in Dir : Grow(d)
  BY <1>1, <1>6, <1>10 DEF Types
<1>. QED  BY <1>2, <1>7, <1>8, <1>9, <1>10

LEMMA FileSystemStep ==
  ASSUME CInv, FileSystem
  PROVE  CInv'
<1>1. /\ req' = req /\ cache' = cache /\ Types' /\ Types
      /\ clock' >= clock /\ clock \in Nat /\ clock' \in Nat
      /\ \A p \in Path : /\ listing'[p] >= listing[p]
                         /\ \/ mtime'[p] = mtime[p] /\ listing'[p] = listing[p]
                            \/ mtime'[p] = clock
  BY FileSystemFrame DEF CInv, Types
<1>2. \A r \in Request : (After(r)' <=> After(r)) /\ KeyOf(r)' = KeyOf(r)
  BY <1>1 DEF After, KeyOf
<1>3. ASSUME NEW p \in Path, NEW m \in Int, NEW v, Fresh(p, m, v)
      PROVE  Fresh(p, m, v)'
  BY <1>1, <1>2, <1>3 DEF Fresh
<1>4. ASSUME NEW e \in Entry, NEW k \in Key, NEW m \in Int, Fit(e, k, m)
      PROVE  Fit(e, k, m)'
  BY <1>3, <1>4 DEF Fit, Key
<1>5. ASSUME NEW r \in Request
      PROVE  Asked(r)' /\ ToInsert(r)'
  <2>1. req[r] \in Req /\ req[r].canon \in Path /\ req[r].now \in Int /\ KeyOf(r) \in Key
        /\ req[r].entry \in Entry /\ req[r].listed \in Nat
    BY <1>1 DEF Types, Req, KeyOf, Key
  <2>2. Asked(r) /\ ToInsert(r)
    BY DEF CInv
  <2>3. After(r) => req[r].listed <= listing'[req[r].canon]
    BY <1>1, <2>1, <2>2 DEF Asked, Types
  <2>4. Asked(r)'
    BY <1>1, <1>2, <1>3, <2>1, <2>2, <2>3 DEF Asked
  <2>5. ToInsert(r)'
    BY <1>1, <1>2, <1>4, <2>1, <2>2 DEF ToInsert
  <2>. QED  BY <2>4, <2>5
<1>6. Filed'
  <2>1. ASSUME NEW k \in DOMAIN cache
        PROVE  Fit(cache[k], k, cache[k].root_mtime)'
    <3>1. k \in Key /\ cache[k] \in Entry /\ cache[k].root_mtime \in Int
      BY <1>1 DEF Types, Entry
    <3>. QED  BY <1>1, <1>4, <3>1 DEF CInv, Filed
  <2>. QED  BY <1>1, <2>1 DEF Filed
<1>7. CertifiedIsCurrent'
  BY <1>1 DEF CInv, CertifiedIsCurrent, Hit
<1>. QED  BY <1>1, <1>5, <1>6, <1>7 DEF CInv

-----------------------------------------------------------------------------
(* A request's steps leave the file system alone.  Only ReadMtime makes a  *)
(* new reader, and it reads what the directory holds now.                  *)

LEMMA RequestTypes ==
  ASSUME Types, NEW r \in Request, RequestStep(r)
  PROVE  /\ UNCHANGED fs
         /\ \A q \in Request \ {r} : req'[q] = req[q]
         /\ Types'
<1>1. req \in [Request -> Req] /\ req[r] \in Req /\ KeyOf(r) \in Key
  BY DEF Types, Req, KeyOf, Key
<1>2. ASSUME NEW x \in Req, req' = [req EXCEPT ![r] = x]
      PROVE  req' \in [Request -> Req] /\ \A q \in Request \ {r} : req'[q] = req[q]
  BY <1>1, <1>2
<1>3. \A p \in Path : Canonical(p) \in Path /\ MtimeOf(p) \in Int
  BY PathFacts DEF Canonical, MtimeOf, Types, Path
<1>4. CASE Ask(r)
  <2>1. PICK p \in Path, s \in Shape, f \in BOOLEAN :
          req' = [req EXCEPT ![r].pc = "mtime", ![r].path = p, ![r].shape = s,
                             ![r].force = f, ![r].canon = Canonical(p)]
    BY <1>4 DEF Ask
  <2>2. req' \in [Request -> Req] /\ \A q \in Request \ {r} : req'[q] = req[q]
    BY <1>1, <1>3, <2>1 DEF Req, Pc
  <2>. QED  BY <1>4, <2>2 DEF Ask, Types, fs
<1>5. CASE ReadMtime(r)
  <2>1. req' \in [Request -> Req] /\ \A q \in Request \ {r} : req'[q] = req[q]
    BY <1>1, <1>3, <1>5, ZenonT(40) DEF ReadMtime, Req, Pc, Types
  <2>. QED  BY <1>5, <2>1 DEF ReadMtime, Types, fs
<1>6. CASE Lookup(r)
  <2>1. Valid(r) => cache[KeyOf(r)] \in Entry
    BY DEF Valid, Types
  <2>2. req' \in [Request -> Req] /\ \A q \in Request \ {r} : req'[q] = req[q]
    BY <1>1, <1>6, <2>1 DEF Lookup, Req, Pc
  <2>. QED  BY <1>6, <2>2 DEF Lookup, Types, fs
<1>7. CASE Touch(r)
  BY <1>2, <1>7, PathFacts DEF Touch, Types, fs
<1>8. CASE Scan(r)
  <2>1. [body |-> [dir |-> Canonical(req[r].path), shape |-> req[r].shape,
                   listing |-> listing[Canonical(req[r].path)],
                   growth |-> growth[Canonical(req[r].path)]],
         root_mtime |-> NoMtime, racy |-> req[r].racy, via |-> req[r].path] \in Entry
    BY <1>1, <1>3, PathFacts DEF Types, Req, Entry, Body
  <2>2. req' \in [Request -> Req] /\ \A q \in Request \ {r} : req'[q] = req[q]
    BY <1>1, <1>8, <2>1 DEF Scan, Req, Pc
  <2>. QED  BY <1>8, <2>2 DEF Scan, Types, fs
<1>9. CASE Insert(r)
  <2>1. /\ req' \in [Request -> Req] /\ \A q \in Request \ {r} : req'[q] = req[q]
        /\ UNCHANGED fs
    BY <1>2, <1>9, PathFacts DEF Insert
  <2>2. DOMAIN cache' \subseteq Key /\ \A k \in DOMAIN cache' : cache'[k] \in Entry
    BY <1>1, <1>9 DEF Insert, MtimeToFile, Types, Req, Entry
  <2>3. rescanned' \in [Key -> Nat]
    <3>1. \A a, b \in Nat : Max({a, b}) \in Nat
      BY DEF Max
    <3>2. req[r].entry.body.growth \in Nat
      BY <1>1 DEF Req, Entry, Body
    <3>3. rescanned \in [Key -> Nat]
      BY DEF Types
    <3>. QED  BY <1>1, <1>9, <3>1, <3>2, <3>3 DEF Insert
  <2>. QED  BY <2>1, <2>2, <2>3 DEF Types, fs
<1>. QED  BY <1>4, <1>5, <1>6, <1>7, <1>8, <1>9 DEF RequestStep

LEMMA StaysFresh ==
  ASSUME Types, NEW r \in Request, RequestStep(r),
         NEW p \in Path, NEW m \in Int, NEW v \in Nat, m # NoMtime, Fresh(p, m, v)
  PROVE  Fresh(p, m, v)'
<1>1. /\ UNCHANGED fs
      /\ \A q \in Request \ {r} : req'[q] = req[q]
  BY RequestTypes
<1>2. After(r)' /\ req'[r].canon = p /\ req'[r].now = m => req'[r].listed <= v
  <2>1. req[r] \in Req /\ r \in DOMAIN req
    BY DEF Types
  <2>2. CASE ReadMtime(r)
    <3>1. req'[r].canon = req[r].canon /\ req'[r].now = MtimeOf(req[r].canon)
          /\ req'[r].listed = listing[req[r].canon]
      BY <2>1, <2>2 DEF ReadMtime, Req
    <3>. QED  BY <3>1 DEF MtimeOf, Fresh
  <2>3. CASE Lookup(r) \/ Scan(r)
    <3>1. After(r) /\ req'[r].canon = req[r].canon /\ req'[r].now = req[r].now
          /\ req'[r].listed = req[r].listed
      BY <2>1, <2>3 DEF Lookup, Scan, After, Req
    <3>. QED  BY <3>1 DEF Fresh
  <2>4. CASE Ask(r)
    <3>1. req'[r].pc = "mtime"
      BY <2>1, <2>4 DEF Ask, Req
    <3>. QED  BY <3>1 DEF After
  <2>5. CASE Touch(r) \/ Insert(r)
    <3>1. req'[r].pc = "idle"
      BY <2>1, <2>5 DEF Touch, Insert, Idle
    <3>. QED  BY <3>1 DEF After
  <2>. QED  BY <2>2, <2>3, <2>4, <2>5 DEF RequestStep
<1>3. \A q \in Request \ {r} : After(q)' <=> After(q)
  BY <1>1 DEF After
<1>. QED  BY <1>1, <1>2, <1>3 DEF Fresh, fs

\* What r does to itself; the other requests keep what they knew.
Knows(r) == Asked(r) /\ ToInsert(r)

Serves(r) ==
  Hit(r) =>
    LET e == req[r].entry IN
    /\ e.body.shape = req[r].shape
    /\ e.body.dir = req[r].canon \/ e.via \in Link
    /\ e.body.dir = req[r].canon /\ ~e.racy => e.body.listing >= req[r].listed

LEMMA OwnStep ==
  ASSUME CInv, NEW r \in Request, RequestStep(r)
  PROVE  Knows(r)' /\ Serves(r)'
<1>1. /\ Types /\ Types' /\ UNCHANGED fs
      /\ \A q \in Request \ {r} : req'[q] = req[q]
  BY RequestTypes DEF CInv
<1>2. /\ req[r] \in Req /\ r \in DOMAIN req /\ KeyOf(r) \in Key
      /\ req[r].canon \in Path /\ req[r].path \in Path
      /\ req[r].now \in Int /\ req[r].listed \in Nat /\ req[r].entry \in Entry
      /\ listing[req[r].canon] \in Nat
  BY <1>1 DEF Types, Req, KeyOf, Key
<1>3. Asked(r) /\ ToInsert(r)
  BY DEF CInv
<1>4. ASSUME NEW p \in Path, NEW m \in Int, NEW v \in Nat, m # NoMtime, Fresh(p, m, v)
      PROVE  Fresh(p, m, v)'
  BY <1>1, <1>4, StaysFresh
<1>5. CASE Ask(r)
  <2>1. /\ req'[r].pc = "mtime"
        /\ req'[r].canon = Canonical(req'[r].path)
    BY <1>2, <1>5 DEF Ask, Req
  <2>. QED  BY <2>1 DEF Knows, Serves, Hit, Asked, ToInsert, After, Canonical
<1>6. CASE ReadMtime(r)
  <2>1. /\ req[r].pc = "mtime" /\ req'[r].pc \in {"lookup", "scan"}
        /\ req'[r].path = req[r].path /\ req'[r].canon = req[r].canon
        /\ req'[r].now = MtimeOf(req[r].canon)
        /\ req'[r].racy = (MtimeOf(req[r].canon) = clock)
        /\ req'[r].listed = listing[req[r].canon]
    BY <1>2, <1>6 DEF ReadMtime, Req
  <2>2. ASSUME ~req'[r].racy, req'[r].now # NoMtime
        PROVE  Fresh(req[r].canon, req[r].now, listing[req[r].canon])'
    <3>1. req'[r].now = mtime[req[r].canon] /\ req'[r].now # clock
      BY <2>1, <2>2 DEF MtimeOf
    <3>2. req'[r].now < clock
      BY <1>1, <1>2, <3>1 DEF Types
    <3>3. ASSUME NEW q \in Request, After(q)', req'[q].canon = req[r].canon
          PROVE  req'[q].listed <= listing[req[r].canon]
      <4>1. CASE q = r
        BY <1>2, <2>1, <4>1
      <4>2. CASE q # r
        <5>1. req'[q] = req[q] /\ After(q)
          BY <1>1, <3>3, <4>2 DEF After
        <5>. QED  BY <3>3, <5>1 DEF CInv, Asked
      <4>. QED  BY <4>1, <4>2
    <3>4. \A q \in Request :
            After(q)' /\ req'[q].canon = req'[r].canon /\ req'[q].now = req'[r].now
              => req'[q].listed <= listing'[req'[r].canon]
      BY <1>1, <2>1, <3>3 DEF fs
    <3>5. listing'[req'[r].canon] <= listing'[req'[r].canon] /\ req'[r].now < clock'
      BY <1>1, <1>2, <2>1, <3>2 DEF fs
    <3>. QED  BY <3>4, <3>5 DEF Fresh
  <2>3. Asked(r)'
    <3>1. req'[r].path \in Link \/ req'[r].canon = req'[r].path
      BY <1>3, <2>1 DEF Asked
    <3>2. req'[r].listed = listing'[req'[r].canon] /\ req'[r].listed \in Nat
      BY <1>1, <1>2, <2>1 DEF fs
    <3>3. ~req'[r].racy /\ req'[r].now # NoMtime
            => Fresh(req[r].canon, req[r].now, req[r].listed)'
      BY <1>1, <2>1, <2>2 DEF Fresh, fs
    <3>. QED  BY <3>1, <3>2, <3>3 DEF Asked
  <2>. QED  BY <2>1, <2>3 DEF Knows, Serves, Hit, ToInsert
<1>7. CASE Lookup(r)
  <2>1. /\ req[r].pc = "lookup" /\ After(r)
        /\ req'[r].path = req[r].path /\ req'[r].canon = req[r].canon
        /\ req'[r].now = req[r].now /\ req'[r].racy = req[r].racy
        /\ req'[r].listed = req[r].listed /\ req'[r].shape = req[r].shape
        /\ \/ req'[r].pc = "scan"
           \/ Valid(r) /\ req'[r].pc = "touch" /\ req'[r].entry = cache[KeyOf(r)]
    BY <1>2, <1>7 DEF Lookup, Req, After
  <2>2. Asked(r)'
    BY <1>1, <1>2, <1>3, <1>4, <2>1 DEF Asked, After, fs
  <2>3. CASE req'[r].pc = "scan"
    BY <2>2, <2>3 DEF Knows, Serves, Hit, ToInsert
  <2>4. CASE Valid(r) /\ req'[r].pc = "touch" /\ req'[r].entry = cache[KeyOf(r)]
    <3>1. Fit(cache[KeyOf(r)], KeyOf(r), req[r].now) /\ req[r].now # NoMtime
      BY <2>4 DEF CInv, Filed, Valid
    <3>2. KeyOf(r)[1] = req[r].canon /\ KeyOf(r)[2] = req[r].shape
      BY DEF KeyOf
    <3>3. cache[KeyOf(r)].body.listing \in Nat
      BY <1>1, <2>4 DEF Valid, Types, Entry, Body
    <3>4. Serves(r)'
      BY <1>2, <2>1, <2>4, <3>1, <3>2, <3>3 DEF Serves, Fit, Fresh
    <3>. QED  BY <2>2, <2>4, <3>4 DEF Knows, ToInsert
  <2>. QED  BY <2>1, <2>3, <2>4
<1>8. CASE Touch(r) \/ Insert(r)
  <2>1. req'[r].pc = "idle"
    BY <1>2, <1>8 DEF Touch, Insert, Idle
  <2>. QED  BY <2>1 DEF Knows, Serves, Hit, Asked, ToInsert, After
<1>9. CASE Scan(r)
  <2> DEFINE d == Canonical(req[r].path)
  <2>1. /\ req[r].pc = "scan" /\ req'[r].pc = "insert" /\ After(r)
        /\ req'[r].path = req[r].path /\ req'[r].canon = req[r].canon
        /\ req'[r].now = req[r].now /\ req'[r].racy = req[r].racy
        /\ req'[r].listed = req[r].listed /\ req'[r].shape = req[r].shape
        /\ req'[r].entry.body.dir = d /\ req'[r].entry.body.shape = req[r].shape
        /\ req'[r].entry.body.listing = listing[d]
        /\ req'[r].entry.racy = req[r].racy /\ req'[r].entry.via = req[r].path
    BY <1>2, <1>9 DEF Scan, Req, After
  <2>2. Asked(r)'
    BY <1>1, <1>2, <1>3, <1>4, <2>1 DEF Asked, After, fs
  <2>3. req[r].path \in Link \/ d = req[r].canon
    BY <1>3, <2>1 DEF Asked, Canonical
  <2>4. ASSUME d = req[r].canon, ~req[r].racy, req[r].now # NoMtime
        PROVE  Fresh(req[r].canon, req[r].now, req[r].entry.body.listing)'
    <3>1. Fresh(req[r].canon, req[r].now, req[r].listed) /\ req[r].listed <= listing[d]
      BY <1>3, <2>1, <2>4 DEF Asked
    <3>2. Fresh(req[r].canon, req[r].now, listing[d])
      <4>1. \A q \in Request : req[q].listed \in Nat
        BY <1>1 DEF Types, Req
      <4>. QED  BY <1>2, <2>4, <3>1, <4>1 DEF Fresh
    <3>3. listing[d] \in Nat
      BY <1>2, <2>4
    <3>. QED  BY <1>2, <1>4, <2>1, <2>4, <3>2, <3>3 DEF Fresh
  <2>5. KeyOf(r)'[1] = req[r].canon /\ KeyOf(r)'[2] = req[r].shape
    BY <2>1 DEF KeyOf
  <2>6. Fit(req[r].entry, KeyOf(r), req[r].now)'
    <3>1. /\ KeyOf(r)'[1] = req'[r].canon
          /\ req'[r].entry.body.dir = req'[r].canon /\ ~req'[r].entry.racy
             /\ req'[r].now # NoMtime
               => Fresh(KeyOf(r)[1], req[r].now, req[r].entry.body.listing)'
      BY <2>1, <2>4, <2>5 DEF Fresh
    <3>. QED  BY <2>1, <2>3, <2>5, <3>1 DEF Fit
  <2>. QED  BY <2>1, <2>2, <2>6 DEF Knows, Serves, Hit, ToInsert
<1>. QED  BY <1>5, <1>6, <1>7, <1>8, <1>9 DEF RequestStep

LEMMA FiledStep ==
  ASSUME CInv, NEW r \in Request, RequestStep(r)
  PROVE  Filed'
<1>1. Types /\ Types'
  BY RequestTypes DEF CInv
<1>2. ASSUME NEW k \in Key, NEW e \in Entry, NEW m \in Int, Fit(e, k, m)
      PROVE  Fit(e, k, m)'
  <2>1. k[1] \in Path /\ e.body.listing \in Nat
    BY DEF Key, Entry, Body
  <2>. QED  BY <1>1, <1>2, <2>1, StaysFresh DEF Fit
<1>3. ASSUME NEW k \in DOMAIN cache
      PROVE  /\ k \in Key /\ cache[k] \in Entry /\ cache[k].root_mtime \in Int
             /\ Fit(cache[k], k, cache[k].root_mtime)
  BY <1>1 DEF CInv, Filed, Types, Entry
<1>4. CASE UNCHANGED cache
  <2>1. ASSUME NEW k \in DOMAIN cache
        PROVE  Fit(cache[k], k, cache[k].root_mtime)'
    BY <1>2, <1>3, <1>4
  <2>. QED  BY <1>4, <2>1 DEF Filed
<1>5. CASE Insert(r)
  <2> DEFINE e == [req[r].entry EXCEPT !.root_mtime = req[r].now]
  <2>1. /\ req[r] \in Req /\ KeyOf(r) \in Key /\ req[r].now \in Int
        /\ req[r].entry \in Entry
    BY <1>1 DEF Types, Req, KeyOf, Key
  <2>2. /\ e \in Entry /\ e.root_mtime = req[r].now /\ e.body = req[r].entry.body
        /\ e.racy = req[r].entry.racy /\ e.via = req[r].entry.via
    BY <2>1 DEF Entry
  <2>3. Fit(req[r].entry, KeyOf(r), req[r].now)
    BY <1>5 DEF CInv, ToInsert, Insert
  <2>4. Fit(e, KeyOf(r), req[r].now)
    BY <2>2, <2>3 DEF Fit
  <2>5. ASSUME NEW k \in DOMAIN cache'
        PROVE  \/ k = KeyOf(r) /\ cache'[k] = e
               \/ k \in DOMAIN cache /\ cache'[k] = cache[k]
    BY <1>5 DEF Insert, MtimeToFile
  <2>6. ASSUME NEW k \in DOMAIN cache'
        PROVE  \E x \in Entry : x = cache'[k] /\ k \in Key /\ Fit(x, k, x.root_mtime)
    BY <1>3, <2>1, <2>2, <2>4, <2>5
  <2>7. \A k \in DOMAIN cache' : Fit(cache[k], k, cache[k].root_mtime)'
    <3> TAKE k \in DOMAIN cache'
    <3>1. PICK x \in Entry : x = cache'[k] /\ k \in Key /\ Fit(x, k, x.root_mtime)
      BY <2>6
    <3>2. x.root_mtime \in Int
      BY DEF Entry
    <3>3. Fit(x, k, x.root_mtime)'
      BY <1>2, <3>1, <3>2
    <3>. QED  BY <3>1, <3>3 DEF Fit, Fresh, After
  <2>. QED  BY <2>7 DEF Filed
<1>. QED
  BY <1>4, <1>5 DEF RequestStep, Ask, ReadMtime, Lookup, Touch, Scan

LEMMA RequestKeeps ==
  ASSUME CInv, NEW r \in Request, RequestStep(r)
  PROVE  CInv'
<1>1. /\ Types /\ Types' /\ UNCHANGED fs
      /\ \A q \in Request \ {r} : req'[q] = req[q]
  BY RequestTypes DEF CInv
<1>2. Knows(r)' /\ Serves(r)'
  BY OwnStep
<1>3. ASSUME NEW q \in Request \ {r}
      PROVE  Knows(q)' /\ Serves(q)'
  <2>1. /\ req[q] \in Req /\ KeyOf(q) \in Key /\ req[q].canon \in Path
        /\ req[q].now \in Int /\ req[q].listed \in Nat
        /\ req[q].entry \in Entry /\ req[q].entry.body.listing \in Nat
    BY <1>1 DEF Types, Req, KeyOf, Key, Entry, Body
  <2>2. Asked(q) /\ ToInsert(q) /\ Serves(q)
    BY DEF CInv, CertifiedIsCurrent, Serves
  <2>3. req'[q] = req[q] /\ (After(q)' <=> After(q)) /\ KeyOf(q)' = KeyOf(q)
    BY <1>1 DEF After, KeyOf
  <2>4. ASSUME NEW v \in Nat, req[q].now # NoMtime, Fresh(req[q].canon, req[q].now, v)
        PROVE  Fresh(req[q].canon, req[q].now, v)'
    <3>1. ASSUME NEW p \in Path, NEW m \in Int, m # NoMtime, Fresh(p, m, v)
          PROVE  Fresh(p, m, v)'
      BY <1>1, <3>1, StaysFresh
    <3>. QED  BY <2>1, <2>3, <2>4, <3>1 DEF Fresh
  <2>5. Asked(q)'
    BY <1>1, <2>1, <2>2, <2>3, <2>4 DEF Asked, fs, Fresh
  <2>6. ToInsert(q)'
    BY <2>1, <2>2, <2>3, <2>4 DEF ToInsert, Fit, Fresh, KeyOf
  <2>7. Serves(q)'
    BY <2>2, <2>3 DEF Serves, Hit
  <2>. QED  BY <2>5, <2>6, <2>7 DEF Knows
<1>4. \A q \in Request : Asked(q)' /\ ToInsert(q)' /\ Serves(q)'
  BY <1>2, <1>3 DEF Knows
<1>5. Filed'
  BY FiledStep
<1>. QED  BY <1>1, <1>4, <1>5 DEF CInv, CertifiedIsCurrent, Serves

LEMMA Stutters == ASSUME CInv, UNCHANGED vars PROVE CInv'
  BY DEF CInv, Types, Asked, ToInsert, Filed, CertifiedIsCurrent, Hit,
         Fit, Fresh, After, KeyOf, vars, fs

\* A body is served without a scan only while what it lists is what the
\* directory held when the request read its mtime, or newer, whatever the
\* other requests file and evict and the file system does meanwhile.  The
\* tick in which a change and the reading fall together, and links, are the
\* exceptions that CertifiedIsCurrent names.
THEOREM CertifiedBodiesAreCurrent == Spec => []CertifiedIsCurrent
<1>1. Init => CInv
  BY CInit
<1>2. CInv /\ [Next]_vars => CInv'
  BY FileSystemStep, RequestKeeps, Stutters DEF Next
<1>3. CInv => CertifiedIsCurrent
  BY DEF CInv
<1>. QED  BY <1>1, <1>2, <1>3, PTL DEF Spec

-----------------------------------------------------------------------------
(* The cache's bound.                                                      *)

\* The order of the cache lists its keys, each once.
LruInv ==
  /\ lru \in Seq(Key) /\ IsInjective(lru) /\ ToSet(lru) = DOMAIN cache
  /\ CacheBounded

LEMMA TouchedLast ==
  ASSUME LruInv, NEW key \in Key
  PROVE  /\ Touched(key) \in Seq(Key) /\ IsInjective(Touched(key))
         /\ ToSet(Touched(key)) = DOMAIN cache \cup {key}
<1>. lru \in Seq(Key) /\ IsInjective(lru) /\ ToSet(lru) = DOMAIN cache
  BY DEF LruInv
<1> DEFINE k == CHOOSE i \in DOMAIN lru : lru[i] = key
           rest == IF key \in ToSet(lru) THEN RemoveAt(lru, k) ELSE lru
<1>1. rest \in Seq(Key) /\ IsInjective(rest) /\ ToSet(rest) = DOMAIN cache \ {key}
  <2>1. CASE key \in ToSet(lru)
    <3>1. k \in DOMAIN lru /\ lru[k] = key
      BY <2>1 DEF ToSet
    <3> HIDE DEF k
    <3>2. /\ RemoveAt(lru, k) \in Seq(Key) /\ IsInjective(RemoveAt(lru, k))
          /\ ToSet(RemoveAt(lru, k)) = ToSet(lru) \ {lru[k]}
      BY <3>1, TakeOut
    <3>. QED  BY <2>1, <3>1, <3>2
  <2>2. CASE key \notin ToSet(lru)
    BY <2>2
  <2>. QED  BY <2>1, <2>2
<1>2. Touched(key) = Append(rest, key)
  BY DEF Touched
<1> HIDE DEF rest
<1>3. /\ Append(rest, key) \in Seq(Key) /\ ToSet(Append(rest, key)) = ToSet(rest) \cup {key}
      /\ IsInjective(Append(rest, key))
  BY <1>1, AppendApart, AppendProperties
<1>. QED  BY <1>1, <1>2, <1>3

LEMMA LruCount ==
  ASSUME LruInv
  PROVE  /\ IsFiniteSet(DOMAIN cache) /\ Len(lru) = Cardinality(DOMAIN cache)
         /\ Cardinality(DOMAIN cache) \in Nat /\ Cap \in Nat \ {0}
BY LenIsCardinality, FS_CardinalityType, ScanCacheAssumption DEF LruInv

LEMMA InsertKeepsBound ==
  ASSUME Types, LruInv, NEW r \in Request, Insert(r)
  PROVE  LruInv'
<1> DEFINE key == KeyOf(r)
           D == DOMAIN cache
<1>1. key \in Key
  BY DEF Types, Req, KeyOf, Key
<1>2. /\ lru \in Seq(Key) /\ IsInjective(lru) /\ ToSet(lru) = D
      /\ IsFiniteSet(D) /\ Cardinality(D) \in Nat /\ Cap \in Nat \ {0} /\ Cardinality(D) <= Cap
  BY LruCount DEF LruInv, CacheBounded
<1>3. CASE Full(key)
  <2>1. lru # <<>> /\ key \notin D
    <3>1. Cardinality(D) # 0 /\ key \notin D
      BY <1>2, <1>3 DEF Full
    <3>. QED  BY <1>2, <3>1, FS_EmptySet, ToSetOfSeq
  <2>2. DOMAIN cache' = (D \ {Head(lru)}) \cup {key} /\ lru' = Append(Tail(lru), key)
    BY <1>3 DEF Insert
  <2>3. /\ Tail(lru) \in Seq(Key) /\ IsInjective(Tail(lru))
        /\ ToSet(Tail(lru)) = D \ {Head(lru)} /\ Head(lru) \in D
    BY <1>2, <2>1, TakeAnEnd, EndsOfSeq
  <2> HIDE DEF key, D
  <2>4. /\ Append(Tail(lru), key) \in Seq(Key) /\ IsInjective(Append(Tail(lru), key))
        /\ ToSet(Append(Tail(lru), key)) = (D \ {Head(lru)}) \cup {key}
    BY <1>1, <2>1, <2>3, AppendApart, AppendProperties, ZenonT(40)
  <2>5. Cardinality((D \ {Head(lru)}) \cup {key}) = Cardinality(D)
    <3>1. /\ IsFiniteSet(D \ {Head(lru)})
          /\ Cardinality(D \ {Head(lru)}) = Cardinality(D) - 1
      BY <1>2, <2>3, FS_RemoveElement
    <3>2. PICK W : W = D \ {Head(lru)}
      OBVIOUS
    <3>3. IsFiniteSet(W) /\ key \notin W /\ Cardinality(W) = Cardinality(D) - 1
      BY <2>1, <3>1, <3>2
    <3>4. Cardinality(W \cup {key})
            = IF key \in W THEN Cardinality(W) ELSE Cardinality(W) + 1
      BY <3>3, FS_AddElement
    <3>5. Cardinality(W \cup {key}) = Cardinality(D)
      BY <1>2, <3>3, <3>4
    <3>. QED  BY <3>2, <3>5
  <2>. QED  BY <1>2, <2>2, <2>4, <2>5 DEF LruInv, CacheBounded
<1>4. CASE ~Full(key)
  <2>1. DOMAIN cache' = D \cup {key} /\ lru' = Touched(key)
    BY <1>4 DEF Insert
  <2>2. Cardinality(D \cup {key}) <= Cap
    <3>1. CASE key \in D
      <4>1. D \cup {key} = D
        BY <3>1
      <4>. QED  BY <1>2, <4>1
    <3>2. CASE key \notin D
      <4>1. Cardinality(D) < Cap
        BY <1>2, <1>4, <3>2 DEF Full
      <4> HIDE DEF D, key
      <4>2. Cardinality(D \cup {key})
              = IF key \in D THEN Cardinality(D) ELSE Cardinality(D) + 1
        BY <1>2, FS_AddElement
      <4>. QED  BY <1>2, <3>2, <4>1, <4>2
    <3>. QED  BY <3>1, <3>2
  <2>3. /\ Touched(key) \in Seq(Key) /\ IsInjective(Touched(key))
        /\ ToSet(Touched(key)) = D \cup {key}
    BY <1>1, TouchedLast
  <2>. QED  BY <2>1, <2>2, <2>3 DEF LruInv, CacheBounded
<1>. QED  BY <1>3, <1>4

LEMMA LruStep ==
  ASSUME Types, LruInv, [Next]_vars
  PROVE  LruInv'
<1>1. CASE \E r \in Request : Insert(r)
  BY <1>1, InsertKeepsBound
<1>2. CASE \E r \in Request : Touch(r)
  <2>1. PICK r \in Request : Touch(r)
    BY <1>2
  <2>2. KeyOf(r) \in Key
    BY DEF Types, Req, KeyOf, Key
  <2>3. cache' = cache
    BY <2>1 DEF Touch
  <2>4. lru' = lru \/ (lru' = Touched(KeyOf(r)) /\ KeyOf(r) \in DOMAIN cache)
    BY <2>1 DEF Touch
  <2>5. /\ Touched(KeyOf(r)) \in Seq(Key) /\ IsInjective(Touched(KeyOf(r)))
        /\ ToSet(Touched(KeyOf(r))) = DOMAIN cache \cup {KeyOf(r)}
    BY <2>2, TouchedLast
  <2>6. lru' \in Seq(Key) /\ IsInjective(lru') /\ ToSet(lru') = DOMAIN cache
    BY <2>4, <2>5 DEF LruInv
  <2>. QED  BY <2>3, <2>6 DEF LruInv, CacheBounded
<1>3. CASE ~(\E r \in Request : Insert(r) \/ Touch(r))
  <2>1. cache' = cache /\ lru' = lru
    BY <1>3 DEF Next, FileSystem, RequestStep, Ask, ReadMtime, Lookup, Scan, vars
  <2>. QED  BY <2>1 DEF LruInv, CacheBounded
<1>. QED  BY <1>1, <1>2, <1>3

LEMMA LruInit == Init => LruInv
<1> SUFFICES ASSUME Init PROVE LruInv
  OBVIOUS
<1> DEFINE e == <<>>
<1>1. lru = e /\ cache = e /\ DOMAIN cache = {}
  BY DEF Init
<1>2. e \in Seq(Key) /\ DOMAIN e = {}
  OBVIOUS
<1> HIDE DEF e
<1>3. IsInjective(e) /\ ToSet(e) = {}
  BY <1>2 DEF IsInjective, ToSet
<1>4. Cardinality({}) = 0 /\ Cap \in Nat
  BY FS_EmptySet, ScanCacheAssumption
<1>. QED  BY <1>1, <1>2, <1>3, <1>4 DEF LruInv, CacheBounded

LEMMA CStep == CInv /\ [Next]_vars => CInv'
BY FileSystemStep, RequestKeeps, Stutters DEF Next

LEMMA BoundInvariant == Spec => [](CInv /\ LruInv)
<1>1. Init => CInv /\ LruInv
  BY CInit, LruInit
<1>2. CInv /\ LruInv /\ [Next]_vars => (CInv /\ LruInv)'
  BY CStep, LruStep DEF CInv
<1>. QED  BY <1>1, <1>2, PTL DEF Spec

(***************************************************************************)
(* However many requests scan at once and insert what they found, in any   *)
(* order, the cache keeps SCAN_CACHE_CAP bodies at most.                   *)
(***************************************************************************)
THEOREM CacheStaysBounded == Spec => []CacheBounded
<1>1. LruInv => CacheBounded
  BY DEF LruInv
<1>. QED  BY BoundInvariant, <1>1, PTL

(***************************************************************************)
(* The types, and with them that the order of eviction lists the keys on   *)
(* file, each once: an evicted key is on file, and a key touched after its *)
(* eviction does not come back without a body.                             *)
(***************************************************************************)
THEOREM CacheTypeCorrect == Spec => []TypeOK
<1>1. CInv /\ LruInv => TypeOK
  <2> SUFFICES ASSUME CInv, LruInv PROVE TypeOK
    OBVIOUS
  <2>1. Types
    BY DEF CInv
  <2>2. mtime \in [Path -> 0 .. clock]
    <3>1. clock \in Nat /\ mtime \in [Path -> Nat]
      BY <2>1 DEF Types
    <3>2. \A p \in Path : mtime[p] \in 0 .. clock
      BY <2>1, <3>1 DEF Types
    <3>. QED  BY <3>1, <3>2
  <2>3. ToSet(lru) = DOMAIN cache /\ Len(lru) = Cardinality(DOMAIN cache)
    BY LruCount DEF LruInv
  <2>. QED  BY <2>1, <2>2, <2>3 DEF TypeOK, Types
<1>. QED  BY BoundInvariant, <1>1, PTL

=============================================================================
