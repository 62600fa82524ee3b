------------------------------ MODULE UringWalk ------------------------------
(***************************************************************************)
(* parallel_scan_iouring: the io_uring backend of a scan.  The workers     *)
(* share their directories as those of ParallelWalk do; what differs is    *)
(* how one reads a directory.  It allocates the ids of all entries at once *)
(* and keeps up to QD statx calls in flight through a ring of its own,     *)
(* which the kernel answers in any order.                                  *)
(*                                                                         *)
(* The kernel reads the ring only at enter, so what a worker does between  *)
(* two calls of enter, or to one completion, is one action, cut where it   *)
(* accesses a variable the workers share.                                  *)
(***************************************************************************)
EXTENDS ParallelWalk

CONSTANTS
  QD,           \* the slots of a ring, IOURING_QD
  SubmitAt,     \* queued calls that are submitted at once, 128 in the code
  StMinors,     \* st_dev packs a device as major * StMinors + minor (256)
  StatxMinors,  \* decode_statx packs it as major * StatxMinors + minor (2^32)
  Kernels       \* the kernels under study

\* short: enter may take fewer calls than it is given (out of memory).
\* scarce: io_uring_setup may fail (unavailable, forbidden, locked memory).
KernelType == [short : BOOLEAN, scarce : BOOLEAN]

ASSUME UringAssumption ==
  /\ {QD, SubmitAt, StMinors, StatxMinors} \subseteq Nat \ {0}
  /\ Kernels \subseteq KernelType

\* The minor numbers are below StMinors, where st_dev packs them as above, and
\* st_dev has no bit in the half of the other packing that holds the major.
ASSUME DeviceAssumption ==
  /\ StMinors <= StatxMinors
  /\ \A e \in Entry : Meta[e].dev < StatxMinors

VARIABLES
  kernel,  \* the kernel of this scan
  ring,    \* ring[t]: what worker t shares with the kernel, if it is set up
  batch    \* batch[t]: the locals of worker t's batch loop

uring == <<kernel, ring, batch>>
uvars == <<vars, uring>>

Slot == 0 .. QD - 1

NoRing == [up |-> FALSE]

\* Ring and sxbuf.  sqe[s] is the entry the call at slot s names, sq the
\* slots queued and not taken, inflight the calls taken, cq their completions,
\* buf[s] the entry whose statx was last written to slot s.
EmptyRing ==
  [up |-> TRUE, sqe |-> [s \in Slot |-> Root], sq |-> <<>>, inflight |-> {},
   cq |-> <<>>, buf |-> [s \in Slot |-> Root]]

\* rl is the entries' records, next the entries queued, done those completed.
EmptyBatch ==
  [rl |-> <<>>, next |-> 0, done |-> 0, to_submit |-> 0, comp |-> <<>>,
   slot_entry |-> [s \in Slot |-> 0], free |-> [j \in 1 .. QD |-> QD - j]]

UInit ==
  /\ Init
  /\ kernel \in Kernels
  /\ ring = [t \in Workers |-> NoRing]
  /\ batch = [t \in Workers |-> EmptyBatch]

-----------------------------------------------------------------------------

\* Ring::setup maps the ring, or panics; the scope joins the other workers
\* and panics too.
Setup(t) ==
  /\ pc[t] = "own" /\ ~ring[t].up
  /\ \/ /\ ring' = [ring EXCEPT ![t] = EmptyRing]
        /\ UNCHANGED pc
     \/ /\ kernel.scarce
        /\ pc' = [pc EXCEPT ![t] = "panic"]
        /\ UNCHANGED ring
  /\ UNCHANGED <<shared, off, item, todo, id, childdirs, local, kernel, batch>>

GetDirectory(t) ==
  /\ ring[t].up
  /\ PopOwn(t) \/ Steal(t) \/ CheckActive(t)
  /\ UNCHANGED uring

\* The ceiling is read before the directory is listed, and nothing is reserved
\* of what it leaves: until OpenAt the other workers may take ids.
CheckLimits(t) ==
  /\ pc[t] = "guard"
  /\ pc' = [pc EXCEPT ![t] = IF MayDescend(t) THEN "open" ELSE "entry"]
  /\ UNCHANGED <<shared, off, item, todo, id, childdirs, local, uring>>

\* O_NOFOLLOW: a scanned path that is a symbolic link cannot be opened.
MayOpen(d) == Meta[d].is_dir

BaseAfterAdd(k) == counter + k

Base(k) == counter

\* openat and getdents; when either fails, what has been listed remains.  The
\* ids are taken when the whole listing is there.
OpenAt(t) ==
  /\ pc[t] = "open"
  /\ LET d == item[t].dir IN
     \/ /\ MayOpen(d)
        /\ \E k \in IF d \in Flaky THEN 0 .. Len(Listing[d]) ELSE {Len(Listing[d])} :
             /\ counter' = counter + k
             /\ batch' = [batch EXCEPT ![t].rl =
                  [j \in 1 .. k |-> [id |-> Base(k) + j - 1, parent |-> item[t].id,
                                     entry |-> Listing[d][j], own |-> 0, is_dir |-> FALSE]]]
        /\ pc' = [pc EXCEPT ![t] = "batch"]
     \/ /\ ~MayOpen(d) \/ d \in Flaky
        /\ pc' = [pc EXCEPT ![t] = "entry"]
        /\ UNCHANGED <<counter, batch>>
  /\ UNCHANGED <<cfg, root_dev, active, seen, deque, recs, nodes,
                 off, item, todo, id, childdirs, local, kernel, ring>>

-----------------------------------------------------------------------------
(* The batch loop.                                                         *)

MayQueue(b) == b.next < Len(b.rl) /\ b.free # <<>>

QueuedRing(r, slot, e) == [r EXCEPT !.sqe[slot] = e, !.sq = Append(@, slot)]

QueuedBatch(b) ==
  [b EXCEPT !.free = Front(@), !.slot_entry[Last(b.free)] = b.next + 1,
            !.next = @ + 1, !.to_submit = @ + 1]

\* How many of the queued calls the kernel may take, the oldest first.
Taken(r, submit) ==
  LET most == Min({submit, Len(r.sq)})
  IN IF kernel.short THEN 0 .. most ELSE {most}

NothingReset(b) == b

AfterEnter(b) == [b EXCEPT !.to_submit = 0]

SubmittedRing(r, taken) ==
  [r EXCEPT !.sq = SubSeq(@, taken + 1, Len(@)),
            !.inflight = @ \cup {<<r.sq[j], r.sqe[r.sq[j]]>> : j \in 1 .. taken}]

\* queue_statx, with the enter(to_submit, 0) that follows every SubmitAt-th.
Queue(t) ==
  LET b == batch[t]
      r == QueuedRing(ring[t], Last(b.free), b.rl[b.next + 1].entry)
      submit == b.to_submit + 1
  IN /\ pc[t] = "batch" /\ MayQueue(b)
     /\ IF submit >= SubmitAt
        THEN \E n \in Taken(r, submit) :
               /\ ring' = [ring EXCEPT ![t] = SubmittedRing(r, n)]
               /\ batch' = [batch EXCEPT ![t] = AfterEnter(QueuedBatch(b))]
        ELSE /\ ring' = [ring EXCEPT ![t] = r]
             /\ batch' = [batch EXCEPT ![t] = QueuedBatch(b)]
     /\ UNCHANGED <<vars, kernel>>

\* enter(to_submit, 1).  A call that takes fewer than it is given returns
\* without waiting; its result is not looked at.
Enter(t) ==
  LET b == batch[t]
  IN /\ pc[t] = "batch" /\ b.done < Len(b.rl) /\ ~MayQueue(b)
     /\ \E n \in Taken(ring[t], b.to_submit) :
          /\ ring' = [ring EXCEPT ![t] = SubmittedRing(@, n)]
          /\ pc' = [pc EXCEPT ![t] = IF n < b.to_submit THEN "reap" ELSE "wait"]
     /\ batch' = [batch EXCEPT ![t] = AfterEnter(@)]
     /\ UNCHANGED <<shared, off, item, todo, id, childdirs, local, kernel>>

Answered(r, op, ok) ==
  [r EXCEPT !.inflight = @ \ {op}, !.cq = Append(@, [slot |-> op[1], ok |-> ok]),
            !.buf[op[1]] = IF ok THEN op[2] ELSE @]

\* The kernel answers a call, whichever it likes.
Complete(t) ==
  /\ ring[t].up
  /\ \E op \in ring[t].inflight, ok \in BOOLEAN :
       /\ ok \/ op[2] \in Flaky
       /\ ring' = [ring EXCEPT ![t] = Answered(@, op, ok)]
  /\ UNCHANGED <<vars, kernel, batch>>

\* enter has seen a completion; reap drains all there are.
Reap(t) ==
  /\ \/ pc[t] = "wait" /\ ring[t].cq # <<>>
     \/ pc[t] = "reap"
  /\ batch' = [batch EXCEPT ![t].comp = ring[t].cq]
  /\ ring' = [ring EXCEPT ![t].cq = <<>>]
  /\ pc' = [pc EXCEPT ![t] = "comp"]
  /\ UNCHANGED <<shared, off, item, todo, id, childdirs, local, kernel>>

StatxDev(dev) == (dev \div StMinors) * StatxMinors + (dev % StMinors)

DescendsAnywhere(t, st) == st.is_dir /\ item[t].depth + 1 < cfg.max_depth

\* A statx that fails tells nothing: the entry stays an empty record.
Descends(t, st) ==
  /\ st.is_dir
  /\ item[t].depth + 1 < cfg.max_depth
  /\ cfg.one_fs => StatxDev(st.dev) = root_dev

ChildAtBase(t, i) ==
  [dir |-> batch[t].rl[i].entry, id |-> batch[t].rl[1].id, depth |-> item[t].depth + 1]

ChildAt(t, i) ==
  [dir |-> batch[t].rl[i].entry, id |-> batch[t].rl[i].id, depth |-> item[t].depth + 1]

ResultInOrder(t) == batch[t].done + 1

ResultOf(t) == batch[t].slot_entry[Head(batch[t].comp).slot]

DedupNever(e) == FALSE

\* seen.insert returns false: counted already, under another name.
Dedup(e) == MultiLinked(e) /\ <<StatxDev(Meta[e].dev), Meta[e].ino>> \in seen

CompletedIfOk(b, c) == IF c.ok THEN b.done + 1 ELSE b.done

Completed(b, c) == b.done + 1

Handled(b, c) ==
  [b EXCEPT !.comp = Tail(@), !.free = Append(@, c.slot), !.done = Completed(b, c)]

FilledIn(r, e) ==
  [r EXCEPT !.own = IF Dedup(e) THEN 0 ELSE Meta[e].own, !.is_dir = Meta[e].is_dir]

\* One completion: its slot leads to the entry it answers for.
Handle(t) ==
  LET b == batch[t]
      c == Head(b.comp)
      i == ResultOf(t)
      e == ring[t].buf[c.slot]
      st == Meta[e]
  IN /\ pc[t] = "comp" /\ b.comp # <<>>
     /\ IF c.ok
        THEN /\ batch' = [batch EXCEPT ![t] = [Handled(b, c) EXCEPT !.rl[i] = FilledIn(@, e)]]
             /\ seen' = IF MultiLinked(e)
                        THEN seen \cup {<<StatxDev(st.dev), st.ino>>} ELSE seen
             /\ childdirs' = IF Descends(t, st)
                             THEN [childdirs EXCEPT ![t] = Append(@, ChildAt(t, i))]
                             ELSE childdirs
        ELSE /\ batch' = [batch EXCEPT ![t] = Handled(b, c)]
             /\ UNCHANGED <<seen, childdirs>>
     /\ UNCHANGED <<cfg, root_dev, counter, active, deque, recs, nodes,
                    pc, off, item, todo, id, local, kernel, ring>>

AllHandled(t) ==
  /\ pc[t] = "comp" /\ batch[t].comp = <<>>
  /\ pc' = [pc EXCEPT ![t] = "batch"]
  /\ UNCHANGED <<shared, off, item, todo, id, childdirs, local, uring>>

AllSubmitted(b) == b.next >= Len(b.rl)

AllDone(b) == b.done >= Len(b.rl)

\* close_fd; the records join the worker's.
CloseDir(t) ==
  /\ pc[t] = "batch" /\ AllDone(batch[t])
  /\ local' = [local EXCEPT ![t] = @ \cup ToSet(batch[t].rl)]
  /\ batch' = [batch EXCEPT ![t] = [EmptyBatch EXCEPT !.free = batch[t].free,
                                      !.slot_entry = batch[t].slot_entry]]
  /\ pc' = [pc EXCEPT ![t] = "entry"]
  /\ UNCHANGED <<shared, off, item, todo, id, childdirs, kernel, ring>>

FinishDirectory(t) ==
  /\ PushChildren(t) \/ AddActive(t) \/ SubActive(t) \/ Publish(t)
  /\ UNCHANGED uring

-----------------------------------------------------------------------------

\* Every worker has ended and one of them panicked: so does the scan.
Panicked ==
  /\ \A t \in Workers : pc[t] \in {"exit", "panic"}
  /\ \E t \in Workers : pc[t] = "panic"

UWorkerStep(t) ==
  \/ Setup(t) \/ GetDirectory(t) \/ CheckLimits(t) \/ OpenAt(t)
  \/ Queue(t) \/ Enter(t) \/ Reap(t) \/ Handle(t) \/ AllHandled(t) \/ CloseDir(t)
  \/ FinishDirectory(t)

\* A worker waits for a completion of a call the kernel never took.
Hung(t) == pc[t] = "wait" /\ ring[t].inflight = {} /\ ring[t].cq = <<>>

\* The program is done, or hangs.
Stopped ==
  /\ nodes # <<>> \/ Panicked \/ \E t \in Workers : Hung(t)
  /\ UNCHANGED uvars

UNext ==
  \/ Assemble /\ UNCHANGED uring
  \/ Stopped
  \/ \E t \in Workers : UWorkerStep(t) \/ Complete(t)

\* Threads are scheduled, and the kernel answers each call it has taken.
UFairness ==
  /\ WF_uvars(Assemble /\ UNCHANGED uring)
  /\ \A t \in Workers : WF_uvars(UWorkerStep(t)) /\ WF_uvars(Complete(t))

USpec == UInit /\ [][UNext]_uvars

UFairSpec == USpec /\ UFairness

-----------------------------------------------------------------------------

BatchType ==
  [rl : Seq(Rec), next : Nat, done : Nat, to_submit : 0 .. SubmitAt - 1,
   comp : Seq([slot : Slot, ok : BOOLEAN]), slot_entry : [Slot -> Nat], free : Seq(Slot)]

RingType ==
  [up : {TRUE}, sqe : [Slot -> Entry], sq : Seq(Slot), inflight : SUBSET (Slot \X Entry),
   cq : Seq([slot : Slot, ok : BOOLEAN]), buf : [Slot -> Entry]]

\* The types of what the backend adds to ParallelWalk's variables.
RingTypeOK ==
  /\ kernel \in KernelType
  /\ ring \in [Workers -> RingType \cup {NoRing}]
  /\ batch \in [Workers -> BatchType]
  /\ pc \in [Workers -> (Pc \ {"stat"}) \cup {"open", "batch", "wait", "reap", "comp", "panic"}]

(***************************************************************************)
(* Slots are reused while other calls are in flight and completions come   *)
(* in any order (internal.rs:382-385): still, what a worker records of an  *)
(* entry is what statx said of that entry, or nothing if it failed.        *)
(***************************************************************************)
ResultsAreOwn ==
  \A t \in Workers : \A r \in Bucket(t) :
    \/ /\ r.is_dir = Meta[r.entry].is_dir
       /\ r.own = Meta[r.entry].own \/ (r.own = 0 /\ MultiLinked(r.entry))
    \/ r.entry \in Flaky /\ r.own = 0 /\ ~r.is_dir

(***************************************************************************)
(* When a worker closes a directory and frees the names that its calls     *)
(* point to (internal.rs:407), the kernel holds no call of it, and no      *)
(* completion is left for the next directory's batch to trip over.         *)
(***************************************************************************)
NothingInFlight ==
  \A t \in Workers : ring[t].up /\ pc[t] \notin {"batch", "wait", "reap", "comp"} =>
    /\ ring[t].sq = <<>> /\ ring[t].inflight = {} /\ ring[t].cq = <<>>
    /\ ToSet(batch[t].free) = Slot

URecords == Records \cup UNION {ToSet(batch[t].rl) : t \in Workers}

(***************************************************************************)
(* "ids are 0..n, each written exactly once" (internal.rs:263) also when a *)
(* directory's ids are taken at once (:354) and its records are filled in  *)
(* later, by whichever worker.                                             *)
(***************************************************************************)
UArenaDense ==
  nodes = <<>> =>
    /\ {r.id : r \in URecords} = 1 .. counter - 1
    /\ Cardinality(URecords) = counter - 1

Unwarned == nodes # <<>> /\ Cardinality(DOMAIN nodes) < cfg.max_entries

\* A directory the walk should list.  With -x that is one on the root's
\* device and, since two packings are compared (uring.rs:101), only if the
\* device's major number is 0.
ShouldEnter(d) ==
  /\ MayOpen(d)
  /\ Depth[d] < cfg.max_depth
  /\ cfg.one_fs /\ d # Root => Meta[d].dev = root_dev /\ Meta[d].dev < StMinors

(***************************************************************************)
(* The walk lists no other directory, and below the ceiling it lists each  *)
(* of those it met, whole, but for failing calls (internal.rs:395-397):    *)
(* two packings of device numbers, within DeviceAssumption, never confuse  *)
(* two devices.                                                            *)
(***************************************************************************)
EntersWhatItShould ==
  /\ \A d \in InArena : Children(d) \cap InArena # {} => ShouldEnter(d)
  /\ Unwarned =>
       \A d \in InArena \ Flaky : ShouldEnter(d) => Children(d) \subseteq InArena

(***************************************************************************)
(* "same `Vec<Node>`" (internal.rs:506) as the std backend, as far as the  *)
(* entries go: a directory the std backend lists is listed.  It does not   *)
(* hold with -x on a device whose major number is not 0.                   *)
(***************************************************************************)
SameEntriesAsStd ==
  Unwarned => \A d \in InArena \ Flaky :
    Abstract!MayEnter(d) => Children(d) \subseteq InArena

(***************************************************************************)
(* A scan ends, in an arena or the panic of a worker without a ring, if    *)
(* the kernel takes each call it is given.  Otherwise it may hang, since   *)
(* the result of enter is ignored (internal.rs:377-379).                   *)
(***************************************************************************)
ScanEnds == ~kernel.short => <>(nodes # <<>> \/ Panicked)

=============================================================================
