------------------------- MODULE ParallelWalkProofs -------------------------
(***************************************************************************)
(* Proofs about ParallelWalk, for any tree, any number of workers and any  *)
(* configuration.  First what each step keeps: types, ids, parents, and    *)
(* what `active` counts.  Then what the workers add up to, whatever the    *)
(* schedule: they carry out the sequential walk of TreeWalk, no directory  *)
(* being read twice or lost on its way from one worker to another; the     *)
(* arena they leave stays on its device, its total is what du counts, and  *)
(* its size is bounded by the entry ceiling.                               *)
(***************************************************************************)
EXTENDS ParallelWalk, DataLemmas

LEMMA ModRange == \A n \in Int, m \in Nat \ {0} : n % m \in 0 .. m - 1
BY SMT

(***************************************************************************)
(* A usize has room for more than one value, and arithmetic on it stays    *)
(* within them; the neighbours of a worker are workers.                    *)
(***************************************************************************)
LEMMA UsizeRange ==
  /\ 1 \in 0 .. UsizeMod - 1
  /\ \A n \in Int : n % UsizeMod \in 0 .. UsizeMod - 1
<1>1. Cardinality(Entry) \in Nat \ {0}
  BY FileTreeAssumption, FS_CardinalityType, FS_EmptySet
<1>2. UsizeMod \in Nat \ {0, 1}
  BY <1>1, WorkersAssumption
<1>3. QED  BY <1>2, ModRange

LEMMA VictimIsWorker ==
  ASSUME TypeOK, NEW t \in Workers
  PROVE  Victim(t) \in Workers
<1>1. t + off[t] \in Int
  BY DEF TypeOK, Workers
<1>2. QED  BY <1>1, ModRange, WorkersAssumption DEF Victim, Workers

-----------------------------------------------------------------------------
(* Type correctness.                                                       *)

\* The arena is assembled when the workers are gone.
Ended == nodes # <<>> => \A t \in Workers : pc[t] = "exit"

\* A worker that has allocated an id has the entry it is for.
HoldsEntry == \A t \in Stating : todo[t] # <<>>

TypeInv == TypeOK /\ Ended /\ HoldsEntry

LEMMA TypeInit == Init => TypeInv
<1> SUFFICES ASSUME Init PROVE TypeInv
  OBVIOUS
<1> USE FileTreeAssumption DEF Init
<1>1. RootItem \in Item
  BY DEF RootItem, Item
<1>2. cfg \in CfgType /\ root_dev \in Nat
  BY DEF MetaType
<1>3. deque \in [Workers -> Seq(Item)] /\ item \in [Workers -> Item]
  BY <1>1
<1>4. active \in 0 .. UsizeMod - 1
  BY UsizeRange
<1>5. off \in [Workers -> 1 .. NThreads]
  BY WorkersAssumption
<1>6. QED
  BY <1>2, <1>3, <1>4, <1>5 DEF TypeInv, TypeOK, Ended, HoldsEntry, Stating, Pc

\* The shapes of the entries a worker is about to process.
LEMMA HeadOfTodo ==
  ASSUME TypeOK, NEW t \in Workers, todo[t] # <<>>
  PROVE  Head(todo[t]) \in Entry /\ Tail(todo[t]) \in Seq(Entry)
BY EndsOfSeq DEF TypeOK

LEMMA TypeStep ==
  ASSUME TypeInv, [Next]_vars
  PROVE  TypeInv'
<1> USE DEF TypeInv, TypeOK, Ended, HoldsEntry, Stating, Pc
<1>1. ASSUME NEW t \in Workers, PopOwn(t)
      PROVE  TypeInv'
  <2>1. CASE deque[t] = <<>>
    BY <1>1, <2>1 DEF PopOwn
  <2>2. CASE deque[t] # <<>>
    <3>1. Front(deque[t]) \in Seq(Item) /\ Last(deque[t]) \in Item
      BY <2>2, EndsOfSeq
    <3>2. /\ deque' = [deque EXCEPT ![t] = Front(deque[t])]
          /\ item' = [item EXCEPT ![t] = Last(deque[t])]
      BY <1>1, <2>2 DEF PopOwn
    <3>3. deque' \in [Workers -> Seq(Item)] /\ item' \in [Workers -> Item]
      BY <3>1, <3>2
    <3>. QED  BY <1>1, <2>2, <3>3 DEF PopOwn
  <2>. QED  BY <2>1, <2>2
<1>2. ASSUME NEW t \in Workers, Steal(t)
      PROVE  TypeInv'
  <2>1. Victim(t) \in Workers
    BY VictimIsWorker
  <2>2. CASE deque[Victim(t)] = <<>>
    <3>1. off[t] \in 1 .. NThreads /\ off[t] # NThreads
      BY <1>2 DEF Steal, TriedAll
    <3>2. off[t] + 1 \in 1 .. NThreads
      BY <3>1, WorkersAssumption
    <3>3. off' \in [Workers -> 1 .. NThreads]
      BY <1>2, <2>2, <3>2 DEF Steal
    <3>. QED  BY <1>2, <2>2, <3>3 DEF Steal
  <2>3. CASE deque[Victim(t)] # <<>>
    <3>1. /\ Tail(deque[Victim(t)]) \in Seq(Item)
          /\ Head(deque[Victim(t)]) \in Item
      BY <2>1, <2>3, EndsOfSeq
    <3>2. /\ deque' = [deque EXCEPT ![Victim(t)] = Tail(deque[Victim(t)])]
          /\ item' = [item EXCEPT ![t] = Head(deque[Victim(t)])]
      BY <1>2, <2>3 DEF Steal
    <3>3. deque' \in [Workers -> Seq(Item)] /\ item' \in [Workers -> Item]
      BY <3>1, <3>2
    <3>4. off' = [off EXCEPT ![t] = 1] /\ 1 \in 1 .. NThreads
      BY <1>2, <2>3, WorkersAssumption DEF Steal
    <3>. QED  BY <1>2, <2>3, <3>3, <3>4 DEF Steal
  <2>. QED  BY <2>2, <2>3
<1>3. ASSUME NEW t \in Workers, CheckActive(t)
      PROVE  TypeInv'
  BY <1>3, WorkersAssumption DEF CheckActive, TriedAll, shared
<1>4. ASSUME NEW t \in Workers, OpenDir(t)
      PROVE  TypeInv'
  BY <1>4, FileTreeAssumption DEF OpenDir, shared, Item
<1>5. ASSUME NEW t \in Workers, SkipEntry(t)
      PROVE  TypeInv'
  BY <1>5, HeadOfTodo DEF SkipEntry, shared
<1>6. ASSUME NEW t \in Workers, AllocId(t)
      PROVE  TypeInv'
  BY <1>6 DEF AllocId
<1>10. ASSUME NEW t \in Workers, PushChildren(t)
      PROVE  TypeInv'
  <2>1. deque[t] \o childdirs[t] \in Seq(Item)
    BY ConcatProperties
  <2>2. deque' \in [Workers -> Seq(Item)]
    BY <1>10, <2>1 DEF PushChildren, PushTo
  <2>. QED  BY <1>10, <2>2 DEF PushChildren, PushTo
<1>11. ASSUME NEW t \in Workers, AddActive(t)
      PROVE  TypeInv'
  <2>1. active + ChildrenQueued(t) \in Int
    BY LenProperties, WorkersAssumption DEF ChildrenQueued
  <2>2. active' \in 0 .. UsizeMod - 1
    BY <1>11, <2>1, UsizeRange DEF AddActive
  <2>. QED  BY <1>11, <2>2 DEF AddActive
<1>12. ASSUME NEW t \in Workers, SubActive(t)
      PROVE  TypeInv'
  <2>1. active' \in 0 .. UsizeMod - 1
    BY <1>12, UsizeRange, WorkersAssumption DEF SubActive, OneLess
  <2>2. RootItem \in Item
    BY FileTreeAssumption DEF RootItem, Item
  <2>. QED  BY <1>12, <2>1, <2>2 DEF SubActive
<1>13. ASSUME NEW t \in Workers, Publish(t)
      PROVE  TypeInv'
  BY <1>13 DEF Publish
<1>20. ASSUME NEW t \in Workers, NEW own \in Nat, NEW descend \in BOOLEAN,
              FinishEntry(t, own, descend), pc[t] = "stat", todo[t] # <<>>,
              seen' \subseteq Nat \X Nat
       PROVE  TypeInv'
  <2>1. Head(todo[t]) \in Entry /\ Tail(todo[t]) \in Seq(Entry)
    BY <1>20, HeadOfTodo
  <2> DEFINE rec == [id |-> id[t], parent |-> item[t].id, entry |-> Head(todo[t]),
                     own |-> own, is_dir |-> Meta[Head(todo[t])].is_dir]
  <2>2. rec \in Rec /\ Child(t) \in Item
    <3>1. Meta[Head(todo[t])].is_dir \in BOOLEAN
      BY <2>1, FileTreeAssumption DEF MetaType
    <3>2. item[t].id \in Nat /\ item[t].depth + 1 \in Nat /\ id[t] \in Nat
      BY DEF Item
    <3>. QED  BY <2>1, <3>1, <3>2 DEF Rec, Child, Item
  <2>3. local' \in [Workers -> SUBSET Rec]
    <3>1. local' = [local EXCEPT ![t] = @ \cup {rec}]
      BY <1>20 DEF FinishEntry
    <3>. QED  BY <2>2, <3>1
  <2>4. childdirs' \in [Workers -> Seq(Item)]
    <3>1. Append(childdirs[t], Child(t)) \in Seq(Item)
      BY <2>2, AppendProperties
    <3>. QED  BY <1>20, <3>1 DEF FinishEntry
  <2>. QED  BY <1>20, <2>1, <2>3, <2>4 DEF FinishEntry
<1>7. ASSUME NEW t \in Workers, StatOk(t)
      PROVE  TypeInv'
  <2>1. todo[t] # <<>> /\ Head(todo[t]) \in Entry
    BY <1>7, HeadOfTodo DEF StatOk
  <2>2. Meta[Head(todo[t])] \in MetaType
    BY <2>1, FileTreeAssumption
  <2>3. seen' \subseteq Nat \X Nat
    BY <1>7, <2>2 DEF StatOk, Inode, MetaType
  <2>4. /\ \E own \in Nat, descend \in BOOLEAN : FinishEntry(t, own, descend)
        /\ pc[t] = "stat"
    BY <1>7, <2>2, ZenonT(20) DEF StatOk, MetaType
  <2>. QED  BY <1>20, <2>1, <2>3, <2>4
<1>8. ASSUME NEW t \in Workers, StatErr(t) \/ NoStatProbe(t)
      PROVE  TypeInv'
  <2>1. todo[t] # <<>> /\ Head(todo[t]) \in Entry
    BY <1>8, HeadOfTodo DEF StatErr, NoStatProbe
  <2>2. Meta[Head(todo[t])].is_dir \in BOOLEAN
    BY <2>1, FileTreeAssumption DEF MetaType
  <2>3. FinishEntry(t, 0, Meta[Head(todo[t])].is_dir) /\ pc[t] = "stat" /\ seen' = seen
    BY <1>8 DEF StatErr, NoStatProbe
  <2>. QED  BY <1>20, <2>1, <2>2, <2>3
<1>14. ASSUME Assemble
       PROVE  TypeInv'
  <2>1. ASSUME NEW i \in 0 .. counter - 1, \E r \in AllRecs : r.id = i
        PROVE  NodeOf(CHOOSE r \in AllRecs : r.id = i) \in Node
    <3>1. PICK r \in AllRecs : r = (CHOOSE q \in AllRecs : q.id = i)
      BY <2>1
    <3>2. PICK t \in Workers : r \in recs[t]
      BY <3>1 DEF AllRecs
    <3>3. r \in Rec
      BY <3>2
    <3>. QED  BY <3>1, <3>3 DEF Rec, NodeOf, Node
  <2>2. EmptyNode \in Node /\ \A own \in Nat : RootNode(own) \in Node
    BY FileTreeAssumption DEF EmptyNode, RootNode, Node
  <2>3. Meta[Root].own \in Nat
    BY FileTreeAssumption DEF MetaType
  <2>4. nodes' \in [0 .. counter - 1 -> Node]
    BY <1>14, <2>1, <2>2, <2>3 DEF Assemble
  <2>5. recs' \in [Workers -> SUBSET Rec]
    BY <1>14 DEF Assemble
  <2>6. UNCHANGED <<cfg, root_dev, counter, active, seen, deque, worker>>
    BY <1>14 DEF Assemble
  <2>7. \A t \in Workers : pc[t] = "exit"
    BY <1>14 DEF Assemble
  <2>. QED  BY <2>4, <2>5, <2>6, <2>7 DEF worker
<1>15. ASSUME UNCHANGED vars
       PROVE  TypeInv'
  BY <1>15 DEF vars, shared, worker
<1>. QED
  BY <1>1, <1>2, <1>3, <1>4, <1>5, <1>6, <1>7, <1>8, <1>10, <1>11, <1>12,
     <1>13, <1>14, <1>15 DEF Next, WorkerStep, Terminated

(***************************************************************************)
(* Every state of a scan has the types TypeOK gives it; in particular      *)
(* `active`, on which a sequence of increments and decrements of several   *)
(* workers interleaves, stays a usize, and the arena gets a node per id.   *)
(***************************************************************************)
THEOREM TypeCorrect == Spec => []TypeOK
<1>1. TypeInv /\ [Next]_vars => TypeInv'
  BY TypeStep
<1>2. TypeInv => TypeOK
  BY DEF TypeInv
<1>. QED  BY TypeInit, <1>1, <1>2, PTL DEF Spec

-----------------------------------------------------------------------------
(* No worker leaves work behind.                                           *)

LEMMA NoWorkLeftBehindStep ==
  ASSUME TypeInv, NoWorkLeftBehind, [Next]_vars
  PROVE  NoWorkLeftBehind'
<1> USE DEF NoWorkLeftBehind
<1>. pc \in [Workers -> Pc] /\ deque \in [Workers -> Seq(Item)]
  BY DEF TypeInv, TypeOK
<1>1. ASSUME NEW t \in Workers, PopOwn(t)
      PROVE  NoWorkLeftBehind'
  BY <1>1 DEF PopOwn
<1>2. ASSUME NEW t \in Workers, Steal(t)
      PROVE  NoWorkLeftBehind'
  \* The victim's deque is not empty, so it is not among those who gave up.
  <2>1. CASE deque[Victim(t)] = <<>>
    BY <1>2, <2>1 DEF Steal
  <2>2. CASE deque[Victim(t)] # <<>>
    BY <1>2, <2>2 DEF Steal
  <2>. QED  BY <2>1, <2>2
<1>3. ASSUME NEW t \in Workers, CheckActive(t)
      PROVE  NoWorkLeftBehind'
  BY <1>3 DEF CheckActive, shared
<1>4. ASSUME NEW t \in Workers, PushChildren(t)
      PROVE  NoWorkLeftBehind'
  BY <1>4 DEF PushChildren, PushTo
<1>5. ASSUME NEW t \in Workers, StatOk(t) \/ StatErr(t) \/ NoStatProbe(t)
      PROVE  NoWorkLeftBehind'
  <2>1. pc' = [pc EXCEPT ![t] = "entry"] /\ deque' = deque
    BY <1>5 DEF StatOk, StatErr, NoStatProbe, FinishEntry
  <2>. QED  BY <2>1
<1>6. ASSUME NEW t \in Workers,
             \/ OpenDir(t) \/ SkipEntry(t) \/ AllocId(t)
             \/ AddActive(t) \/ SubActive(t) \/ Publish(t)
      PROVE  NoWorkLeftBehind'
  <2>1. /\ deque' = deque
        /\ \A u \in Workers : pc'[u] \in {"steal", "publish", "exit"} =>
                               pc[u] \in {"steal", "publish", "exit"}
    BY <1>6 DEF OpenDir, SkipEntry, AllocId, AddActive, SubActive, Publish, shared
  <2>. QED  BY <2>1
<1>7. CASE Assemble
  BY <1>7 DEF Assemble, worker
<1>8. CASE UNCHANGED vars
  BY <1>8 DEF vars, shared, worker
<1>. QED
  BY <1>1, <1>2, <1>3, <1>4, <1>5, <1>6, <1>7, <1>8 DEF Next, WorkerStep, Terminated

(***************************************************************************)
(* A worker that gives up looking for work, or has ended, has nothing in   *)
(* its own deque: work may be stolen, but it cannot strand.  This does not *)
(* rest on `active`, which another worker may read as 0 too early.         *)
(***************************************************************************)
THEOREM NoWorkStrands == Spec => []NoWorkLeftBehind
<1>1. Init => NoWorkLeftBehind
  BY DEF Init, NoWorkLeftBehind
<1>2. TypeInv /\ NoWorkLeftBehind /\ [Next]_vars => NoWorkLeftBehind'
  BY NoWorkLeftBehindStep
<1>3. TypeInv /\ [Next]_vars => TypeInv'
  BY TypeStep
<1>. QED  BY TypeInit, <1>1, <1>2, <1>3, PTL DEF Spec

-----------------------------------------------------------------------------
(* The node ids.                                                           *)

\* A worker's records are in its own hands, and then in its bucket.
HandOver ==
  \A t \in Workers : IF pc[t] = "exit" THEN local[t] = {} ELSE recs[t] = {}

LEMMA HandOverStep ==
  ASSUME TypeInv, HandOver, [Next]_vars
  PROVE  HandOver'
<1> USE DEF HandOver
<1>. /\ pc \in [Workers -> Pc]
     /\ local \in [Workers -> SUBSET Rec] /\ recs \in [Workers -> SUBSET Rec]
  BY DEF TypeInv, TypeOK
<1>1. ASSUME NEW t \in Workers, Publish(t)
      PROVE  HandOver'
  BY <1>1 DEF Publish
<1>2. ASSUME NEW t \in Workers, StatOk(t) \/ StatErr(t) \/ NoStatProbe(t)
      PROVE  HandOver'
  <2>1. /\ pc[t] = "stat" /\ pc' = [pc EXCEPT ![t] = "entry"]
        /\ recs' = recs
        /\ \A u \in Workers \ {t} : local'[u] = local[u]
    BY <1>2 DEF StatOk, StatErr, NoStatProbe, FinishEntry
  <2>. QED  BY <2>1
<1>3. ASSUME NEW t \in Workers,
             \/ PopOwn(t) \/ Steal(t) \/ CheckActive(t) \/ OpenDir(t) \/ SkipEntry(t)
             \/ AllocId(t) \/ PushChildren(t) \/ AddActive(t) \/ SubActive(t)
      PROVE  HandOver'
  <2>1. /\ recs' = recs /\ local' = local
        /\ \A u \in Workers : pc[u] = "exit" <=> pc'[u] = "exit"
    BY <1>3 DEF PopOwn, Steal, CheckActive, OpenDir, SkipEntry, AllocId,
                PushChildren, PushTo, AddActive, SubActive, shared
  <2>. QED  BY <2>1
<1>4. CASE Assemble
  BY <1>4 DEF Assemble, worker
<1>5. CASE UNCHANGED vars
  BY <1>5 DEF vars, shared, worker
<1>. QED
  BY <1>1, <1>2, <1>3, <1>4, <1>5 DEF Next, WorkerStep, Terminated

\* Allocating an id takes the next one.
LEMMA AllocKeepsDense ==
  ASSUME TypeInv, NoHole, NoClash, NEW t \in Workers, AllocId(t)
  PROVE  NoHole' /\ NoClash'
<1> USE DEF TypeInv, TypeOK
<1>1. /\ counter' = counter + 1
      /\ id' = [id EXCEPT ![t] = counter]
      /\ Records' = Records
      /\ \A u \in Workers : Bucket(u)' = Bucket(u)
      /\ Stating' = Stating \cup {t} /\ t \notin Stating
  BY DEF AllocId, Records, Bucket, Stating
<1>2. /\ \A r \in Records : r.id \in 1 .. counter - 1
      /\ \A u \in Stating : id[u] \in 1 .. counter - 1
  BY DEF NoHole
<1>3. {id'[u] : u \in Stating'} = {id[u] : u \in Stating} \cup {counter}
  BY <1>1 DEF Stating
<1>4. 1 .. counter' - 1 = (1 .. counter - 1) \cup {counter}
  BY <1>1
<1>5. NoHole'
  BY <1>1, <1>3, <1>4 DEF NoHole
<1>6. NoClash'
  BY <1>1, <1>2, SMTT(30) DEF NoClash, Stating
<1>. QED  BY <1>5, <1>6

\* A record takes over the id its worker has allocated.
LEMMA FinishKeepsDense ==
  ASSUME TypeInv, NoHole, NoClash, NEW t \in Workers, NEW own, NEW descend,
         pc[t] = "stat", FinishEntry(t, own, descend)
  PROVE  NoHole' /\ NoClash'
<1> USE DEF TypeInv, TypeOK
<1> DEFINE rec == [id |-> id[t], parent |-> item[t].id, entry |-> Head(todo[t]),
                   own |-> own, is_dir |-> Meta[Head(todo[t])].is_dir]
<1>1. /\ counter' = counter
      /\ \A u \in Workers \ {t} : id'[u] = id[u]
      /\ Stating' = Stating \ {t} /\ t \in Stating
      /\ Bucket(t)' = Bucket(t) \cup {rec}
      /\ \A u \in Workers \ {t} : Bucket(u)' = Bucket(u)
  BY DEF FinishEntry, Bucket, Stating
<1>2. rec.id = id[t]
  OBVIOUS
<1> HIDE DEF rec
<1>3. Records' = Records \cup {rec}
  <2>1. \A r : r \in Records <=> \E u \in Workers : r \in Bucket(u)
    BY DEF Records
  <2>2. \A r : r \in Records' <=> \E u \in Workers : r \in Bucket(u)'
    BY DEF Records
  <2>3. \A u \in Workers : \A r : r \in Bucket(u)' <=> r \in Bucket(u) \/ (u = t /\ r = rec)
    BY <1>1
  <2>4. \A r : r \in Records' <=> r \in Records \/ r = rec
    <3>1. ASSUME NEW r, r \in Records' PROVE r \in Records \/ r = rec
      BY <2>1, <2>2, <2>3, <3>1
    <3>2. ASSUME NEW r, r \in Records PROVE r \in Records'
      BY <2>1, <2>2, <2>3, <3>2
    <3>3. rec \in Records'
      BY <2>2, <2>3
    <3>. QED  BY <3>1, <3>2, <3>3
  <2>. QED  BY <2>4
<1>4. NoHole'
  <2>1. {r.id : r \in Records'} = {r.id : r \in Records} \cup {id[t]}
    BY <1>3, <1>2
  <2>2. {id'[u] : u \in Stating'} = {id[u] : u \in Stating \ {t}}
    BY <1>1 DEF Stating
  <2>3. {id[u] : u \in Stating} = {id[u] : u \in Stating \ {t}} \cup {id[t]}
    BY <1>1
  <2>4. 1 .. counter - 1 = {r.id : r \in Records} \cup {id[u] : u \in Stating}
    BY DEF NoHole
  <2>. QED  BY <1>1, <2>1, <2>2, <2>3, <2>4 DEF NoHole
<1>5. \A u \in Workers : \A r \in Bucket(u) : r \in Records /\ r.id # rec.id
  BY <1>1, <1>2 DEF NoClash, Records
<1>6. ASSUME NEW u \in Workers, NEW v \in Workers,
             NEW q \in Bucket(u)', NEW r \in Bucket(v)', q.id = r.id
      PROVE  u = v /\ q = r
  <2>1. q \in Bucket(u) \/ (u = t /\ q = rec)
    BY <1>1
  <2>2. r \in Bucket(v) \/ (v = t /\ r = rec)
    BY <1>1
  <2>. QED  BY <1>5, <1>6, <2>1, <2>2 DEF NoClash
<1>7. \A u \in Stating' : id'[u] = id[u] /\ id[u] # rec.id
  BY <1>1, <1>2 DEF NoClash, Stating
<1>8. NoClash'
  <2>1. \A u \in Stating' : \A r \in Records' : r.id # id'[u]
    BY <1>1, <1>3, <1>7 DEF NoClash
  <2>2. \A u, v \in Stating' : id'[u] = id'[v] => u = v
    BY <1>1, <1>7 DEF NoClash
  <2>. QED  BY <1>6, <2>1, <2>2 DEF NoClash
<1>. QED  BY <1>4, <1>8

\* A step that touches neither ids nor records.
LEMMA FrameKeepsDense ==
  ASSUME NoHole, NoClash, counter' = counter, id' = id, Stating' = Stating,
         \A u \in Workers : Bucket(u)' = Bucket(u)
  PROVE  NoHole' /\ NoClash'
<1>1. Records' = Records
  BY DEF Records
<1>. QED  BY <1>1 DEF NoHole, NoClash

LEMMA ArenaDenseStep ==
  ASSUME TypeInv, HandOver, ArenaDense, [Next]_vars
  PROVE  ArenaDense'
<1>1. SUFFICES ASSUME nodes' = <<>> PROVE NoHole' /\ NoClash'
  BY DEF ArenaDense
<1>2. ~Assemble
  <2>1. ASSUME Assemble PROVE 0 \in DOMAIN nodes'
    BY <2>1 DEF Assemble, TypeInv, TypeOK
  <2>. QED  BY <1>1, <2>1
<1>3. nodes' = nodes
  BY <1>2 DEF Next, WorkerStep, Terminated, vars, shared, PopOwn, Steal, CheckActive,
     OpenDir, SkipEntry, AllocId, StatOk, StatErr, NoStatProbe, FinishEntry,
     PushChildren, PushTo, AddActive, SubActive, Publish
<1>4. NoHole /\ NoClash
  BY <1>1, <1>3 DEF ArenaDense
<1> USE DEF TypeInv, TypeOK
<1>5. ASSUME NEW t \in Workers, AllocId(t)
      PROVE  NoHole' /\ NoClash'
  BY <1>4, <1>5, AllocKeepsDense
<1>6. ASSUME NEW t \in Workers, StatOk(t) \/ StatErr(t) \/ NoStatProbe(t)
      PROVE  NoHole' /\ NoClash'
  <2>1. pc[t] = "stat" /\ \E own, descend : FinishEntry(t, own, descend)
    BY <1>6, ZenonT(20) DEF StatOk, StatErr, NoStatProbe
  <2>. QED  BY <1>4, <2>1, FinishKeepsDense
<1>7. ASSUME NEW t \in Workers, Publish(t)
      PROVE  NoHole' /\ NoClash'
  <2>1. \A u \in Workers : Bucket(u)' = Bucket(u)
    BY <1>7 DEF Publish, HandOver, Bucket
  <2>2. counter' = counter /\ id' = id /\ Stating' = Stating
    BY <1>7 DEF Publish, Stating
  <2>. QED  BY <1>4, <2>1, <2>2, FrameKeepsDense
<1>8. ASSUME NEW t \in Workers,
             \/ PopOwn(t) \/ Steal(t) \/ CheckActive(t) \/ OpenDir(t) \/ SkipEntry(t)
             \/ PushChildren(t) \/ AddActive(t) \/ SubActive(t)
      PROVE  NoHole' /\ NoClash'
  <2>1. counter' = counter /\ id' = id /\ recs' = recs /\ local' = local
    BY <1>8 DEF PopOwn, Steal, CheckActive, OpenDir, SkipEntry,
                PushChildren, PushTo, AddActive, SubActive, shared
  <2>2. \A u \in Workers : pc'[u] = "stat" <=> pc[u] = "stat"
    BY <1>8 DEF PopOwn, Steal, CheckActive, OpenDir, SkipEntry,
                PushChildren, PushTo, AddActive, SubActive, shared
  <2>3. Stating' = Stating
    BY <2>2 DEF Stating
  <2>4. \A u \in Workers : Bucket(u)' = Bucket(u)
    BY <2>1 DEF Bucket
  <2>. QED  BY <1>4, <2>1, <2>3, <2>4, FrameKeepsDense
<1>9. CASE UNCHANGED vars
  BY <1>4, <1>9, FrameKeepsDense DEF vars, shared, worker, Stating, Bucket
<1>. QED
  BY <1>2, <1>5, <1>6, <1>7, <1>8, <1>9 DEF Next, WorkerStep, Terminated

IdInv == TypeInv /\ HandOver /\ ArenaDense

LEMMA IdInit == Init => IdInv
<1> SUFFICES ASSUME Init PROVE HandOver /\ ArenaDense
  BY TypeInit DEF IdInv
<1>1. HandOver
  BY DEF Init, HandOver
<1>2. Stating = {} /\ counter = 1 /\ \A t \in Workers : Bucket(t) = {}
  BY DEF Init, Stating, Bucket
<1>3. Records = {}
  BY <1>2 DEF Records
<1>4. ArenaDense
  BY <1>2, <1>3 DEF ArenaDense, NoHole, NoClash
<1>. QED  BY <1>1, <1>4

LEMMA IdStep ==
  ASSUME IdInv, [Next]_vars
  PROVE  IdInv'
BY TypeStep, HandOverStep, ArenaDenseStep DEF IdInv

(***************************************************************************)
(* The ids the workers' fetch_adds hand out fill the arena without a hole  *)
(* and without a clash, for any number of workers and any schedule.        *)
(***************************************************************************)
THEOREM ArenaIsDense == Spec => []ArenaDense
<1>1. IdInv /\ [Next]_vars => IdInv'
  BY IdStep
<1>2. IdInv => ArenaDense
  BY DEF IdInv
<1>. QED  BY IdInit, <1>1, <1>2, PTL DEF Spec

-----------------------------------------------------------------------------
(* The parent of a node precedes it.                                       *)

\* The ids that stand for an entry, in a record or as the root.
Names == {<<0, Root>>} \cup {<<r.id, r.entry>> : r \in Records}

NamedItem == {x \in Item : <<x.id, x.dir>> \in Names}

\* A directory is queued, and read, under the id its record has.
ItemsNamed ==
  \A t \in Workers :
    deque[t] \in Seq(NamedItem) /\ item[t] \in NamedItem /\ childdirs[t] \in Seq(NamedItem)

\* What a worker has to process are entries of the directory it reads.
TodoBelow ==
  \A t \in Workers :
    /\ todo[t] \in Seq(Children(item[t].dir))
    /\ pc[t] \notin {"entry", "stat"} => todo[t] = <<>>

IdAbove == \A t \in Stating : item[t].id < id[t]

ParentNamed ==
  \A r \in Records :
    /\ r.parent < r.id
    /\ \E d \in Entry : <<r.parent, d>> \in Names /\ r.entry \in Children(d)

Lineage == nodes = <<>> => ItemsNamed /\ TodoBelow /\ IdAbove /\ ParentNamed

LEMMA ListingBelow ==
  ASSUME NEW d \in Entry
  PROVE  Listing[d] \in Seq(Children(d))
<1>1. Listing[d] \in Seq(Entry)
  BY FileTreeAssumption
<1>2. /\ Len(Listing[d]) \in Nat
      /\ Listing[d] \in [1 .. Len(Listing[d]) -> Entry]
      /\ DOMAIN Listing[d] = 1 .. Len(Listing[d])
  BY <1>1, LenProperties
<1>3. Listing[d] \in [1 .. Len(Listing[d]) -> Children(d)]
  BY <1>2 DEF Children
<1>. QED  BY <1>2, <1>3, SeqDef

LEMMA NamesGrow ==
  ASSUME Records \subseteq Records'
  PROVE  Names \subseteq Names' /\ NamedItem \subseteq NamedItem'
BY DEF Names, NamedItem

LEMMA ItemsStayNamed ==
  ASSUME ItemsNamed, Records \subseteq Records', NEW t \in Workers
  PROVE  /\ deque[t] \in Seq(NamedItem') /\ item[t] \in NamedItem'
         /\ childdirs[t] \in Seq(NamedItem')
BY NamesGrow, SeqMonotonic DEF ItemsNamed

LEMMA NamedBelowCounter ==
  ASSUME TypeInv, NoHole, NEW x \in NamedItem
  PROVE  x.id \in 0 .. counter - 1
<1>1. CASE x.id = 0
  BY <1>1 DEF TypeInv, TypeOK
<1>2. CASE x.id # 0
  <2>1. \E r \in Records : r.id = x.id
    BY <1>2 DEF NamedItem, Names
  <2>. QED  BY <2>1 DEF NoHole, TypeInv, TypeOK
<1>. QED  BY <1>1, <1>2

\* A step that records nothing keeps the records' parents.
LEMMA FrameKeepsParents ==
  ASSUME ParentNamed, Records' = Records
  PROVE  ParentNamed'
BY DEF ParentNamed, Names

LEMMA FinishKeepsLineage ==
  ASSUME TypeInv, NoHole, NoClash, ItemsNamed, TodoBelow, IdAbove, ParentNamed,
         NEW t \in Workers, NEW own, NEW descend,
         pc[t] = "stat", FinishEntry(t, own, descend)
  PROVE  ItemsNamed' /\ TodoBelow' /\ IdAbove' /\ ParentNamed'
<1> USE DEF TypeInv, TypeOK
<1> DEFINE rec == [id |-> id[t], parent |-> item[t].id, entry |-> Head(todo[t]),
                   own |-> own, is_dir |-> Meta[Head(todo[t])].is_dir]
<1>1. todo[t] # <<>> /\ Head(todo[t]) \in Entry
  BY HeadOfTodo DEF HoldsEntry, Stating
<1>2. Head(todo[t]) \in Children(item[t].dir) /\ Tail(todo[t]) \in Seq(Children(item[t].dir))
  BY <1>1, EndsOfSeq DEF TodoBelow
<1>3. /\ Bucket(t)' = Bucket(t) \cup {rec}
      /\ \A u \in Workers \ {t} : Bucket(u)' = Bucket(u)
  BY DEF FinishEntry, Bucket
<1>4. Records \subseteq Records' /\ rec \in Records'
  BY <1>3 DEF Records
<1>5. \A r \in Records' : r \in Records \/ r = rec
  BY <1>3 DEF Records
<1>6. <<id[t], Head(todo[t])>> \in Names'
  <2>1. rec.id = id[t] /\ rec.entry = Head(todo[t])
    OBVIOUS
  <2>. QED  BY <1>4, <2>1 DEF Names
<1>7. ItemsNamed'
  <2>1. Child(t) \in NamedItem'
    <3>1. id[t] \in Nat /\ item[t].depth + 1 \in Nat
      BY DEF Item
    <3>2. Child(t) \in Item
      BY <1>1, <3>1 DEF Child, Item
    <3>3. <<Child(t).id, Child(t).dir>> = <<id[t], Head(todo[t])>>
      BY DEF Child
    <3>. QED  BY <1>6, <3>2, <3>3 DEF NamedItem
  <2>2. /\ deque' = deque /\ item' = item
        /\ \/ childdirs' = childdirs
           \/ childdirs' = [childdirs EXCEPT ![t] = Append(childdirs[t], Child(t))]
    BY DEF FinishEntry
  <2>3. Append(childdirs[t], Child(t)) \in Seq(NamedItem')
    BY <1>4, <2>1, ItemsStayNamed, AppendProperties
  <2>. QED  BY <1>4, <2>2, <2>3, ItemsStayNamed DEF ItemsNamed
<1>8. TodoBelow'
  BY <1>2 DEF TodoBelow, FinishEntry
<1>9. IdAbove'
  BY DEF IdAbove, Stating, FinishEntry
<1>10. ParentNamed'
  <2>1. rec.parent < rec.id /\ rec.entry \in Children(item[t].dir)
    BY <1>2 DEF IdAbove, Stating
  <2>2. item[t].dir \in Entry /\ <<rec.parent, item[t].dir>> \in Names'
    BY <1>4, NamesGrow DEF ItemsNamed, NamedItem, Item
  <2>3. \A r \in Records : /\ r.parent < r.id
                           /\ \E d \in Entry : /\ <<r.parent, d>> \in Names'
                                               /\ r.entry \in Children(d)
    BY <1>4, NamesGrow DEF ParentNamed
  <2>. QED  BY <1>5, <2>1, <2>2, <2>3 DEF ParentNamed
<1>. QED  BY <1>7, <1>8, <1>9, <1>10

LEMMA LineageStep ==
  ASSUME IdInv, Lineage, [Next]_vars
  PROVE  Lineage'
<1>1. SUFFICES ASSUME nodes' = <<>>
               PROVE  ItemsNamed' /\ TodoBelow' /\ IdAbove' /\ ParentNamed'
  BY DEF Lineage
<1>2. ~Assemble
  <2>1. ASSUME Assemble PROVE 0 \in DOMAIN nodes'
    BY <2>1 DEF Assemble, IdInv, TypeInv, TypeOK
  <2>. QED  BY <1>1, <2>1
<1>3. nodes' = nodes
  BY <1>2 DEF Next, WorkerStep, Terminated, vars, shared, PopOwn, Steal, CheckActive,
     OpenDir, SkipEntry, AllocId, StatOk, StatErr, NoStatProbe, FinishEntry,
     PushChildren, PushTo, AddActive, SubActive, Publish
<1>4. ItemsNamed /\ TodoBelow /\ IdAbove /\ ParentNamed /\ NoHole /\ NoClash
  BY <1>1, <1>3 DEF Lineage, IdInv, ArenaDense
<1>. TypeInv /\ HandOver
  BY DEF IdInv
<1> USE DEF TypeInv, TypeOK
<1>5. ASSUME NEW t \in Workers, PopOwn(t) \/ Steal(t)
      PROVE  ItemsNamed' /\ TodoBelow' /\ IdAbove' /\ ParentNamed'
  <2>1. /\ Records' = Records /\ childdirs' = childdirs /\ todo' = todo /\ id' = id
        /\ Stating' = Stating /\ t \notin Stating
        /\ \A u \in Workers \ {t} : item'[u] = item[u] /\ pc'[u] = pc[u]
        /\ pc[t] \notin {"entry", "stat"} /\ pc'[t] \notin {"entry", "stat"}
    BY <1>5, SMTT(30) DEF PopOwn, Steal, Records, Bucket, Stating
  <2>2. \/ deque' = deque /\ item' = item
        \/ \E v \in Workers :
             /\ deque[v] # <<>>
             /\ \/ /\ deque' = [deque EXCEPT ![v] = Front(deque[v])]
                   /\ item' = [item EXCEPT ![t] = Last(deque[v])]
                \/ /\ deque' = [deque EXCEPT ![v] = Tail(deque[v])]
                   /\ item' = [item EXCEPT ![t] = Head(deque[v])]
    BY <1>5, VictimIsWorker DEF PopOwn, Steal
  <2>3. ItemsNamed'
    <3>1. Names' = Names
      BY <2>1 DEF Names
    <3>2. NamedItem' = NamedItem
      BY <3>1 DEF NamedItem
    <3>3. \A v \in Workers : deque[v] # <<>> =>
             /\ Front(deque[v]) \in Seq(NamedItem) /\ Tail(deque[v]) \in Seq(NamedItem)
             /\ Last(deque[v]) \in NamedItem /\ Head(deque[v]) \in NamedItem
      BY <1>4, EndsOfSeq DEF ItemsNamed
    <3>4. \A v \in Workers : deque'[v] \in Seq(NamedItem) /\ item'[v] \in NamedItem
      BY <1>4, <2>2, <3>3 DEF ItemsNamed
    <3>. QED  BY <1>4, <2>1, <3>2, <3>4 DEF ItemsNamed
  <2>4. TodoBelow'
    <3>1. todo[t] = <<>>
      BY <1>4, <2>1 DEF TodoBelow
    <3>. QED  BY <1>4, <2>1, <3>1, EmptySeq DEF TodoBelow
  <2>5. IdAbove'
    BY <1>4, <2>1 DEF IdAbove, Stating
  <2>. QED  BY <1>4, <2>1, <2>3, <2>4, <2>5, FrameKeepsParents
<1>6. ASSUME NEW t \in Workers, AllocId(t)
      PROVE  ItemsNamed' /\ TodoBelow' /\ IdAbove' /\ ParentNamed'
  <2>1. /\ Records' = Records /\ deque' = deque /\ childdirs' = childdirs
        /\ todo' = todo /\ item' = item
    BY <1>6 DEF AllocId, Records, Bucket
  <2>2. Names' = Names /\ NamedItem' = NamedItem
    BY <2>1 DEF Names, NamedItem
  <2>3. item[t].id < counter
    BY <1>4, NamedBelowCounter DEF ItemsNamed
  <2>4. IdAbove'
    BY <1>4, <1>6, <2>1, <2>3 DEF IdAbove, Stating, AllocId
  <2>5. TodoBelow'
    BY <1>4, <1>6, <2>1 DEF TodoBelow, AllocId
  <2>. QED  BY <1>4, <2>1, <2>2, <2>4, <2>5, FrameKeepsParents DEF ItemsNamed
<1>7. ASSUME NEW t \in Workers, StatOk(t) \/ StatErr(t) \/ NoStatProbe(t)
      PROVE  ItemsNamed' /\ TodoBelow' /\ IdAbove' /\ ParentNamed'
  <2>1. pc[t] = "stat" /\ \E own, descend : FinishEntry(t, own, descend)
    BY <1>7, ZenonT(20) DEF StatOk, StatErr, NoStatProbe
  <2>. QED  BY <1>4, <2>1, FinishKeepsLineage
<1>8. ASSUME NEW t \in Workers, OpenDir(t) \/ SkipEntry(t)
      PROVE  ItemsNamed' /\ TodoBelow' /\ IdAbove' /\ ParentNamed'
  <2>1. /\ Records' = Records /\ deque' = deque /\ childdirs' = childdirs
        /\ id' = id /\ item' = item /\ Stating' = Stating
    BY <1>8 DEF OpenDir, SkipEntry, Records, Bucket, Stating, shared
  <2>2. Names' = Names /\ NamedItem' = NamedItem
    BY <2>1 DEF Names, NamedItem
  <2>3. TodoBelow'
    <3>1. item[t].dir \in Entry
      BY DEF Item
    <3>2. Listing[item[t].dir] \in Seq(Children(item[t].dir))
      BY <3>1, ListingBelow
    <3>3. todo[t] # <<>> => Tail(todo[t]) \in Seq(Children(item[t].dir))
      BY <1>4, EndsOfSeq DEF TodoBelow
    <3>4. CASE OpenDir(t)
      BY <1>4, <2>1, <3>2, <3>4 DEF TodoBelow, OpenDir
    <3>5. CASE SkipEntry(t)
      BY <1>4, <2>1, <3>3, <3>5 DEF TodoBelow, SkipEntry
    <3>. QED  BY <1>8, <3>4, <3>5
  <2>4. IdAbove'
    BY <1>4, <2>1 DEF IdAbove
  <2>. QED  BY <1>4, <2>1, <2>2, <2>3, <2>4, FrameKeepsParents DEF ItemsNamed
<1>9. ASSUME NEW t \in Workers,
             PushChildren(t) \/ AddActive(t) \/ SubActive(t) \/ CheckActive(t) \/ Publish(t)
      PROVE  ItemsNamed' /\ TodoBelow' /\ IdAbove' /\ ParentNamed'
  <2>1. \A u \in Workers : Bucket(u)' = Bucket(u)
    BY <1>9 DEF PushChildren, PushTo, AddActive, SubActive, CheckActive, Publish,
                HandOver, Bucket, shared
  <2>2. Records' = Records
    BY <2>1 DEF Records
  <2>3. Names' = Names /\ NamedItem' = NamedItem
    BY <2>2 DEF Names, NamedItem
  <2>4. /\ todo' = todo /\ id' = id /\ Stating' = Stating /\ t \notin Stating
        /\ \A u \in Workers \ {t} : item'[u] = item[u] /\ pc'[u] = pc[u]
        /\ item'[t] = item[t] \/ (item'[t] = RootItem /\ pc[t] = "sub")
        /\ pc'[t] \notin {"entry", "stat"}
        /\ pc[t] \notin {"entry", "stat"} \/ todo[t] = <<>>
    BY <1>9 DEF PushChildren, PushTo, AddActive, SubActive, CheckActive, Publish,
                Stating, shared
  <2>5. ItemsNamed'
    <3>1. RootItem \in NamedItem
      BY FileTreeAssumption DEF RootItem, NamedItem, Names, Item
    <3>2. item' \in [Workers -> NamedItem]
      BY <1>4, <1>9, <2>4, <3>1 DEF ItemsNamed, PushChildren, PushTo, AddActive,
         SubActive, CheckActive, Publish, shared
    <3>3. /\ <<>> \in Seq(NamedItem)
          /\ deque[t] \o childdirs[t] \in Seq(NamedItem)
      BY <1>4, EmptySeq, ConcatProperties DEF ItemsNamed
    <3>4. \A u \in Workers : deque'[u] \in Seq(NamedItem) /\ childdirs'[u] \in Seq(NamedItem)
      BY <1>4, <1>9, <3>3 DEF ItemsNamed, PushChildren, PushTo, AddActive,
         SubActive, CheckActive, Publish, shared
    <3>. QED  BY <2>3, <3>2, <3>4 DEF ItemsNamed
  <2>6. TodoBelow'
    <3>1. todo[t] = <<>>
      BY <1>4, <2>4 DEF TodoBelow
    <3>. QED  BY <1>4, <2>4, <3>1, EmptySeq DEF TodoBelow
  <2>7. IdAbove'
    BY <1>4, <2>4 DEF IdAbove, Stating
  <2>. QED  BY <1>4, <2>2, <2>5, <2>6, <2>7, FrameKeepsParents
<1>10. CASE UNCHANGED vars
  <2>1. UNCHANGED <<deque, recs, local, pc, item, todo, id, childdirs>>
    BY <1>10 DEF vars, shared, worker
  <2>2. Records' = Records /\ Stating' = Stating
    BY <2>1 DEF Records, Bucket, Stating
  <2>3. NamedItem' = NamedItem
    BY <2>2 DEF NamedItem, Names
  <2>. QED
    BY <1>4, <2>1, <2>2, <2>3, FrameKeepsParents DEF ItemsNamed, TodoBelow, IdAbove
<1>. QED
  BY <1>2, <1>5, <1>6, <1>7, <1>8, <1>9, <1>10 DEF Next, WorkerStep, Terminated

\* Assembling: a record's node is the one its id names.
LEMMA AssembledNodes ==
  ASSUME IdInv, Assemble
  PROVE  /\ Stating = {} /\ Records = AllRecs /\ NoHole /\ NoClash /\ nodes = <<>>
         /\ DOMAIN nodes' = 0 .. counter - 1 /\ nodes'[0].entry = Root
         /\ \A r \in AllRecs :
              r.id \in DOMAIN nodes' \ {0} /\ nodes'[r.id] = NodeOf(r)
         /\ \A i \in DOMAIN nodes' \ {0} : \E r \in AllRecs : r.id = i
<1>. TypeInv /\ NoHole /\ NoClash /\ counter \in Nat \ {0} /\ nodes = <<>>
  BY DEF IdInv, ArenaDense, Assemble, TypeInv, TypeOK
<1>1. Stating = {} /\ Records = AllRecs
  <2>1. \A t \in Workers : pc[t] = "exit" /\ local[t] = {}
    BY DEF Assemble, IdInv, HandOver
  <2>. QED  BY <2>1 DEF Stating, Records, Bucket, AllRecs
<1>2. DOMAIN nodes' = 0 .. counter - 1
  BY DEF Assemble
<1>3. \A r \in AllRecs : r.id \in 1 .. counter - 1
  BY <1>1 DEF NoHole
<1>4. \A q, r \in AllRecs : q.id = r.id => q = r
  BY <1>1 DEF NoClash, Records
<1>5. ASSUME NEW r \in AllRecs PROVE nodes'[r.id] = NodeOf(r)
  <2>1. (CHOOSE q \in AllRecs : q.id = r.id) = r
    BY <1>4
  <2>2. r.id \in 0 .. counter - 1
    BY <1>3
  <2>. QED  BY <2>1, <2>2 DEF Assemble
<1>6. nodes'[0].entry = Root
  <2>1. ~ \E r \in AllRecs : r.id = 0
    BY <1>3
  <2>2. 0 \in 0 .. counter - 1
    OBVIOUS
  <2>. QED  BY <2>1, <2>2 DEF Assemble, RootNode, EmptyNode
<1>7. \A i \in DOMAIN nodes' \ {0} : \E r \in AllRecs : r.id = i
  BY <1>1, <1>2 DEF NoHole
<1>. QED  BY <1>1, <1>2, <1>3, <1>5, <1>6, <1>7

\* A node's parent is the directory that its record's parent names.
LEMMA AssembledParents ==
  ASSUME IdInv, Assemble, NEW r \in AllRecs, NEW d, <<r.parent, d>> \in Names
  PROVE  /\ nodes'[r.id].entry = r.entry /\ nodes'[r.id].parent = r.parent
         /\ nodes'[nodes'[r.id].parent].entry = d
<1>1. \A q \in AllRecs : nodes'[q.id].parent = q.parent /\ nodes'[q.id].entry = q.entry
  <2>1. \A q : NodeOf(q).parent = q.parent /\ NodeOf(q).entry = q.entry
    BY DEF NodeOf
  <2>. QED  BY <2>1, AssembledNodes
<1>2. CASE r.parent = 0 /\ d = Root
  BY <1>1, <1>2, AssembledNodes
<1>3. CASE \E q \in AllRecs : r.parent = q.id /\ d = q.entry
  BY <1>1, <1>3
<1>. QED  BY <1>2, <1>3, AssembledNodes DEF Names

LEMMA AssembleParentFirst ==
  ASSUME IdInv, Lineage, Assemble
  PROVE  ParentFirst'
<1> SUFFICES ASSUME NEW i \in DOMAIN nodes' \ {0}
             PROVE  /\ nodes'[i].parent < i
                    /\ nodes'[i].entry \in Children(nodes'[nodes'[i].parent].entry)
  BY DEF ParentFirst
<1>1. PICK r \in AllRecs : r.id = i
  BY AssembledNodes
<1>2. ParentNamed /\ Records = AllRecs
  BY AssembledNodes DEF Lineage
<1>3. PICK d \in Entry : <<r.parent, d>> \in Names /\ r.entry \in Children(d)
  BY <1>2 DEF ParentNamed
<1>4. /\ nodes'[i].entry = r.entry /\ nodes'[i].parent = r.parent
      /\ nodes'[nodes'[i].parent].entry = d
  BY <1>1, <1>3, AssembledParents
<1>. QED  BY <1>1, <1>2, <1>3, <1>4 DEF ParentNamed

LEMMA ParentFirstStep ==
  ASSUME IdInv, Lineage, ParentFirst, [Next]_vars
  PROVE  ParentFirst'
<1>1. CASE Assemble
  BY <1>1, AssembleParentFirst
<1>2. CASE nodes' = nodes
  BY <1>2 DEF ParentFirst
<1>. QED
  BY <1>1, <1>2 DEF Next, WorkerStep, Terminated, vars, shared, PopOwn, Steal, CheckActive,
     OpenDir, SkipEntry, AllocId, StatOk, StatErr, NoStatProbe, FinishEntry,
     PushChildren, PushTo, AddActive, SubActive, Publish

LEMMA LineageInit == Init => Lineage /\ ParentFirst
<1> SUFFICES ASSUME Init PROVE Lineage /\ ParentFirst
  OBVIOUS
<1>1. Records = {} /\ Stating = {}
  BY DEF Init, Records, Bucket, Stating
<1>2. RootItem \in NamedItem
  BY FileTreeAssumption DEF RootItem, NamedItem, Names, Item
<1>3. ItemsNamed
  BY <1>2, EmptySeq DEF Init, ItemsNamed
<1>4. TodoBelow
  BY EmptySeq DEF Init, TodoBelow
<1>5. IdAbove /\ ParentNamed
  BY <1>1 DEF IdAbove, ParentNamed
<1>6. ParentFirst
  BY DEF Init, ParentFirst
<1>. QED  BY <1>3, <1>4, <1>5, <1>6 DEF Lineage

(***************************************************************************)
(* In the arena each entry but the root comes after its own directory, so  *)
(* the sizes can be folded in one reverse pass, and an index taken from    *)
(* `parent` is in range.                                                   *)
(***************************************************************************)
THEOREM ParentsComeFirst == Spec => []ParentFirst
<1>1. Init => IdInv /\ Lineage /\ ParentFirst
  BY IdInit, LineageInit
<1>2. IdInv /\ Lineage /\ ParentFirst /\ [Next]_vars => (IdInv /\ Lineage /\ ParentFirst)'
  BY IdStep, LineageStep, ParentFirstStep
<1>. QED  BY <1>1, <1>2, PTL DEF Spec

-----------------------------------------------------------------------------
(* What the steps do.                                                      *)

\* Until the arena is assembled it is a worker that steps.
LEMMA StillWalking ==
  ASSUME TypeInv, [Next]_vars, nodes' = <<>>
  PROVE  /\ nodes = <<>>
         /\ (\E t \in Workers : WorkerStep(t)) \/ UNCHANGED vars
<1>1. ~Assemble
  <2>1. 0 \in 0 .. counter - 1
    BY DEF TypeInv, TypeOK
  <2>2. ASSUME Assemble PROVE DOMAIN nodes' = 0 .. counter - 1
    BY <2>2 DEF Assemble
  <2>. QED  BY <2>1, <2>2
<1>2. (\E t \in Workers : WorkerStep(t)) \/ UNCHANGED vars
  BY <1>1 DEF Next, Terminated
<1>3. nodes' = nodes
  BY <1>2 DEF WorkerStep, vars, shared, PopOwn, Steal, CheckActive,
     OpenDir, SkipEntry, AllocId, StatOk, StatErr, NoStatProbe, FinishEntry,
     PushChildren, PushTo, AddActive, SubActive, Publish
<1>. QED  BY <1>2, <1>3

\* Looking for a directory: worker t takes x off an end of v's deque.
Takes(t, v, x) ==
  /\ deque[v] # <<>>
  /\ pc' = [pc EXCEPT ![t] = "guard"]
  /\ item' = [item EXCEPT ![t] = x]
  /\ \/ x = Last(deque[v]) /\ deque' = [deque EXCEPT ![v] = Front(deque[v])]
     \/ x = Head(deque[v]) /\ deque' = [deque EXCEPT ![v] = Tail(deque[v])]

LEMMA LookingStep ==
  ASSUME TypeInv, NEW t \in Workers, PopOwn(t) \/ Steal(t)
  PROVE  /\ pc[t] \in {"own", "steal"}
         /\ UNCHANGED <<cfg, root_dev, counter, active, seen, recs, nodes,
                        todo, id, childdirs, local>>
         /\ \/ deque' = deque /\ item' = item /\ pc' = [pc EXCEPT ![t] = "steal"]
            \/ \E v \in Workers, x \in Item : Takes(t, v, x)
<1> USE DEF TypeInv, TypeOK
<1>1. Victim(t) \in Workers
  BY VictimIsWorker
<1>2. \A v \in Workers : deque[v] # <<>> => Last(deque[v]) \in Item /\ Head(deque[v]) \in Item
  BY EndsOfSeq
<1>3. CASE PopOwn(t)
  BY <1>2, <1>3 DEF PopOwn, Takes
<1>4. CASE Steal(t)
  BY <1>1, <1>2, <1>4 DEF Steal, Takes
<1>. QED  BY <1>3, <1>4

\* Handling an entry ends in FinishEntry, and queues only a directory
\* that may be entered.
LEMMA HandlingStep ==
  ASSUME TypeInv, NEW t \in Workers, StatOk(t) \/ StatErr(t) \/ NoStatProbe(t)
  PROVE  /\ pc[t] = "stat" /\ todo[t] # <<>> /\ Head(todo[t]) \in Entry
         /\ \E own \in Nat, descend \in BOOLEAN :
              /\ FinishEntry(t, own, descend)
              /\ descend => Head(todo[t]) \in Dirs
              /\ descend =>
                   \/ ~Crosses(Head(todo[t])) \/ cfg.no_stat \/ Head(todo[t]) \in Flaky
              /\ ~descend /\ Head(todo[t]) \in Dirs =>
                   ~cfg.no_stat /\ Crosses(Head(todo[t]))
<1> DEFINE e == Head(todo[t])
<1>1. pc[t] = "stat" /\ todo[t] # <<>> /\ e \in Entry
  BY HeadOfTodo DEF StatOk, StatErr, NoStatProbe, TypeInv, HoldsEntry, Stating
<1>2. Meta[e].is_dir \in BOOLEAN /\ Meta[e].own \in Nat /\ (e \in Dirs <=> Meta[e].is_dir)
  BY <1>1, FileTreeAssumption DEF MetaType, Dirs
<1>3. \E own \in Nat, descend \in BOOLEAN :
        /\ FinishEntry(t, own, descend)
        /\ descend => Meta[e].is_dir
        /\ descend => ~Crosses(e) \/ cfg.no_stat \/ e \in Flaky
        /\ ~descend /\ Meta[e].is_dir => ~cfg.no_stat /\ Crosses(e)
  <2>1. CASE StatOk(t)
    <3>1. /\ \E own \in Nat :
               FinishEntry(t, own, Meta[e].is_dir /\ ~Crosses(e))
          /\ ~cfg.no_stat
      BY <1>2, <2>1, ZenonT(20) DEF StatOk
    <3>2. (Meta[e].is_dir /\ ~Crosses(e)) \in BOOLEAN
      OBVIOUS
    <3>. QED  BY <1>2, <3>1, <3>2, ZenonT(20)
  <2>2. CASE StatErr(t)
    <3>1. FinishEntry(t, 0, Meta[e].is_dir) /\ e \in Flaky
      BY <2>2 DEF StatErr
    <3>2. 0 \in Nat
      OBVIOUS
    <3>. QED  BY <1>2, <3>1, <3>2, ZenonT(20)
  <2>3. CASE NoStatProbe(t)
    <3>1. FinishEntry(t, 0, Meta[e].is_dir) /\ cfg.no_stat
      BY <2>3 DEF NoStatProbe
    <3>2. 0 \in Nat
      OBVIOUS
    <3>. QED  BY <1>2, <3>1, <3>2, ZenonT(20)
  <2>. QED  BY <2>1, <2>2, <2>3
<1>. QED  BY <1>1, <1>2, <1>3, ZenonT(20)

-----------------------------------------------------------------------------
(* Where a directory comes from.                                           *)

\* A mount point is not entered, unless its device is not known.
Enterable(d) ==
  d = Root \/ ~cfg.one_fs \/ cfg.no_stat \/ d \in Flaky \/ Meta[d].dev = root_dev

ReachedItem == {x \in Item : x.depth = Depth[x.dir] /\ Enterable(x.dir)}

ItemsReached ==
  \A t \in Workers :
    deque[t] \in Seq(ReachedItem) /\ item[t] \in ReachedItem /\ childdirs[t] \in Seq(ReachedItem)

LEMMA RootIsReached == RootItem \in ReachedItem
BY FileTreeAssumption, TreeAssumption DEF RootItem, ReachedItem, Item, Enterable

\* The entry a worker is at is one level below the directory it reads.
LEMMA ChildLevel ==
  ASSUME NEW d \in Entry, NEW e \in Children(d)
  PROVE  e \in Entry /\ e # Root /\ Depth[e] = Depth[d] + 1 /\ e # d
<1>1. PICK i \in DOMAIN Listing[d] : e = Listing[d][i]
  BY DEF Children
<1>2. e \in Entry
  BY <1>1, FileTreeAssumption, LenProperties, ElementOfSeq
<1>3. e # Root /\ Depth[e] = Depth[d] + 1
  BY <1>1, TreeAssumption
<1>4. Depth[d] \in Nat
  BY FileTreeAssumption
<1>. QED  BY <1>2, <1>3, <1>4

LEMMA ReachedStep ==
  ASSUME TypeInv, ItemsReached, TodoBelow, NEW t \in Workers, WorkerStep(t)
  PROVE  ItemsReached'
<1> USE DEF TypeInv, TypeOK
<1>1. ASSUME cfg' = cfg, root_dev' = root_dev
      PROVE  ReachedItem' = ReachedItem
  BY <1>1 DEF ReachedItem, Enterable
<1>2. CASE PopOwn(t) \/ Steal(t)
  <2>1. ReachedItem' = ReachedItem /\ childdirs' = childdirs
    BY <1>1, <1>2, LookingStep
  <2>2. CASE deque' = deque /\ item' = item
    BY <2>1, <2>2 DEF ItemsReached
  <2>3. CASE \E v \in Workers, x \in Item : Takes(t, v, x)
    <3>1. PICK v \in Workers, x \in Item : Takes(t, v, x)
      BY <2>3
    <3>2. /\ Front(deque[v]) \in Seq(ReachedItem) /\ Tail(deque[v]) \in Seq(ReachedItem)
          /\ Last(deque[v]) \in ReachedItem /\ Head(deque[v]) \in ReachedItem
      BY <3>1, EndsOfSeq DEF ItemsReached, Takes
    <3>. QED  BY <2>1, <3>1, <3>2 DEF ItemsReached, Takes
  <2>. QED  BY <1>2, <2>2, <2>3, LookingStep
<1>3. CASE StatOk(t) \/ StatErr(t) \/ NoStatProbe(t)
  <2> DEFINE e == Head(todo[t])
  <2>1. PICK own \in Nat, descend \in BOOLEAN :
          /\ FinishEntry(t, own, descend)
          /\ descend => e \in Dirs
          /\ descend => ~Crosses(e) \/ cfg.no_stat \/ e \in Flaky
          /\ ~descend /\ e \in Dirs => ~cfg.no_stat /\ Crosses(e)
    BY <1>3, HandlingStep, ZenonT(20)
  <2>2. ReachedItem' = ReachedItem
    <3>1. root_dev' = root_dev /\ cfg' = cfg
      BY <2>1 DEF FinishEntry
    <3>. QED  BY <1>1, <3>1
  <2>3. ASSUME descend PROVE Child(t) \in ReachedItem
    <3>1. e \in Children(item[t].dir) /\ item[t].dir \in Entry
      BY <1>3, HandlingStep, EndsOfSeq DEF TodoBelow, Item
    <3>2. e \in Entry /\ Depth[e] = item[t].depth + 1
      BY <3>1, ChildLevel, ZenonT(40) DEF ItemsReached, ReachedItem
    <3>3. Enterable(e)
      BY <2>1, <2>3 DEF Enterable, Crosses
    <3>4. Child(t) \in Item /\ Child(t).dir = e /\ Child(t).depth = item[t].depth + 1
      BY <3>2 DEF Child, Item
    <3>. QED  BY <3>2, <3>3, <3>4 DEF ReachedItem
  <2>4. descend => Append(childdirs[t], Child(t)) \in Seq(ReachedItem)
    BY <2>3, AppendProperties DEF ItemsReached
  <2>. QED  BY <2>1, <2>2, <2>4 DEF ItemsReached, FinishEntry
<1>4. CASE PushChildren(t)
  <2>1. deque[t] \o childdirs[t] \in Seq(ReachedItem)
    BY ConcatProperties DEF ItemsReached
  <2>. QED  BY <1>1, <1>4, <2>1 DEF ItemsReached, PushChildren, PushTo
<1>5. CASE AddActive(t)
  BY <1>1, <1>5, EmptySeq DEF ItemsReached, AddActive
<1>6. CASE SubActive(t)
  BY <1>1, <1>6, RootIsReached DEF ItemsReached, SubActive
<1>7. CASE CheckActive(t) \/ OpenDir(t) \/ SkipEntry(t) \/ AllocId(t) \/ Publish(t)
  <2>1. /\ deque' = deque /\ item' = item /\ childdirs' = childdirs
        /\ cfg' = cfg /\ root_dev' = root_dev
    BY <1>7 DEF CheckActive, OpenDir, SkipEntry, AllocId, Publish, shared
  <2>. QED  BY <1>1, <2>1 DEF ItemsReached
<1>. QED  BY <1>2, <1>3, <1>4, <1>5, <1>6, <1>7 DEF WorkerStep

-----------------------------------------------------------------------------
(* No directory is held twice.                                             *)

(***************************************************************************)
(* A directory is in one deque, in the hands of one worker or among the    *)
(* subdirectories one worker has gathered.  While a worker is between its  *)
(* push and its fetch_add, what it gathered is in its deque as well.       *)
(***************************************************************************)
Apart ==
  /\ \A t \in Workers : IsInjective(deque[t]) /\ IsInjective(childdirs[t])
  /\ \A t, u \in Workers : t # u =>
       /\ ToSet(deque[t]) \cap ToSet(deque[u]) = {}
       /\ ToSet(childdirs[t]) \cap ToSet(childdirs[u]) = {}
       /\ Busy(t) /\ Busy(u) => item[t] # item[u]
  /\ \A t, u \in Workers :
       /\ Busy(t) => item[t] \notin ToSet(deque[u])
       /\ pc[u] # "add" => ToSet(childdirs[u]) \cap ToSet(deque[t]) = {}
       /\ pc[u] # "add" /\ Busy(t) => item[t] \notin ToSet(childdirs[u])

GatheredWhileReading ==
  \A t \in Workers : pc[t] \notin {"entry", "stat", "add"} => childdirs[t] = <<>>

\* An id names one directory.
LEMMA IdNamesItem ==
  ASSUME TypeInv, NoHole, NoClash,
         NEW x \in NamedItem, NEW y \in NamedItem, x.id = y.id
  PROVE  x.dir = y.dir
<1>1. \A r \in Records : r.id # 0
  <2>1. \A r \in Records : r.id \in 1 .. counter - 1
    BY DEF NoHole
  <2>. QED  BY <2>1
<1>2. \A q, r \in Records : q.id = r.id => q = r
  BY DEF NoClash, Records
<1>3. <<x.id, x.dir>> \in Names /\ <<y.id, y.dir>> \in Names
  BY DEF NamedItem
<1>4. CASE x.id = 0
  BY <1>1, <1>3, <1>4 DEF Names
<1>5. CASE x.id # 0
  <2>1. PICK q \in Records : x.id = q.id /\ x.dir = q.entry
    BY <1>3, <1>5 DEF Names
  <2>2. PICK r \in Records : y.id = r.id /\ y.dir = r.entry
    BY <1>3, <1>5 DEF Names
  <2>. QED  BY <1>2, <2>1, <2>2
<1>. QED  BY <1>4, <1>5

LEMMA IdNamesReachedItem ==
  ASSUME TypeInv, NoHole, NoClash,
         NEW x \in NamedItem \cap ReachedItem, NEW y \in NamedItem \cap ReachedItem,
         x.id = y.id
  PROVE  x = y
<1>1. x.dir = y.dir
  BY IdNamesItem
<1>2. x.depth = y.depth
  BY <1>1 DEF ReachedItem
<1>. QED  BY <1>1, <1>2 DEF ReachedItem, Item

\* The entry a worker is at has no item yet.
LEMMA ChildIsNew ==
  ASSUME TypeInv, NoHole, NoClash, NEW t \in Workers, pc[t] = "stat", NEW x \in NamedItem
  PROVE  x.id # id[t] /\ x # Child(t)
<1>1. t \in Stating
  BY DEF Stating
<1>2. id[t] # 0 /\ \A r \in Records : r.id # id[t]
  <2>1. id[t] \in 1 .. counter - 1
    BY <1>1 DEF NoHole
  <2>. QED  BY <1>1, <2>1 DEF NoClash
<1>3. x.id = 0 \/ \E r \in Records : r.id = x.id
  BY DEF NamedItem, Names
<1>. QED  BY <1>2, <1>3 DEF Child

\* The sequences of items, as sets.
LEMMA NamedSets ==
  ASSUME ItemsNamed, NEW t \in Workers
  PROVE  /\ ToSet(deque[t]) \subseteq NamedItem
         /\ ToSet(childdirs[t]) \subseteq NamedItem
         /\ item[t] \in NamedItem
BY ToSetOfSeq DEF ItemsNamed

LEMMA TakesOne ==
  ASSUME TypeInv, Apart, NEW t \in Workers, NEW v \in Workers, NEW x, Takes(t, v, x)
  PROVE  /\ IsInjective(deque'[v])
         /\ ToSet(deque'[v]) = ToSet(deque[v]) \ {x}
         /\ x \in ToSet(deque[v])
         /\ \A u \in Workers \ {v} : deque'[u] = deque[u]
<1> USE DEF TypeInv, TypeOK
<1>1. deque[v] \in Seq(Item) /\ deque[v] # <<>> /\ IsInjective(deque[v])
  BY DEF Takes, Apart
<1>2. /\ IsInjective(Front(deque[v])) /\ ToSet(Front(deque[v])) = ToSet(deque[v]) \ {Last(deque[v])}
      /\ IsInjective(Tail(deque[v])) /\ ToSet(Tail(deque[v])) = ToSet(deque[v]) \ {Head(deque[v])}
      /\ Last(deque[v]) \in ToSet(deque[v]) /\ Head(deque[v]) \in ToSet(deque[v])
  BY <1>1, TakeAnEnd
<1>. QED  BY <1>2 DEF Takes

LEMMA ApartStep ==
  ASSUME TypeInv, NoHole, NoClash, ItemsNamed, Apart, GatheredWhileReading,
         NEW t \in Workers, WorkerStep(t)
  PROVE  Apart' /\ GatheredWhileReading'
<1> USE DEF TypeInv, TypeOK, GatheredWhileReading, Busy
<1>2. CASE PopOwn(t) \/ Steal(t)
  <2>1. pc[t] \in {"own", "steal"} /\ childdirs' = childdirs
    BY <1>2, LookingStep
  <2>2. CASE deque' = deque /\ item' = item /\ pc' = [pc EXCEPT ![t] = "steal"]
    BY <2>1, <2>2 DEF Apart
  <2>3. CASE \E v \in Workers, x \in Item : Takes(t, v, x)
    <3>1. PICK v \in Workers, x \in Item : Takes(t, v, x)
      BY <2>3
    <3>2. /\ IsInjective(deque'[v])
          /\ ToSet(deque'[v]) = ToSet(deque[v]) \ {x}
          /\ x \in ToSet(deque[v])
          /\ \A u \in Workers \ {v} : deque'[u] = deque[u]
      BY <3>1, TakesOne
    <3>3. /\ pc' = [pc EXCEPT ![t] = "guard"] /\ item' = [item EXCEPT ![t] = x]
      BY <3>1 DEF Takes
    <3>4. \A u \in Workers : ToSet(deque'[u]) \subseteq ToSet(deque[u]) /\ x \notin ToSet(deque'[u])
      BY <3>2 DEF Apart
    <3>5. \A u \in Workers : Busy(u)' => u = t \/ (Busy(u) /\ item'[u] = item[u])
      BY <3>3
    <3>6. \A u \in Workers : pc'[u] # "add" => pc[u] # "add" \/ u = t
      BY <3>3
    <3>7. \A u \in Workers : IsInjective(deque'[u]) /\ IsInjective(childdirs'[u])
      BY <2>1, <3>2 DEF Apart
    <3>8. ASSUME NEW u \in Workers, NEW w \in Workers, u # w
          PROVE  /\ ToSet(deque'[u]) \cap ToSet(deque'[w]) = {}
                 /\ ToSet(childdirs'[u]) \cap ToSet(childdirs'[w]) = {}
                 /\ (Busy(u) /\ Busy(w))' => item'[u] # item'[w]
      <4>1. \A s \in Workers : Busy(s) => item[s] # x
        BY <3>2 DEF Apart
      <4>2. ToSet(deque[u]) \cap ToSet(deque[w]) = {} /\ ToSet(childdirs[u]) \cap ToSet(childdirs[w]) = {}
        BY <3>8 DEF Apart
      <4>3. Busy(u)' /\ Busy(w)' => item'[u] # item'[w]
        <5>1. CASE u # t /\ w # t
          BY <3>5, <3>8, <5>1 DEF Apart
        <5>2. CASE u = t \/ w = t
          BY <3>3, <3>5, <3>8, <4>1, <5>2, SMTT(30)
        <5>. QED  BY <5>1, <5>2
      <4>. QED  BY <2>1, <3>4, <4>2, <4>3
    <3>9. ASSUME NEW u \in Workers, NEW w \in Workers
          PROVE  /\ Busy(u)' => item'[u] \notin ToSet(deque'[w])
                 /\ pc'[w] # "add" => ToSet(childdirs'[w]) \cap ToSet(deque'[u]) = {}
                 /\ pc'[w] # "add" /\ Busy(u)' => item'[u] \notin ToSet(childdirs'[w])
      <4>1. pc'[w] # "add" => pc[w] # "add"
        BY <2>1, <3>3
      <4>2. pc[w] # "add" => x \notin ToSet(childdirs[w])
        BY <3>2 DEF Apart
      <4>. QED  BY <2>1, <3>3, <3>4, <3>5, <4>1, <4>2, SMTT(30) DEF Apart
    <3>10. GatheredWhileReading'
      BY <2>1, <3>3
    <3>. QED  BY <3>7, <3>8, <3>9, <3>10 DEF Apart
  <2>. QED  BY <1>2, <2>2, <2>3, LookingStep
<1>3. CASE StatOk(t) \/ StatErr(t) \/ NoStatProbe(t)
  <2>1. pc[t] = "stat" /\ \E own, descend : FinishEntry(t, own, descend)
    BY <1>3, HandlingStep, ZenonT(20)
  <2>2. /\ pc' = [pc EXCEPT ![t] = "entry"] /\ deque' = deque /\ item' = item
        /\ \A u \in Workers \ {t} : childdirs'[u] = childdirs[u]
        /\ childdirs'[t] = childdirs[t] \/ childdirs'[t] = Append(childdirs[t], Child(t))
    BY <2>1 DEF FinishEntry
  <2>3. \A u \in Workers : /\ Child(t) \notin ToSet(deque[u])
                           /\ Child(t) \notin ToSet(childdirs[u])
                           /\ Child(t) # item[u]
    BY <2>1, ChildIsNew, NamedSets
  <2>4. Child(t) \in Item
    <3>1. Head(todo[t]) \in Entry
      BY <1>3, HandlingStep
    <3>2. item[t].depth + 1 \in Nat /\ id[t] \in Nat
      BY DEF Item
    <3>. QED  BY <3>1, <3>2 DEF Child, Item
  <2>5. /\ IsInjective(childdirs'[t])
        /\ ToSet(childdirs'[t]) \subseteq ToSet(childdirs[t]) \cup {Child(t)}
    <3>1. childdirs[t] \in Seq(Item) /\ IsInjective(childdirs[t]) /\ Child(t) \notin ToSet(childdirs[t])
      BY <2>3 DEF Apart
    <3>2. /\ IsInjective(Append(childdirs[t], Child(t)))
          /\ ToSet(Append(childdirs[t], Child(t))) = ToSet(childdirs[t]) \cup {Child(t)}
      BY <2>4, <3>1, AppendApart
    <3>. QED  BY <2>2, <3>1, <3>2
  <2>6. \A u \in Workers : /\ Busy(u)' <=> Busy(u)
                           /\ pc'[u] # "add" <=> pc[u] # "add"
    BY <2>1, <2>2
  <2>7. Apart'
    <3>1. \A u \in Workers : IsInjective(deque'[u]) /\ IsInjective(childdirs'[u])
      BY <2>2, <2>5 DEF Apart
    <3>2. ASSUME NEW u \in Workers, NEW w \in Workers, u # w
          PROVE  /\ ToSet(deque'[u]) \cap ToSet(deque'[w]) = {}
                 /\ ToSet(childdirs'[u]) \cap ToSet(childdirs'[w]) = {}
                 /\ (Busy(u) /\ Busy(w))' => item'[u] # item'[w]
      <4>1. /\ ToSet(deque[u]) \cap ToSet(deque[w]) = {}
            /\ ToSet(childdirs[u]) \cap ToSet(childdirs[w]) = {}
            /\ Busy(u) /\ Busy(w) => item[u] # item[w]
        BY <3>2 DEF Apart
      <4>2. ToSet(childdirs'[u]) \cap ToSet(childdirs'[w]) = {}
        <5>1. CASE u = t
          BY <2>2, <2>3, <2>5, <3>2, <4>1, <5>1
        <5>2. CASE w = t
          BY <2>2, <2>3, <2>5, <3>2, <4>1, <5>2
        <5>3. CASE u # t /\ w # t
          BY <2>2, <4>1, <5>3
        <5>. QED  BY <5>1, <5>2, <5>3
      <4>. QED  BY <2>2, <2>6, <4>1, <4>2
    <3>3. ASSUME NEW u \in Workers, NEW w \in Workers
          PROVE  /\ Busy(u)' => item'[u] \notin ToSet(deque'[w])
                 /\ pc'[w] # "add" => ToSet(childdirs'[w]) \cap ToSet(deque'[u]) = {}
                 /\ pc'[w] # "add" /\ Busy(u)' => item'[u] \notin ToSet(childdirs'[w])
      <4>1. /\ Busy(u) => item[u] \notin ToSet(deque[w])
            /\ pc[w] # "add" => ToSet(childdirs[w]) \cap ToSet(deque[u]) = {}
            /\ pc[w] # "add" /\ Busy(u) => item[u] \notin ToSet(childdirs[w])
        BY DEF Apart
      <4>2. CASE w = t
        BY <2>2, <2>3, <2>5, <2>6, <4>1, <4>2
      <4>3. CASE w # t
        BY <2>2, <2>6, <4>1, <4>3
      <4>. QED  BY <4>2, <4>3
    <3>. QED  BY <3>1, <3>2, <3>3 DEF Apart
  <2>8. GatheredWhileReading'
    BY <2>2
  <2>. QED  BY <2>7, <2>8
<1>4. CASE PushChildren(t)
  <2>1. /\ pc[t] = "entry" /\ pc' = [pc EXCEPT ![t] = "add"]
        /\ deque' = [deque EXCEPT ![t] = deque[t] \o childdirs[t]]
        /\ item' = item /\ childdirs' = childdirs
    BY <1>4 DEF PushChildren, PushTo
  <2>2. /\ IsInjective(deque'[t])
        /\ ToSet(deque'[t]) = ToSet(deque[t]) \cup ToSet(childdirs[t])
        /\ \A u \in Workers \ {t} : deque'[u] = deque[u]
    <3>1. /\ IsInjective(deque[t]) /\ IsInjective(childdirs[t])
          /\ ToSet(deque[t]) \cap ToSet(childdirs[t]) = {}
      BY <2>1 DEF Apart
    <3>. QED  BY <2>1, <3>1, JoinApart
  <2>3. \A u \in Workers : Busy(u)' <=> Busy(u)
    BY <2>1
  <2>4. \A u \in Workers : pc'[u] # "add" => u # t /\ pc[u] # "add"
    BY <2>1
  <2>5. Apart'
    <3>1. \A u \in Workers : IsInjective(deque'[u]) /\ IsInjective(childdirs'[u])
      BY <2>1, <2>2 DEF Apart
    <3>2. ASSUME NEW u \in Workers, NEW w \in Workers, u # w
          PROVE  /\ ToSet(deque'[u]) \cap ToSet(deque'[w]) = {}
                 /\ ToSet(childdirs'[u]) \cap ToSet(childdirs'[w]) = {}
                 /\ (Busy(u) /\ Busy(w))' => item'[u] # item'[w]
      <4>1. /\ ToSet(deque[u]) \cap ToSet(deque[w]) = {}
            /\ ToSet(childdirs[u]) \cap ToSet(childdirs[w]) = {}
            /\ Busy(u) /\ Busy(w) => item[u] # item[w]
        BY <3>2 DEF Apart
      <4>2. ToSet(childdirs[t]) \cap ToSet(deque[u]) = {} /\ ToSet(childdirs[t]) \cap ToSet(deque[w]) = {}
        BY <2>1 DEF Apart
      <4>3. ToSet(deque'[u]) \cap ToSet(deque'[w]) = {}
        BY <2>2, <3>2, <4>1, <4>2
      <4>. QED  BY <2>1, <2>3, <4>1, <4>3
    <3>3. ASSUME NEW u \in Workers, NEW w \in Workers
          PROVE  /\ Busy(u)' => item'[u] \notin ToSet(deque'[w])
                 /\ pc'[w] # "add" => ToSet(childdirs'[w]) \cap ToSet(deque'[u]) = {}
                 /\ pc'[w] # "add" /\ Busy(u)' => item'[u] \notin ToSet(childdirs'[w])
      <4>1. /\ Busy(u) => item[u] \notin ToSet(deque[w]) /\ item[u] \notin ToSet(childdirs[t])
            /\ pc[w] # "add" => ToSet(childdirs[w]) \cap ToSet(deque[u]) = {}
            /\ pc[w] # "add" /\ Busy(u) => item[u] \notin ToSet(childdirs[w])
            /\ w # t => ToSet(childdirs[w]) \cap ToSet(childdirs[t]) = {}
        BY <2>1 DEF Apart
      <4>2. Busy(u)' => item'[u] \notin ToSet(deque'[w])
        BY <2>1, <2>2, <2>3, <4>1
      <4>3. pc'[w] # "add" => ToSet(childdirs'[w]) \cap ToSet(deque'[u]) = {}
        BY <2>1, <2>2, <2>4, <4>1
      <4>. QED  BY <2>1, <2>3, <2>4, <4>1, <4>2, <4>3
    <3>. QED  BY <3>1, <3>2, <3>3 DEF Apart
  <2>6. GatheredWhileReading'
    BY <2>1
  <2>. QED  BY <2>5, <2>6
<1>5. CASE AddActive(t)
  <2>1. /\ pc[t] = "add" /\ pc' = [pc EXCEPT ![t] = "sub"]
        /\ deque' = deque /\ item' = item
        /\ childdirs' = [childdirs EXCEPT ![t] = <<>>]
    BY <1>5 DEF AddActive
  <2>2. ToSet(<<>>) = {} /\ IsInjective(<<>>)
    BY DEF ToSet, IsInjective
  <2>3. \A u \in Workers : Busy(u)' <=> Busy(u)
    BY <2>1
  <2>4. Apart'
    BY <2>1, <2>2, <2>3 DEF Apart
  <2>. QED  BY <2>1, <2>4
<1>6. CASE SubActive(t)
  <2>1. /\ pc[t] = "sub" /\ pc' = [pc EXCEPT ![t] = "own"]
        /\ deque' = deque /\ item' = [item EXCEPT ![t] = RootItem] /\ childdirs' = childdirs
    BY <1>6 DEF SubActive
  <2>2. Apart'
    BY <2>1 DEF Apart
  <2>. QED  BY <2>1, <2>2
<1>7. CASE CheckActive(t) \/ OpenDir(t) \/ SkipEntry(t) \/ AllocId(t) \/ Publish(t)
  <2>1. /\ deque' = deque /\ item' = item /\ childdirs' = childdirs
        /\ \A u \in Workers \ {t} : pc'[u] = pc[u]
        /\ \/ pc[t] \in {"steal", "publish"} /\ pc'[t] \in {"own", "publish", "exit"}
           \/ pc[t] \in {"guard", "entry"} /\ pc'[t] \in {"entry", "stat"}
    BY <1>7 DEF CheckActive, OpenDir, SkipEntry, AllocId, Publish, shared
  <2>2. Apart'
    BY <2>1 DEF Apart
  <2>. QED  BY <2>1, <2>2
<1>. QED  BY <1>2, <1>3, <1>4, <1>5, <1>6, <1>7 DEF WorkerStep

-----------------------------------------------------------------------------
(* What `active` counts.                                                   *)

LEMMA ModSum ==
  ASSUME NEW m \in Nat \ {0}, NEW a \in Int, NEW b \in Int
  PROVE  ((a % m) + b) % m = (a + b) % m
<1>1. \A n \in Int, d \in Nat \ {0} :
        n = d * (n \div d) + (n % d) /\ n % d \in 0 .. d - 1 /\ n \div d \in Int
  BY SMT
<1> DEFINE k == ((a % m) + b) \div m
           l == (a + b) \div m
           j == a \div m
           r == ((a % m) + b) % m
           q == (a + b) % m
<1>2. /\ a = m * j + (a % m) /\ (a % m) + b = m * k + r /\ a + b = m * l + q
      /\ j \in Int /\ k \in Int /\ l \in Int
      /\ a % m \in 0 .. m - 1 /\ r \in 0 .. m - 1 /\ q \in 0 .. m - 1
  <2>1. /\ a = m * j + (a % m) /\ j \in Int /\ a % m \in 0 .. m - 1
    BY <1>1
  <2>2. (a % m) + b \in Int /\ a + b \in Int
    BY <2>1
  <2>3. (a % m) + b = m * k + r /\ k \in Int /\ r \in 0 .. m - 1
    BY <1>1, <2>2
  <2>4. a + b = m * l + q /\ l \in Int /\ q \in 0 .. m - 1
    BY <1>1, <2>2
  <2>. QED  BY <2>1, <2>3, <2>4
<1> HIDE DEF k, l, j, r, q
<1>3. a % m \in Int /\ r \in Int /\ q \in Int
  BY <1>2
<1>4. m * l + q = m * j + m * k + r
  BY <1>2, <1>3
<1>5. q - r = m * (j + k - l)
  BY <1>2, <1>3, <1>4
<1>6. j + k - l = 0
  <2> DEFINE n == j + k - l
  <2>1. n \in Int /\ q - r = m * n /\ q - r < m /\ r - q < m
    BY <1>2, <1>3, <1>5
  <2> HIDE DEF n
  <2>2. CASE n >= 1
    <3>1. m * n >= m
      BY <2>1, <2>2
    <3>. QED  BY <1>3, <2>1, <3>1
  <2>3. CASE n <= -1
    <3>1. m * n <= -m
      BY <2>1, <2>3
    <3>. QED  BY <1>3, <2>1, <3>1
  <2>. QED  BY <2>1, <2>2, <2>3 DEF n
<1>7. q = r
  BY <1>2, <1>3, <1>5, <1>6
<1>. QED  BY <1>7 DEF q, r

\* The items of a scan, each known by its id.
Known == NamedItem \cap ReachedItem

LEMMA IdsOfUnion ==
  ASSUME NEW A, NEW B
  PROVE  Ids(A \cup B) = Ids(A) \cup Ids(B)
BY DEF Ids

LEMMA IdsApart ==
  ASSUME TypeInv, NoHole, NoClash,
         NEW A \in SUBSET Known, NEW B \in SUBSET Known, A \cap B = {}
  PROVE  Ids(A) \cap Ids(B) = {}
BY IdNamesReachedItem DEF Known, Ids

LEMMA IdsOfSeq ==
  ASSUME TypeInv, NoHole, NoClash, NEW s \in Seq(Known), IsInjective(s)
  PROVE  IsFiniteSet(Ids(ToSet(s))) /\ Cardinality(Ids(ToSet(s))) = Len(s)
<1> DEFINE f == [i \in 1 .. Len(s) |-> s[i].id]
<1>1. /\ Len(s) \in Nat /\ DOMAIN s = 1 .. Len(s)
      /\ \A i \in 1 .. Len(s) : s[i] \in Known
  BY ToSetOfSeq, ElementOfSeq
<1>2. Ids(ToSet(s)) = {s[i].id : i \in 1 .. Len(s)}
  BY <1>1 DEF Ids, ToSet
<1>3. \A i, j \in 1 .. Len(s) : s[i].id = s[j].id => i = j
  BY <1>1, IdNamesReachedItem DEF Known, IsInjective
<1>4. f \in Bijection(1 .. Len(s), Ids(ToSet(s)))
  <2>1. f \in [1 .. Len(s) -> Ids(ToSet(s))]
    BY <1>2
  <2>2. \A a, b \in 1 .. Len(s) : f[a] = f[b] => a = b
    BY <1>3
  <2>3. \A y \in Ids(ToSet(s)) : \E i \in 1 .. Len(s) : f[i] = y
    BY <1>2
  <2>. QED  BY <2>1, <2>2, <2>3, Fun_IsBij
<1>5. ExistsBijection(1 .. Len(s), Ids(ToSet(s)))
  BY <1>4 DEF ExistsBijection
<1>6. IsFiniteSet(1 .. Len(s)) /\ Cardinality(1 .. Len(s)) = Len(s)
  <2>1. 1 \in Int /\ Len(s) \in Int /\ (1 > Len(s) => Len(s) = 0)
    BY <1>1
  <2>. QED  BY <2>1, FS_Interval
<1>. QED  BY <1>5, <1>6, FS_Bijection

LEMMA KnownSeqs ==
  ASSUME ItemsNamed, ItemsReached, NEW t \in Workers
  PROVE  /\ deque[t] \in Seq(Known) /\ childdirs[t] \in Seq(Known) /\ item[t] \in Known
         /\ ToSet(deque[t]) \subseteq Known /\ ToSet(childdirs[t]) \subseteq Known
<1>1. ASSUME NEW s \in Seq(NamedItem), s \in Seq(ReachedItem)
      PROVE  s \in Seq(Known)
  <2>1. Len(s) \in Nat /\ s \in [1 .. Len(s) -> NamedItem]
    BY LenProperties
  <2>2. s \in [1 .. Len(s) -> ReachedItem]
    BY <1>1, LenProperties
  <2>3. s \in [1 .. Len(s) -> Known]
    BY <2>1, <2>2 DEF Known
  <2>. QED  BY <2>1, <2>3, SeqDef
<1>2. deque[t] \in Seq(Known) /\ childdirs[t] \in Seq(Known) /\ item[t] \in Known
  BY <1>1 DEF ItemsNamed, ItemsReached, Known
<1>. QED  BY <1>2, ToSetOfSeq

Held == Queued \cup {item[t] : t \in {u \in Workers : Busy(u)}}

LEMMA HeldIsKnown ==
  ASSUME ItemsNamed, ItemsReached
  PROVE  Held \subseteq Known /\ Outstanding = Ids(Held)
<1>1. Held \subseteq Known
  BY KnownSeqs DEF Held, Queued
<1>2. Outstanding = Ids(Held)
  BY DEF Outstanding, Held, Ids
<1>. QED  BY <1>1, <1>2

\* What is counted is finite: there are no more ids than `counter`.
LEMMA CountsAreFinite ==
  ASSUME TypeInv, NoHole, ItemsNamed, ItemsReached
  PROVE  /\ IsFiniteSet(Outstanding) /\ IsFiniteSet(Uncounted)
         /\ Cardinality(Outstanding) \in Nat /\ Cardinality(Uncounted) \in Nat
<1>1. IsFiniteSet(0 .. counter - 1)
  BY FS_Interval DEF TypeInv, TypeOK
<1>2. \A x \in Known : x.id \in 0 .. counter - 1
  BY NamedBelowCounter DEF Known
<1>3. Outstanding \subseteq 0 .. counter - 1
  BY <1>2, HeldIsKnown DEF Ids
<1>4. Uncounted \subseteq 0 .. counter - 1
  BY <1>2, KnownSeqs DEF Ids, Uncounted
<1>. QED  BY <1>1, <1>3, <1>4, FS_Subset, FS_CardinalityType

\* Adding a set of new ids, or taking it away.
LEMMA UnionCount ==
  ASSUME NEW A, NEW B, IsFiniteSet(A), IsFiniteSet(B), A \cap B = {}
  PROVE  Cardinality(A \cup B) = Cardinality(A) + Cardinality(B)
<1>1. Cardinality(A) \in Nat /\ Cardinality(B) \in Nat
  BY FS_CardinalityType
<1>2. Cardinality(A \cap B) = 0
  BY FS_EmptySet
<1>3. Cardinality(A \cup B) = Cardinality(A) + Cardinality(B) - Cardinality(A \cap B)
  BY FS_Union
<1>. QED  BY <1>1, <1>2, <1>3

HeldInv == nodes = <<>> => ItemsReached /\ Apart /\ GatheredWhileReading

WalkInv == IdInv /\ Lineage /\ HeldInv

LEMMA HeldInit == Init => HeldInv
<1> SUFFICES ASSUME Init PROVE ItemsReached /\ Apart /\ GatheredWhileReading
  BY DEF HeldInv
<1>1. ToSet(<<>>) = {} /\ IsInjective(<<>>)
  BY DEF ToSet, IsInjective
<1>2. IsInjective(<<RootItem>>)
  <2> DEFINE s == <<RootItem>>
  <2>1. DOMAIN s = {1}
    OBVIOUS
  <2> HIDE DEF s
  <2>2. IsInjective(s)
    BY <2>1 DEF IsInjective
  <2>. QED  BY <2>2 DEF s
<1>3. ItemsReached
  BY RootIsReached, EmptySeq DEF Init, ItemsReached
<1>4. Apart
  BY <1>1, <1>2 DEF Init, Apart, Busy
<1>. QED  BY <1>3, <1>4 DEF Init, GatheredWhileReading

LEMMA HeldStep ==
  ASSUME WalkInv, [Next]_vars
  PROVE  HeldInv'
<1> SUFFICES ASSUME nodes' = <<>> PROVE (ItemsReached /\ Apart /\ GatheredWhileReading)'
  BY DEF HeldInv
<1>1. /\ nodes = <<>> /\ TypeInv
      /\ (\E t \in Workers : WorkerStep(t)) \/ UNCHANGED vars
  BY StillWalking DEF WalkInv, IdInv
<1>2. /\ NoHole /\ NoClash /\ ItemsNamed /\ TodoBelow
      /\ ItemsReached /\ Apart /\ GatheredWhileReading
  BY <1>1 DEF WalkInv, IdInv, ArenaDense, Lineage, HeldInv
<1>3. CASE UNCHANGED vars
  BY <1>2, <1>3 DEF vars, shared, worker, ItemsReached, ReachedItem, Enterable, Apart,
     GatheredWhileReading, Busy
<1>. QED  BY <1>1, <1>2, <1>3, ReachedStep, ApartStep

LEMMA WalkInit == Init => WalkInv
BY IdInit, LineageInit, HeldInit DEF WalkInv

LEMMA WalkStep ==
  ASSUME WalkInv, [Next]_vars
  PROVE  WalkInv'
BY IdStep, LineageStep, HeldStep DEF WalkInv

LEMMA ActiveStep ==
  ASSUME WalkInv, ActiveAccounts, nodes = <<>>, NEW t \in Workers, WorkerStep(t)
  PROVE  ActiveAccounts'
<1>1. /\ TypeInv /\ NoHole /\ NoClash /\ ItemsNamed
      /\ ItemsReached /\ Apart /\ GatheredWhileReading
  BY DEF WalkInv, IdInv, ArenaDense, Lineage, HeldInv
<1>2. /\ IsFiniteSet(Outstanding) /\ IsFiniteSet(Uncounted)
      /\ Cardinality(Outstanding) \in Nat /\ Cardinality(Uncounted) \in Nat
  BY <1>1, CountsAreFinite
<1>3. UsizeMod \in Nat \ {0}
  BY <1>1, WorkersAssumption DEF TypeInv, TypeOK
<1>. /\ TypeInv /\ Apart /\ GatheredWhileReading
  BY <1>1
<1> USE DEF TypeInv, TypeOK
<1>4. ASSUME active' = active, Outstanding' = Outstanding, Uncounted' = Uncounted
      PROVE  ActiveAccounts'
  BY <1>4 DEF ActiveAccounts
<1> DEFINE C == Ids(ToSet(childdirs[t]))
<1>5. IsFiniteSet(C) /\ Cardinality(C) = Len(childdirs[t]) /\ Len(childdirs[t]) \in Nat
  BY <1>1, KnownSeqs, IdsOfSeq, LenProperties DEF Apart
<1>6. \A u \in Workers : u # t => C \cap Ids(ToSet(childdirs[u])) = {}
  BY <1>1, KnownSeqs, IdsApart DEF Apart
<1>20. /\ \A x : x \in Queued <=> \E u \in Workers : x \in ToSet(deque[u])
       /\ \A x : x \in Queued' <=> \E u \in Workers : x \in ToSet(deque'[u])
  BY DEF Queued
<1>21. /\ \A n : n \in Uncounted <=>
             \E u \in Workers : pc[u] = "add" /\ n \in Ids(ToSet(childdirs[u]))
       /\ \A n : n \in Uncounted' <=>
             \E u \in Workers : pc'[u] = "add" /\ n \in Ids(ToSet(childdirs'[u]))
  BY DEF Uncounted
<1>22. Outstanding = Ids(Held) /\ Outstanding' = Ids(Held')
  BY DEF Outstanding, Held, Ids
<1>7. CASE PopOwn(t) \/ Steal(t)
  <2>1. pc[t] \in {"own", "steal"} /\ childdirs' = childdirs /\ active' = active
    BY <1>7, LookingStep
  <2>2. CASE deque' = deque /\ item' = item /\ pc' = [pc EXCEPT ![t] = "steal"]
    <3>1. \A u \in Workers : (Busy(u)' <=> Busy(u)) /\ (pc'[u] = "add" <=> pc[u] = "add")
      BY <2>1, <2>2 DEF Busy
    <3>. QED  BY <1>4, <2>1, <2>2, <3>1 DEF Outstanding, Uncounted, Queued
  <2>3. CASE \E v \in Workers, x \in Item : Takes(t, v, x)
    <3>1. PICK v \in Workers, x \in Item : Takes(t, v, x)
      BY <2>3
    <3>2. /\ ToSet(deque'[v]) = ToSet(deque[v]) \ {x} /\ x \in ToSet(deque[v])
          /\ \A u \in Workers \ {v} : deque'[u] = deque[u]
          /\ pc' = [pc EXCEPT ![t] = "guard"] /\ item' = [item EXCEPT ![t] = x]
      BY <3>1, TakesOne DEF Takes
    <3>3. /\ Busy(t)' /\ ~Busy(t) /\ item'[t] = x
          /\ \A u \in Workers \ {t} : (Busy(u)' <=> Busy(u)) /\ item'[u] = item[u]
          /\ \A u \in Workers : pc'[u] = "add" <=> pc[u] = "add"
      BY <2>1, <3>2 DEF Busy
    <3>4. Queued = Queued' \cup {x}
      <4>1. \A u \in Workers : ToSet(deque'[u]) \subseteq ToSet(deque[u])
        BY <3>2
      <4>2. \A u \in Workers : ToSet(deque[u]) \subseteq ToSet(deque'[u]) \cup {x}
        BY <3>2
      <4>3. x \in Queued
        BY <1>20, <3>2
      <4>4. Queued' \subseteq Queued
        BY <1>20, <4>1
      <4>5. Queued \subseteq Queued' \cup {x}
        BY <1>20, <4>2
      <4>. QED  BY <4>3, <4>4, <4>5
    <3>5. {item'[u] : u \in {w \in Workers : Busy(w)'}} =
            {item[u] : u \in {w \in Workers : Busy(w)}} \cup {x}
      BY <3>3, ZenonT(40)
    <3>6. Held' = Held
      BY <3>4, <3>5 DEF Held
    <3>7. Outstanding' = Outstanding
      BY <1>22, <3>6
    <3>8. Uncounted' = Uncounted
      BY <2>1, <3>3, SMTT(30) DEF Uncounted
    <3>. QED  BY <1>4, <2>1, <3>7, <3>8
  <2>. QED  BY <1>7, <2>2, <2>3, LookingStep
<1>8. CASE StatOk(t) \/ StatErr(t) \/ NoStatProbe(t)
  <2>1. pc[t] = "stat" /\ \E own, descend : FinishEntry(t, own, descend)
    BY <1>8, HandlingStep, ZenonT(20)
  <2>2. /\ pc' = [pc EXCEPT ![t] = "entry"] /\ deque' = deque /\ item' = item
        /\ \A u \in Workers \ {t} : childdirs'[u] = childdirs[u]
        /\ active' = active
    BY <2>1 DEF FinishEntry
  <2>3. \A u \in Workers : (Busy(u)' <=> Busy(u)) /\ (pc'[u] = "add" <=> pc[u] = "add")
    BY <2>1, <2>2 DEF Busy
  <2>4. Outstanding' = Outstanding
    BY <2>2, <2>3 DEF Outstanding, Queued
  <2>5. Uncounted' = Uncounted
    <3>1. \A u \in Workers : pc'[u] = "add" => childdirs'[u] = childdirs[u]
      BY <2>1, <2>2
    <3>. QED  BY <1>21, <2>3, <3>1
  <2>. QED  BY <1>4, <2>2, <2>4, <2>5
<1>9. CASE PushChildren(t)
  <2>1. /\ pc[t] = "entry" /\ pc' = [pc EXCEPT ![t] = "add"]
        /\ deque' = [deque EXCEPT ![t] = deque[t] \o childdirs[t]]
        /\ item' = item /\ childdirs' = childdirs /\ active' = active
    BY <1>9 DEF PushChildren, PushTo
  <2>2. ToSet(deque'[t]) = ToSet(deque[t]) \cup ToSet(childdirs[t])
    BY <2>1, JoinApart
  <2>3. Held' = Held \cup ToSet(childdirs[t])
    <3>1. Queued' = Queued \cup ToSet(childdirs[t])
      BY <1>20, <2>1, <2>2
    <3>2. \A u \in Workers : Busy(u)' <=> Busy(u)
      BY <2>1 DEF Busy
    <3>. QED  BY <2>1, <3>1, <3>2 DEF Held
  <2>4. Outstanding' = Outstanding \cup C
    BY <1>22, <2>3, IdsOfUnion
  <2>5. Outstanding \cap C = {}
    <3>1. Held \cap ToSet(childdirs[t]) = {}
      <4>1. Queued \cap ToSet(childdirs[t]) = {}
        <5>1. \A u \in Workers : ToSet(childdirs[t]) \cap ToSet(deque[u]) = {}
          BY <2>1 DEF Apart
        <5>. QED  BY <1>20, <5>1
      <4>2. \A u \in Workers : Busy(u) => item[u] \notin ToSet(childdirs[t])
        BY <2>1 DEF Apart
      <4>. QED  BY <4>1, <4>2 DEF Held
    <3>2. Held \in SUBSET Known /\ ToSet(childdirs[t]) \in SUBSET Known
      BY <1>1, KnownSeqs, HeldIsKnown
    <3>. QED  BY <1>1, <1>22, <3>1, <3>2, IdsApart
  <2>6. Uncounted' = Uncounted \cup C
    <3>1. {u \in Workers : pc'[u] = "add"} = {u \in Workers : pc[u] = "add"} \cup {t}
      BY <2>1
    <3>. QED  BY <1>21, <2>1, <3>1
  <2>7. Uncounted \cap C = {}
    BY <1>6, <1>21, <2>1
  <2>8. /\ Cardinality(Outstanding') = Cardinality(Outstanding) + Len(childdirs[t])
        /\ Cardinality(Uncounted') = Cardinality(Uncounted) + Len(childdirs[t])
    BY <1>2, <1>5, <2>4, <2>5, <2>6, <2>7, UnionCount
  <2>9. Cardinality(Outstanding') - Cardinality(Uncounted') = Cardinality(Outstanding) - Cardinality(Uncounted)
    BY <1>2, <1>5, <2>8
  <2>. QED  BY <2>1, <2>9 DEF ActiveAccounts
<1>10. CASE AddActive(t)
  <2>1. /\ pc[t] = "add" /\ pc' = [pc EXCEPT ![t] = "sub"]
        /\ deque' = deque /\ item' = item
        /\ \A u \in Workers \ {t} : childdirs'[u] = childdirs[u]
        /\ active' = (active + Len(childdirs[t])) % UsizeMod
    BY <1>10 DEF AddActive, ChildrenQueued
  <2>2. Outstanding' = Outstanding
    <3>1. \A u \in Workers : Busy(u)' <=> Busy(u)
      BY <2>1 DEF Busy
    <3>. QED  BY <2>1, <3>1 DEF Outstanding, Queued
  <2>3. Uncounted = Uncounted' \cup C
    <3>1. {u \in Workers : pc[u] = "add"} = {u \in Workers : pc'[u] = "add"} \cup {t}
      BY <2>1
    <3>2. \A u \in Workers : pc'[u] = "add" => childdirs'[u] = childdirs[u]
      BY <2>1
    <3>. QED  BY <1>21, <2>1, <3>1, <3>2
  <2>4. Uncounted' \cap C = {}
    <3>1. \A u \in Workers : pc'[u] = "add" => u # t /\ childdirs'[u] = childdirs[u]
      BY <2>1
    <3>. QED  BY <1>6, <1>21, <3>1
  <2>5. IsFiniteSet(Uncounted') /\ Cardinality(Uncounted') \in Nat
    BY <1>2, <2>3, FS_Subset, FS_CardinalityType
  <2>6. Cardinality(Uncounted) = Cardinality(Uncounted') + Len(childdirs[t])
    BY <1>5, <2>3, <2>4, <2>5, UnionCount
  <2> DEFINE d == Cardinality(Outstanding) - Cardinality(Uncounted)
  <2>7. d \in Int /\ d + Len(childdirs[t]) = Cardinality(Outstanding') - Cardinality(Uncounted')
    BY <1>2, <1>5, <2>2, <2>5, <2>6
  <2>8. active = d % UsizeMod
    BY DEF ActiveAccounts
  <2> HIDE DEF d
  <2>9. active' = (d + Len(childdirs[t])) % UsizeMod
    <3>1. ((d % UsizeMod) + Len(childdirs[t])) % UsizeMod = (d + Len(childdirs[t])) % UsizeMod
      <4>1. Len(childdirs[t]) \in Int /\ d \in Int
        BY <1>5, <2>7
      <4>. QED  BY <1>3, <4>1, ModSum
    <3>. QED  BY <2>1, <2>8, <3>1
  <2>. QED  BY <2>7, <2>9 DEF ActiveAccounts
<1>11. CASE SubActive(t)
  <2>1. /\ pc[t] = "sub" /\ pc' = [pc EXCEPT ![t] = "own"]
        /\ deque' = deque /\ childdirs' = childdirs
        /\ \A u \in Workers \ {t} : item'[u] = item[u]
        /\ active' = (active - 1) % UsizeMod
    BY <1>11 DEF SubActive, OneLess
  <2>2. Uncounted' = Uncounted
    <3>1. \A u \in Workers : pc'[u] = "add" <=> pc[u] = "add"
      BY <2>1
    <3>. QED  BY <2>1, <3>1, SMTT(30) DEF Uncounted
  <2>3. /\ ~Busy(t)' /\ Busy(t)
        /\ \A u \in Workers \ {t} : (Busy(u)' <=> Busy(u)) /\ item'[u] = item[u]
    BY <2>1 DEF Busy
  <2>4. Held = Held' \cup {item[t]}
    <3>1. Queued' = Queued
      BY <2>1 DEF Queued
    <3>. QED  BY <2>3, <3>1 DEF Held
  <2>5. item[t] \notin Held'
    <3>1. item[t] \notin Queued
      BY <2>3 DEF Apart, Queued
    <3>2. \A u \in Workers : Busy(u)' => item'[u] # item[t]
      BY <2>3 DEF Apart
    <3>. QED  BY <2>1, <3>1, <3>2 DEF Held, Queued
  <2>6. Outstanding = Outstanding' \cup {item[t].id}
    <3>1. Ids({item[t]}) = {item[t].id}
      BY DEF Ids
    <3>. QED  BY <1>22, <2>4, <3>1, IdsOfUnion
  <2>7. item[t].id \notin Outstanding'
    <3>1. Held' \in SUBSET Known /\ {item[t]} \in SUBSET Known
      BY <1>1, <2>4, KnownSeqs, HeldIsKnown
    <3>2. Held' \cap {item[t]} = {}
      BY <2>5
    <3>3. Ids(Held') \cap Ids({item[t]}) = {}
      BY <1>1, <3>1, <3>2, IdsApart
    <3>4. Ids({item[t]}) = {item[t].id}
      BY DEF Ids
    <3>. QED  BY <1>22, <3>3, <3>4
  <2>8. IsFiniteSet(Outstanding') /\ Cardinality(Outstanding') \in Nat
    BY <1>2, <2>6, FS_Subset, FS_CardinalityType
  <2>9. Cardinality(Outstanding) = Cardinality(Outstanding') + 1
    BY <2>6, <2>7, <2>8, FS_AddElement
  <2> DEFINE d == Cardinality(Outstanding) - Cardinality(Uncounted)
  <2>10. d \in Int /\ d - 1 = Cardinality(Outstanding') - Cardinality(Uncounted')
    BY <1>2, <2>2, <2>8, <2>9
  <2>11. active = d % UsizeMod
    BY DEF ActiveAccounts
  <2> HIDE DEF d
  <2>12. active' = (d - 1) % UsizeMod
    <3>1. /\ active' = (active + (-1)) % UsizeMod /\ -1 \in Int
          /\ (d + (-1)) % UsizeMod = (d - 1) % UsizeMod
      BY <2>1, <2>10
    <3>2. ((d % UsizeMod) + (-1)) % UsizeMod = (d + (-1)) % UsizeMod
      BY <1>3, <2>10, <3>1, ModSum
    <3>. QED  BY <2>11, <3>1, <3>2
  <2>. QED  BY <2>10, <2>12 DEF ActiveAccounts
<1>12. CASE CheckActive(t) \/ OpenDir(t) \/ SkipEntry(t) \/ AllocId(t) \/ Publish(t)
  <2>1. /\ deque' = deque /\ item' = item /\ childdirs' = childdirs /\ active' = active
        /\ \A u \in Workers \ {t} : pc'[u] = pc[u]
        /\ \/ pc[t] \in {"steal", "publish"} /\ pc'[t] \in {"own", "publish", "exit"}
           \/ pc[t] \in {"guard", "entry"} /\ pc'[t] \in {"entry", "stat"}
    BY <1>12 DEF CheckActive, OpenDir, SkipEntry, AllocId, Publish, shared
  <2>2. \A u \in Workers : (Busy(u)' <=> Busy(u)) /\ (pc'[u] = "add" <=> pc[u] = "add")
    BY <2>1 DEF Busy
  <2>. QED  BY <1>4, <2>1, <2>2 DEF Outstanding, Uncounted, Queued
<1>. QED  BY <1>7, <1>8, <1>9, <1>10, <1>11, <1>12 DEF WorkerStep

LEMMA ActiveInvStep ==
  ASSUME WalkInv, ActiveAccounts, [Next]_vars
  PROVE  ActiveAccounts'
<1>1. ASSUME NEW t \in Workers, WorkerStep(t)
      PROVE  ActiveAccounts'
  <2>1. pc[t] # "exit"
    BY <1>1 DEF WorkerStep, PopOwn, Steal, CheckActive, OpenDir, SkipEntry, AllocId,
       StatOk, StatErr, NoStatProbe, PushChildren, PushTo, AddActive, SubActive, Publish
  <2>2. nodes = <<>>
    BY <2>1 DEF WalkInv, IdInv, TypeInv, Ended
  <2>. QED  BY <1>1, <2>2, ActiveStep
<1>2. ASSUME Assemble \/ UNCHANGED vars
      PROVE  ActiveAccounts'
  <2>1. UNCHANGED <<active, deque, item, childdirs, pc>>
    BY <1>2 DEF Assemble, worker, vars, shared
  <2>. QED  BY <2>1 DEF ActiveAccounts, Outstanding, Uncounted, Queued, Busy
<1>. QED  BY <1>1, <1>2 DEF Next, Terminated

(***************************************************************************)
(* The count by which the workers detect the end is right, up to the       *)
(* directories pushed and not yet added, modulo the width of a usize: no   *)
(* interleaving of pushes, steals, fetch_adds and fetch_subs loses or      *)
(* gains one.                                                              *)
(***************************************************************************)
THEOREM ActiveIsAccounted == Spec => []ActiveAccounts
<1>1. Init => ActiveAccounts
  <2> SUFFICES ASSUME Init PROVE ActiveAccounts
    OBVIOUS
  <2>1. Workers # {} /\ 0 \in Workers
    BY WorkersAssumption DEF Workers
  <2>2. ToSet(<<RootItem>>) = {RootItem} /\ ToSet(<<>>) = {}
    <3> DEFINE s == <<RootItem>>
    <3>1. DOMAIN s = {1} /\ s[1] = RootItem
      OBVIOUS
    <3> HIDE DEF s
    <3>2. ToSet(s) = {RootItem}
      BY <3>1 DEF ToSet
    <3>. QED  BY <3>2 DEF ToSet, s
  <2>3. Queued = {RootItem}
    <3>1. \A t \in Workers : ToSet(deque[t]) = IF t = 0 THEN {RootItem} ELSE {}
      BY <2>2 DEF Init
    <3>. QED  BY <2>1, <3>1 DEF Queued
  <2>4. Outstanding = {0} /\ Uncounted = {}
    <3>1. \A t \in Workers : ~Busy(t) /\ pc[t] # "add"
      BY DEF Init, Busy
    <3>2. Ids(Queued) = {0}
      BY <2>3 DEF Ids, RootItem
    <3>. QED  BY <3>1, <3>2 DEF Outstanding, Uncounted
  <2>5. Cardinality(Outstanding) - Cardinality(Uncounted) = 1
    BY <2>4, FS_EmptySet, FS_Singleton
  <2>6. 1 % UsizeMod = 1
    BY UsizeRange, WorkersAssumption
  <2>. QED  BY <2>5, <2>6 DEF Init, ActiveAccounts
<1>2. WalkInv /\ ActiveAccounts /\ [Next]_vars => (WalkInv /\ ActiveAccounts)'
  BY WalkStep, ActiveInvStep
<1>. QED  BY WalkInit, <1>1, <1>2, PTL DEF Spec


-----------------------------------------------------------------------------
(* What has been read of each directory.                                   *)

\* Nothing of the directory has been recorded.
Untouched(x) == \A r \in Records : r.parent # x.id

Unread ==
  \A t \in Workers :
    /\ \A x \in ToSet(deque[t]) : Untouched(x)
    /\ pc[t] # "add" => \A x \in ToSet(childdirs[t]) : Untouched(x)
    /\ pc[t] = "guard" => Untouched(item[t])

EntryOnce == \A q, r \in Records : q.entry = r.entry => q = r

\* What a worker has yet to process has not been recorded.
Fresh ==
  \A t \in Workers :
    /\ IsInjective(todo[t])
    /\ \A r \in Records : r.parent = item[t].id => r.entry \notin ToSet(todo[t])

LEMMA OneParent ==
  ASSUME NEW d1 \in Entry, NEW d2 \in Entry, NEW e, e \in Children(d1), e \in Children(d2)
  PROVE  d1 = d2
BY TreeAssumption DEF Children

LEMMA ListingOnce ==
  ASSUME NEW d \in Entry
  PROVE  IsInjective(Listing[d]) /\ ToSet(Listing[d]) = Children(d)
BY TreeAssumption DEF Children, ToSet, IsInjective

\* An entry has one id.
LEMMA EntryNamesId ==
  ASSUME ParentNamed, EntryOnce, NEW d, NEW i, NEW j, <<i, d>> \in Names, <<j, d>> \in Names
  PROVE  i = j
<1>1. \A r \in Records : r.entry # Root
  BY ChildLevel DEF ParentNamed
<1>2. CASE d = Root
  BY <1>1, <1>2 DEF Names
<1>3. CASE d # Root
  <2>1. PICK q \in Records : i = q.id /\ d = q.entry
    BY <1>3 DEF Names
  <2>2. PICK r \in Records : j = r.id /\ d = r.entry
    BY <1>3 DEF Names
  <2>. QED  BY <2>1, <2>2 DEF EntryOnce
<1>. QED  BY <1>2, <1>3

LEMMA TodoInDir ==
  ASSUME TypeInv, TodoBelow, ItemsNamed, NEW t \in Workers
  PROVE  /\ ToSet(todo[t]) \subseteq Children(item[t].dir)
         /\ item[t].dir \in Entry /\ <<item[t].id, item[t].dir>> \in Names
<1>1. ToSet(todo[t]) \subseteq Children(item[t].dir)
  BY ToSetOfSeq DEF TodoBelow
<1>2. item[t].dir \in Entry /\ <<item[t].id, item[t].dir>> \in Names
  BY DEF ItemsNamed, NamedItem, Item
<1>. QED  BY <1>1, <1>2

\* No worker has recorded what another has yet to process.
LEMMA TodoIsNew ==
  ASSUME TypeInv, TodoBelow, ItemsNamed, ParentNamed, EntryOnce, Fresh,
         NEW t \in Workers, NEW r \in Records
  PROVE  r.entry \notin ToSet(todo[t])
<1> SUFFICES ASSUME r.entry \in ToSet(todo[t]) PROVE FALSE
  OBVIOUS
<1>1. PICK d \in Entry : <<r.parent, d>> \in Names /\ r.entry \in Children(d)
  BY DEF ParentNamed
<1>2. d = item[t].dir
  BY <1>1, TodoInDir, OneParent
<1>3. r.parent = item[t].id
  BY <1>1, <1>2, TodoInDir, EntryNamesId
<1>. QED  BY <1>3 DEF Fresh

LEMMA SameDirSameItem ==
  ASSUME TypeInv, NoHole, NoClash, ParentNamed, EntryOnce,
         NEW x \in Known, NEW y \in Known, x.dir = y.dir
  PROVE  x = y
<1>1. x.id = y.id
  BY EntryNamesId DEF Known, NamedItem
<1>. QED  BY <1>1, IdNamesReachedItem DEF Known

\* No two workers have an entry to process in common.
LEMMA TodosApart ==
  ASSUME TypeInv, NoHole, NoClash, TodoBelow, ItemsNamed, ItemsReached, ParentNamed,
         EntryOnce, Apart, NEW t \in Workers, NEW u \in Workers, t # u
  PROVE  ToSet(todo[t]) \cap ToSet(todo[u]) = {}
<1> SUFFICES ASSUME NEW e, e \in ToSet(todo[t]), e \in ToSet(todo[u])
             PROVE  FALSE
  OBVIOUS
<1>1. todo[t] # <<>> /\ todo[u] # <<>>
  BY DEF ToSet
<1>2. Busy(t) /\ Busy(u)
  BY <1>1 DEF TodoBelow, Busy
<1>3. item[t].dir = item[u].dir
  BY TodoInDir, OneParent
<1>4. item[t] = item[u]
  BY <1>3, KnownSeqs, SameDirSameItem
<1>. QED  BY <1>2, <1>4 DEF Apart

\* What handling an entry records.
RecOf(t, own) == [id |-> id[t], parent |-> item[t].id, entry |-> Head(todo[t]),
                  own |-> own, is_dir |-> Meta[Head(todo[t])].is_dir]

LEMMA FinishRecords ==
  ASSUME TypeInv, NEW t \in Workers, NEW own, NEW descend, FinishEntry(t, own, descend)
  PROVE  \A r : r \in Records' <=> r \in Records \/ r = RecOf(t, own)
<1>1. /\ Bucket(t)' = Bucket(t) \cup {RecOf(t, own)}
      /\ \A u \in Workers \ {t} : Bucket(u)' = Bucket(u)
  BY DEF FinishEntry, Bucket, RecOf, TypeInv, TypeOK
<1>2. /\ \A r : r \in Records <=> \E u \in Workers : r \in Bucket(u)
      /\ \A r : r \in Records' <=> \E u \in Workers : r \in Bucket(u)'
  BY DEF Records
<1>3. ASSUME NEW r PROVE r \in Records' <=> r \in Records \/ r = RecOf(t, own)
  <2>1. ASSUME r \in Records' PROVE r \in Records \/ r = RecOf(t, own)
    BY <1>1, <1>2, <2>1
  <2>2. ASSUME r \in Records \/ r = RecOf(t, own) PROVE r \in Records'
    BY <1>1, <1>2, <2>2
  <2>. QED  BY <2>1, <2>2
<1>. QED  BY <1>3

LEMMA RecordsStay ==
  ASSUME TypeInv, HandOver, NEW t \in Workers,
         \/ PopOwn(t) \/ Steal(t) \/ CheckActive(t) \/ OpenDir(t) \/ SkipEntry(t)
         \/ AllocId(t) \/ PushChildren(t) \/ AddActive(t) \/ SubActive(t) \/ Publish(t)
  PROVE  Records' = Records
<1>1. CASE Publish(t)
  <2>1. \A u \in Workers : Bucket(u)' = Bucket(u)
    BY <1>1 DEF Publish, HandOver, Bucket, TypeInv, TypeOK
  <2>. QED  BY <2>1 DEF Records
<1>2. CASE ~Publish(t)
  <2>1. recs' = recs /\ local' = local
    BY <1>2 DEF PopOwn, Steal, CheckActive, OpenDir, SkipEntry, AllocId,
       PushChildren, PushTo, AddActive, SubActive, shared
  <2>. QED  BY <2>1 DEF Records, Bucket
<1>. QED  BY <1>1, <1>2

\* What ActiveIsAccounted rests on, while the workers walk.
Walking ==
  /\ TypeInv /\ HandOver /\ NoHole /\ NoClash /\ nodes = <<>>
  /\ ItemsNamed /\ TodoBelow /\ IdAbove /\ ParentNamed
  /\ ItemsReached /\ Apart /\ GatheredWhileReading

LEMMA StillWalkingInv ==
  ASSUME WalkInv, nodes = <<>>
  PROVE  Walking
BY DEF WalkInv, IdInv, ArenaDense, Lineage, HeldInv, Walking

LEMMA EntryOnceStep ==
  ASSUME Walking, EntryOnce, Fresh, NEW t \in Workers, WorkerStep(t)
  PROVE  EntryOnce'
<1> USE DEF Walking
<1>1. CASE StatOk(t) \/ StatErr(t) \/ NoStatProbe(t)
  <2>1. PICK own \in Nat, descend \in BOOLEAN : FinishEntry(t, own, descend)
    BY <1>1, HandlingStep, ZenonT(20)
  <2>2. Head(todo[t]) \in ToSet(todo[t])
    BY <1>1, HandlingStep, TakeAnEnd DEF TypeInv, TypeOK, Fresh
  <2>3. \A r \in Records : r.entry # RecOf(t, own).entry
    <3>1. RecOf(t, own).entry = Head(todo[t])
      BY DEF RecOf
    <3>. QED  BY <2>2, <3>1, TodoIsNew
  <2>4. \A r : r \in Records' <=> r \in Records \/ r = RecOf(t, own)
    BY <2>1, FinishRecords
  <2>. QED  BY <2>3, <2>4 DEF EntryOnce
<1>2. CASE ~(StatOk(t) \/ StatErr(t) \/ NoStatProbe(t))
  <2>1. Records' = Records
    BY <1>2, RecordsStay DEF WorkerStep
  <2>. QED  BY <2>1 DEF EntryOnce
<1>. QED  BY <1>1, <1>2

\* Two workers at work have different directories, by id.
LEMMA BusyApart ==
  ASSUME Walking, NEW t \in Workers, NEW u \in Workers, t # u, Busy(t), Busy(u)
  PROVE  item[t].id # item[u].id
<1>1. item[t] # item[u] /\ item[t] \in Known /\ item[u] \in Known
  BY KnownSeqs DEF Walking, Apart
<1>. QED  BY <1>1, IdNamesReachedItem DEF Walking, Known

LEMMA UnreadStep ==
  ASSUME Walking, Unread, NEW t \in Workers, WorkerStep(t)
  PROVE  Unread'
<1> USE DEF Walking
<1>. TypeOK
  BY DEF TypeInv
<1>1. CASE StatOk(t) \/ StatErr(t) \/ NoStatProbe(t)
  <2>1. PICK own \in Nat, descend \in BOOLEAN : FinishEntry(t, own, descend)
    BY <1>1, HandlingStep, ZenonT(20)
  <2>2. pc[t] = "stat" /\ Busy(t) /\ t \in Stating
    BY <1>1, HandlingStep DEF Busy, Stating
  <2>3. /\ pc' = [pc EXCEPT ![t] = "entry"] /\ deque' = deque /\ item' = item
        /\ \A u \in Workers \ {t} : childdirs'[u] = childdirs[u]
        /\ childdirs'[t] = childdirs[t] \/ childdirs'[t] = Append(childdirs[t], Child(t))
    BY <2>1 DEF FinishEntry, TypeOK
  <2>4. \A r : r \in Records' <=> r \in Records \/ r = RecOf(t, own)
    BY <2>1, FinishRecords
  <2>5. RecOf(t, own).parent = item[t].id /\ RecOf(t, own).entry = Head(todo[t])
    BY DEF RecOf
  <2>6. ASSUME NEW x \in Known, x # item[t], Untouched(x)
        PROVE  \A r \in Records' : r.parent # x.id
    <3>1. x.id # item[t].id
      BY <2>6, KnownSeqs, IdNamesReachedItem DEF Known
    <3>. QED  BY <2>4, <2>5, <2>6, <3>1 DEF Untouched
  <2>7. \A r \in Records' : r.parent # Child(t).id
    <3>1. item[t].id # id[t]
      <4>1. item[t].id < id[t] /\ item[t].id \in Nat /\ id[t] \in Nat
        BY <2>2 DEF IdAbove, TypeOK, Item
      <4>. QED  BY <4>1
    <3>2. ASSUME NEW r \in Records PROVE r.parent # id[t]
      <4>1. PICK d \in Entry : <<r.parent, d>> \in Names
        BY DEF ParentNamed
      <4>2. id[t] # 0
        BY <2>2 DEF NoHole
      <4>3. \A q \in Records : q.id # id[t]
        BY <2>2 DEF NoClash
      <4>. QED  BY <4>1, <4>2, <4>3 DEF Names
    <3>3. Child(t).id = id[t]
      BY DEF Child
    <3>4. \A r \in Records' : r.parent # id[t]
      BY <2>4, <2>5, <3>1, <3>2
    <3>. QED  BY <3>3, <3>4
  <2>8. ASSUME NEW u \in Workers
        PROVE  (/\ \A x \in ToSet(deque[u]) : Untouched(x)
                /\ pc[u] # "add" => \A x \in ToSet(childdirs[u]) : Untouched(x)
                /\ pc[u] = "guard" => Untouched(item[u]))'
    <3>1. \A x \in ToSet(deque[u]) : x \in Known /\ x # item[t] /\ Untouched(x)
      BY <2>2, KnownSeqs DEF Apart, Unread
    <3>2. pc[u] # "add" => \A x \in ToSet(childdirs[u]) : x \in Known /\ x # item[t] /\ Untouched(x)
      BY <2>2, KnownSeqs DEF Apart, Unread
    <3>3. pc'[u] = "guard" => u # t /\ item[u] # item[t] /\ item[u] \in Known /\ Untouched(item[u])
      BY <2>2, <2>3, KnownSeqs DEF Apart, Unread, Busy, TypeOK
    <3>4. pc'[u] # "add" => \A x \in ToSet(childdirs'[u]) : \A r \in Records' : r.parent # x.id
      <4>1. CASE u # t
        <5>1. pc'[u] = pc[u] /\ childdirs'[u] = childdirs[u]
          BY <2>3, <4>1 DEF TypeOK
        <5>2. pc[u] # "add" =>
                \A x \in ToSet(childdirs[u]) : \A r \in Records' : r.parent # x.id
          BY <2>6, <3>2
        <5>. QED  BY <5>1, <5>2
      <4>2. CASE u = t
        <5>1. ToSet(childdirs'[t]) \subseteq ToSet(childdirs[t]) \cup {Child(t)}
          <6>1. childdirs[t] \in Seq(Item)
            BY DEF TypeOK
          <6>2. Child(t) \in Item
            <7>1. Head(todo[t]) \in Entry
              BY <1>1, HandlingStep
            <7>2. item[t].depth + 1 \in Nat /\ id[t] \in Nat
              BY DEF TypeOK, Item
            <7>. QED  BY <7>1, <7>2 DEF Child, Item
          <6>3. ToSet(Append(childdirs[t], Child(t))) = ToSet(childdirs[t]) \cup {Child(t)}
            BY <6>1, <6>2, AppendApart
          <6>. QED  BY <2>3, <6>3
        <5>. QED  BY <2>2, <2>6, <2>7, <3>2, <4>2, <5>1
      <4>. QED  BY <4>1, <4>2
    <3>5. \A x \in ToSet(deque[u]) : \A r \in Records' : r.parent # x.id
      BY <2>6, <3>1
    <3>6. pc'[u] = "guard" => \A r \in Records' : r.parent # item[u].id
      BY <2>6, <3>3
    <3>. QED  BY <2>3, <3>4, <3>5, <3>6 DEF Untouched
  <2>. QED  BY <2>8 DEF Unread
<1>2. CASE ~(StatOk(t) \/ StatErr(t) \/ NoStatProbe(t))
  <2>1. Records' = Records
    BY <1>2, RecordsStay DEF WorkerStep
  <2>2. \A x : Untouched(x)' <=> Untouched(x)
    BY <2>1 DEF Untouched
  <2>3. CASE PopOwn(t) \/ Steal(t)
    <3>1. pc[t] \in {"own", "steal"} /\ childdirs' = childdirs
      BY <2>3, LookingStep
    <3>2. CASE deque' = deque /\ item' = item /\ pc' = [pc EXCEPT ![t] = "steal"]
      BY <2>2, <3>1, <3>2 DEF Unread, TypeOK
    <3>3. CASE \E v \in Workers, x \in Item : Takes(t, v, x)
      <4>1. PICK v \in Workers, x \in Item : Takes(t, v, x)
        BY <3>3
      <4>2. /\ ToSet(deque'[v]) = ToSet(deque[v]) \ {x} /\ x \in ToSet(deque[v])
            /\ \A u \in Workers \ {v} : deque'[u] = deque[u]
            /\ pc' = [pc EXCEPT ![t] = "guard"] /\ item' = [item EXCEPT ![t] = x]
        BY <4>1, TakesOne DEF Takes
      <4>3. \A u \in Workers : ToSet(deque'[u]) \subseteq ToSet(deque[u])
        BY <4>2
      <4>. QED  BY <2>2, <3>1, <4>2, <4>3 DEF Unread, TypeOK
    <3>. QED  BY <2>3, <3>2, <3>3, LookingStep
  <2>4. CASE PushChildren(t)
    <3>1. /\ pc[t] = "entry" /\ pc' = [pc EXCEPT ![t] = "add"]
          /\ deque' = [deque EXCEPT ![t] = deque[t] \o childdirs[t]]
          /\ item' = item /\ childdirs' = childdirs
      BY <2>4 DEF PushChildren, PushTo
    <3>2. ToSet(deque'[t]) = ToSet(deque[t]) \cup ToSet(childdirs[t])
      BY <3>1, JoinApart DEF TypeOK
    <3>. QED  BY <2>2, <3>1, <3>2 DEF Unread, TypeOK
  <2>5. CASE AddActive(t)
    <3>1. ToSet(<<>>) = {}
      BY DEF ToSet
    <3>. QED  BY <2>2, <2>5, <3>1 DEF Unread, TypeOK, AddActive
  <2>6. CASE SubActive(t)
    BY <2>2, <2>6 DEF Unread, TypeOK, SubActive
  <2>7. CASE CheckActive(t) \/ OpenDir(t) \/ SkipEntry(t) \/ AllocId(t) \/ Publish(t)
    <3>1. /\ deque' = deque /\ item' = item /\ childdirs' = childdirs
          /\ \A u \in Workers \ {t} : pc'[u] = pc[u]
          /\ pc[t] # "add" /\ pc'[t] # "guard"
      BY <2>7 DEF CheckActive, OpenDir, SkipEntry, AllocId, Publish, shared, TypeOK
    <3>. QED  BY <2>2, <3>1 DEF Unread
  <2>. QED  BY <1>2, <2>3, <2>4, <2>5, <2>6, <2>7 DEF WorkerStep
<1>. QED  BY <1>1, <1>2

LEMMA FreshStep ==
  ASSUME Walking, Unread, EntryOnce, Fresh, NEW t \in Workers, WorkerStep(t)
  PROVE  Fresh'
<1> USE DEF Walking
<1>. TypeOK
  BY DEF TypeInv
<1>1. ToSet(<<>>) = {} /\ IsInjective(<<>>)
  BY DEF ToSet, IsInjective
<1>2. todo[t] # <<>> =>
        /\ IsInjective(Tail(todo[t])) /\ Head(todo[t]) \in ToSet(todo[t])
        /\ ToSet(Tail(todo[t])) = ToSet(todo[t]) \ {Head(todo[t])}
  BY TakeAnEnd DEF TypeOK, Fresh
<1>3. CASE StatOk(t) \/ StatErr(t) \/ NoStatProbe(t)
  <2>1. PICK own \in Nat, descend \in BOOLEAN : FinishEntry(t, own, descend)
    BY <1>3, HandlingStep, ZenonT(20)
  <2>2. /\ todo' = [todo EXCEPT ![t] = Tail(todo[t])] /\ item' = item /\ todo[t] # <<>>
        /\ pc[t] = "stat"
    BY <1>3, <2>1, HandlingStep DEF FinishEntry
  <2>3. \A r : r \in Records' <=> r \in Records \/ r = RecOf(t, own)
    BY <2>1, FinishRecords
  <2>4. RecOf(t, own).parent = item[t].id /\ RecOf(t, own).entry = Head(todo[t])
    BY DEF RecOf
  <2>5. ASSUME NEW u \in Workers
        PROVE  /\ IsInjective(todo'[u])
               /\ \A r \in Records' : r.parent = item[u].id => r.entry \notin ToSet(todo'[u])
    <3>1. CASE u = t
      BY <1>2, <2>2, <2>3, <2>4, <3>1 DEF Fresh, TypeOK
    <3>2. CASE u # t /\ todo[u] = <<>>
      BY <1>1, <2>2, <3>2 DEF TypeOK
    <3>3. CASE u # t /\ todo[u] # <<>>
      <4>1. Busy(t) /\ Busy(u)
        BY <2>2, <3>3 DEF Busy, TodoBelow
      <4>2. item[u].id # item[t].id
        BY <3>3, <4>1, BusyApart
      <4>3. todo'[u] = todo[u]
        BY <2>2, <3>3
      <4>. QED  BY <2>3, <2>4, <4>2, <4>3 DEF Fresh
    <3>. QED  BY <3>1, <3>2, <3>3
  <2>. QED  BY <2>2, <2>5 DEF Fresh
<1>4. CASE ~(StatOk(t) \/ StatErr(t) \/ NoStatProbe(t))
  <2>1. Records' = Records
    BY <1>4, RecordsStay DEF WorkerStep
  <2>2. CASE OpenDir(t)
    <3>1. item' = item /\ pc[t] = "guard" /\ todo[t] = <<>>
      BY <2>2 DEF OpenDir, TodoBelow
    <3>2. \/ todo' = todo
          \/ todo' = [todo EXCEPT ![t] = Listing[item[t].dir]]
      BY <2>2 DEF OpenDir
    <3>3. IsInjective(Listing[item[t].dir])
      BY ListingOnce, TodoInDir
    <3>4. \A r \in Records : r.parent # item[t].id
      BY <3>1 DEF Unread, Untouched
    <3>. QED  BY <2>1, <3>1, <3>2, <3>3, <3>4 DEF Fresh, TypeOK
  <2>3. CASE SkipEntry(t)
    <3>1. todo[t] # <<>> /\ item' = item /\ todo' = [todo EXCEPT ![t] = Tail(todo[t])]
      BY <2>3 DEF SkipEntry
    <3>. QED  BY <1>2, <2>1, <3>1 DEF Fresh, TypeOK
  <2>4. CASE ~OpenDir(t) /\ ~SkipEntry(t)
    <3>1. /\ todo' = todo
          /\ \A u \in Workers : item'[u] = item[u] \/ (u = t /\ pc[t] \in {"own", "steal", "sub"})
      BY <1>4, <2>4 DEF WorkerStep, PopOwn, Steal, CheckActive, AllocId, PushChildren, PushTo,
         AddActive, SubActive, Publish, TypeOK
    <3>2. \A u \in Workers : item'[u] = item[u] \/ todo[u] = <<>>
      BY <3>1 DEF TodoBelow
    <3>. QED  BY <1>1, <2>1, <3>1, <3>2 DEF Fresh
  <2>. QED  BY <2>2, <2>3, <2>4
<1>. QED  BY <1>3, <1>4

\* Only what the depth limit allows is listed.
Shallow == \A t \in Workers : todo[t] # <<>> => item[t].depth < cfg.max_depth

LEMMA ShallowStep ==
  ASSUME Walking, Shallow, NEW t \in Workers, WorkerStep(t)
  PROVE  Shallow'
<1>. TypeOK /\ TodoBelow /\ TypeInv
  BY DEF Walking, TypeInv
<1>1. cfg' = cfg
  BY DEF WorkerStep, PopOwn, Steal, CheckActive, OpenDir, SkipEntry, AllocId, StatOk, StatErr,
     NoStatProbe, FinishEntry, PushChildren, PushTo, AddActive, SubActive, Publish, shared
<1>2. CASE StatOk(t) \/ StatErr(t) \/ NoStatProbe(t)
  <2>1. PICK own \in Nat, descend \in BOOLEAN : FinishEntry(t, own, descend)
    BY <1>2, HandlingStep, ZenonT(20)
  <2>2. todo[t] # <<>> /\ todo' = [todo EXCEPT ![t] = Tail(todo[t])] /\ item' = item
    BY <1>2, <2>1, HandlingStep DEF FinishEntry
  <2>. QED  BY <1>1, <2>2 DEF Shallow, TypeOK
<1>3. CASE OpenDir(t)
  <2>1. item' = item /\ pc[t] = "guard"
    BY <1>3 DEF OpenDir
  <2>2. \/ todo' = todo
        \/ /\ item[t].depth < cfg.max_depth
           /\ \A u \in Workers \ {t} : todo'[u] = todo[u]
    BY <1>3 DEF OpenDir, MayDescend, TypeOK
  <2>. QED  BY <1>1, <2>1, <2>2 DEF Shallow
<1>4. CASE SkipEntry(t)
  BY <1>1, <1>4 DEF Shallow, SkipEntry, TypeOK
<1>5. CASE /\ ~(StatOk(t) \/ StatErr(t) \/ NoStatProbe(t))
           /\ ~OpenDir(t) /\ ~SkipEntry(t)
  <2>1. /\ todo' = todo
        /\ \A u \in Workers : item'[u] = item[u] \/ (u = t /\ pc[t] \in {"own", "steal", "sub"})
    BY <1>5 DEF WorkerStep, PopOwn, Steal, CheckActive, AllocId, PushChildren, PushTo,
       AddActive, SubActive, Publish, TypeOK
  <2>2. \A u \in Workers : item'[u] = item[u] \/ todo[u] = <<>>
    BY <2>1 DEF TodoBelow
  <2>. QED  BY <1>1, <2>1, <2>2 DEF Shallow
<1>. QED  BY <1>2, <1>3, <1>4, <1>5

\* What is recorded is recorded below a directory that may be entered.
ParentEntered == \A r \in Records : \E d \in Entry : <<r.parent, d>> \in Names /\ Enterable(d)

LEMMA ParentEnteredStep ==
  ASSUME Walking, ParentEntered, NEW t \in Workers, WorkerStep(t)
  PROVE  ParentEntered'
<1> USE DEF Walking
<1>1. cfg' = cfg /\ root_dev' = root_dev
  BY DEF WorkerStep, PopOwn, Steal, CheckActive, OpenDir, SkipEntry, AllocId, StatOk, StatErr,
     NoStatProbe, FinishEntry, PushChildren, PushTo, AddActive, SubActive, Publish, shared
<1>2. \A d : Enterable(d)' <=> Enterable(d)
  BY <1>1 DEF Enterable
<1>3. CASE StatOk(t) \/ StatErr(t) \/ NoStatProbe(t)
  <2>1. PICK own \in Nat, descend \in BOOLEAN : FinishEntry(t, own, descend)
    BY <1>3, HandlingStep, ZenonT(20)
  <2>2. \A r : r \in Records' <=> r \in Records \/ r = RecOf(t, own)
    BY <2>1, FinishRecords
  <2>3. \A n : n \in Names => n \in Names'
    BY <2>2, NamesGrow
  <2>4. /\ item[t].dir \in Entry /\ <<item[t].id, item[t].dir>> \in Names
        /\ Enterable(item[t].dir) /\ RecOf(t, own).parent = item[t].id
    BY TodoInDir DEF ItemsReached, ReachedItem, RecOf
  <2>5. ASSUME NEW r \in Records'
        PROVE  \E d \in Entry : <<r.parent, d>> \in Names' /\ Enterable(d)
    BY <2>2, <2>3, <2>4 DEF ParentEntered
  <2>. QED  BY <1>2, <2>5 DEF ParentEntered
<1>4. CASE ~(StatOk(t) \/ StatErr(t) \/ NoStatProbe(t))
  <2>1. Records' = Records
    BY <1>4, RecordsStay DEF WorkerStep
  <2>. QED  BY <1>2, <2>1 DEF ParentEntered, Names
<1>. QED  BY <1>3, <1>4

-----------------------------------------------------------------------------
(* The entries found.                                                      *)

\* `counter` counts them; a scan that reads it at the ceiling has found as
\* many entries as the ceiling allows.
Counted == counter = Cardinality(Found)

LEMMA FoundWalking ==
  ASSUME Walking, NEW e
  PROVE  e \in Found <=> \/ e = Root
                         \/ \E r \in Records : e = r.entry
                         \/ \E u \in Workers : pc[u] = "stat" /\ e = Head(todo[u])
<1>1. InArena = {}
  <2>1. DOMAIN nodes = {}
    BY DEF Walking
  <2>. QED  BY <2>1 DEF InArena
<1>. QED  BY <1>1 DEF Found, Stating

LEMMA FoundAreEntries ==
  ASSUME Walking
  PROVE  /\ Found \subseteq Entry /\ IsFiniteSet(Found) /\ Cardinality(Found) \in Nat
         /\ \A t \in Workers : pc[t] = "stat" => Head(todo[t]) \in Found
<1>1. ASSUME NEW e \in Found PROVE e \in Entry
  <2>1. \A r \in Records : r.entry \in Entry
    BY ChildLevel DEF Walking, ParentNamed
  <2>2. \A u \in Workers : pc[u] = "stat" => Head(todo[u]) \in Entry
    BY HeadOfTodo DEF Walking, TypeInv, HoldsEntry, Stating
  <2>3. \/ e = Root
        \/ \E r \in Records : e = r.entry
        \/ \E u \in Workers : pc[u] = "stat" /\ e = Head(todo[u])
    BY FoundWalking
  <2>4. Root \in Entry
    BY FileTreeAssumption
  <2>. QED  BY <2>1, <2>2, <2>3, <2>4
<1>2. Found \subseteq Entry
  BY <1>1
<1>3. IsFiniteSet(Found) /\ Cardinality(Found) \in Nat
  BY <1>2, FileTreeAssumption, FS_Subset, FS_CardinalityType
<1>4. \A t \in Workers : pc[t] = "stat" => Head(todo[t]) \in Found
  BY FoundWalking
<1>. QED  BY <1>2, <1>3, <1>4

\* Allocating an id finds one more entry, and no other step finds any.
LEMMA FoundStep ==
  ASSUME Walking, Walking', NEW t \in Workers, WorkerStep(t)
  PROVE  IF AllocId(t) THEN Found' = Found \cup {Head(todo[t])} ELSE Found' = Found
<1>. TypeInv /\ TypeOK /\ HandOver /\ nodes = <<>> /\ nodes' = <<>>
  BY DEF Walking, TypeInv
<1>1. InArena = {} /\ InArena' = {}
  <2>1. DOMAIN nodes = {} /\ DOMAIN nodes' = {}
    OBVIOUS
  <2>. QED  BY <2>1 DEF InArena
<1>2. /\ \A e : e \in Found <=> \/ e = Root
                                \/ \E r \in Records : e = r.entry
                                \/ \E u \in Workers : pc[u] = "stat" /\ e = Head(todo[u])
      /\ \A e : e \in Found' <=> \/ e = Root
                                 \/ \E r \in Records' : e = r.entry
                                 \/ \E u \in Workers : pc'[u] = "stat" /\ e = Head(todo'[u])
  BY <1>1 DEF Found, Stating
<1>3. CASE StatOk(t) \/ StatErr(t) \/ NoStatProbe(t)
  <2>1. PICK own \in Nat, descend \in BOOLEAN : FinishEntry(t, own, descend)
    BY <1>3, HandlingStep, ZenonT(20)
  <2>2. \A r : r \in Records' <=> r \in Records \/ r = RecOf(t, own)
    BY <2>1, FinishRecords
  <2>3. RecOf(t, own).entry = Head(todo[t])
    BY DEF RecOf
  <2>4. /\ pc[t] = "stat" /\ pc'[t] = "entry"
        /\ \A u \in Workers \ {t} : pc'[u] = pc[u] /\ todo'[u] = todo[u]
    BY <1>3, <2>1, HandlingStep DEF FinishEntry, TypeOK
  <2>5. \A e : (\E r \in Records' : e = r.entry) <=>
                 (\E r \in Records : e = r.entry) \/ e = Head(todo[t])
    BY <2>2, <2>3
  <2>6. \A e : (\E u \in Workers : pc[u] = "stat" /\ e = Head(todo[u])) <=>
                 (\E u \in Workers : pc'[u] = "stat" /\ e = Head(todo'[u])) \/ e = Head(todo[t])
    BY <2>4
  <2>7. \A e : e \in Found' <=> e \in Found
    BY <1>2, <2>5, <2>6
  <2>8. ~AllocId(t)
    BY <2>4 DEF AllocId
  <2>9. Found' = Found
    BY <2>7
  <2>. QED  BY <2>8, <2>9
<1>4. CASE AllocId(t)
  <2>1. Records' = Records
    BY <1>4, RecordsStay
  <2>2. /\ pc[t] = "entry" /\ pc' = [pc EXCEPT ![t] = "stat"] /\ todo' = todo
    BY <1>4 DEF AllocId
  <2>3. \A e : e \in Found' <=> e \in Found \/ e = Head(todo[t])
    BY <1>2, <2>1, <2>2 DEF TypeOK
  <2>. QED  BY <1>4, <2>3
<1>5. CASE ~(StatOk(t) \/ StatErr(t) \/ NoStatProbe(t)) /\ ~AllocId(t)
  <2>1. Records' = Records
    BY <1>5, RecordsStay DEF WorkerStep
  <2>2. /\ \A u \in Workers \ {t} : pc'[u] = pc[u] /\ todo'[u] = todo[u]
        /\ pc[t] # "stat" /\ pc'[t] # "stat"
    BY <1>5 DEF WorkerStep, PopOwn, Steal, CheckActive, OpenDir, SkipEntry, PushChildren, PushTo,
       AddActive, SubActive, Publish, TypeOK
  <2>3. \A e : e \in Found' <=> e \in Found
    BY <1>2, <2>1, <2>2
  <2>4. Found' = Found
    BY <2>3
  <2>. QED  BY <1>5, <2>4
<1>. QED  BY <1>3, <1>4, <1>5

\* The entry an id is allocated for has not been found before.
LEMMA AllocFindsNew ==
  ASSUME Walking, EntryOnce, Fresh, NEW t \in Workers, AllocId(t)
  PROVE  /\ Head(todo[t]) \in Children(item[t].dir) \ Found
         /\ Head(todo[t]) \in Entry /\ Head(todo[t]) # Root
<1> USE DEF Walking
<1>1. /\ todo[t] # <<>> /\ todo[t] \in Seq(Entry) /\ pc[t] = "entry" /\ IsInjective(todo[t])
      /\ \A u \in Workers : pc[u] = "stat" => u # t /\ todo[u] # <<>> /\ todo[u] \in Seq(Entry)
  BY DEF AllocId, TypeInv, TypeOK, HoldsEntry, Stating, Fresh
<1>2. Head(todo[t]) \in ToSet(todo[t])
  BY <1>1, TakeAnEnd
<1>3. Head(todo[t]) \in Children(item[t].dir) /\ item[t].dir \in Entry
  BY <1>2, TodoInDir
<1>4. Head(todo[t]) # Root /\ Head(todo[t]) \in Entry
  BY <1>3, ChildLevel
<1>5. \A r \in Records : r.entry # Head(todo[t])
  BY <1>2, TodoIsNew
<1>6. \A u \in Workers : pc[u] = "stat" => Head(todo[u]) # Head(todo[t])
  <2> SUFFICES ASSUME NEW u \in Workers, pc[u] = "stat" PROVE Head(todo[u]) # Head(todo[t])
    OBVIOUS
  <2>1. Head(todo[u]) \in ToSet(todo[u])
    <3>1. IsInjective(todo[u]) /\ todo[u] # <<>> /\ todo[u] \in Seq(Entry)
      BY <1>1 DEF Fresh
    <3>. QED  BY <3>1, TakeAnEnd
  <2>2. ToSet(todo[t]) \cap ToSet(todo[u]) = {}
    BY <1>1, TodosApart
  <2>. QED  BY <1>2, <2>1, <2>2
<1>. QED  BY <1>3, <1>4, <1>5, <1>6, FoundWalking

LEMMA CountedStep ==
  ASSUME Walking, Walking', EntryOnce, Fresh, Counted, NEW t \in Workers, WorkerStep(t)
  PROVE  Counted'
<1>1. IsFiniteSet(Found) /\ Cardinality(Found) \in Nat
  BY FoundAreEntries
<1>2. CASE AllocId(t)
  <2>1. Head(todo[t]) \notin Found
    BY <1>2, AllocFindsNew
  <2>2. Found' = Found \cup {Head(todo[t])}
    BY <1>2, FoundStep
  <2>3. Cardinality(Found') = Cardinality(Found) + 1
    BY <1>1, <2>1, <2>2, FS_AddElement
  <2>4. counter' = counter + 1
    BY <1>2 DEF AllocId
  <2>. QED  BY <2>3, <2>4 DEF Counted
<1>3. CASE ~AllocId(t)
  <2>1. Found' = Found
    BY <1>3, FoundStep
  <2>2. counter' = counter
    BY <1>3 DEF WorkerStep, PopOwn, Steal, CheckActive, OpenDir, SkipEntry, StatOk, StatErr,
       NoStatProbe, FinishEntry, PushChildren, PushTo, AddActive, SubActive, Publish, shared
  <2>. QED  BY <2>1, <2>2 DEF Counted
<1>. QED  BY <1>2, <1>3

-----------------------------------------------------------------------------
(* The directories still owed.                                             *)

LEMMA ConfigStays ==
  ASSUME NEW t \in Workers, WorkerStep(t)
  PROVE  cfg' = cfg /\ root_dev' = root_dev
BY DEF WorkerStep, PopOwn, Steal, CheckActive, OpenDir, SkipEntry, AllocId, StatOk, StatErr,
   NoStatProbe, FinishEntry, PushChildren, PushTo, AddActive, SubActive, Publish, shared

LEMMA SameCardinality == \A S : Abstract!Cardinality(S) = Cardinality(S)
BY DEF Abstract!Cardinality, Cardinality

\* The reasons for which the sequential walk may leave a directory, and
\* what it lists, in the terms of this module.
LEMMA MayLeaveIs ==
  ASSUME NEW d
  PROVE  /\ Abstract!MayLeave(d) <=>
              \/ d \in Flaky
              \/ Depth[d] >= cfg.max_depth
              \/ Cardinality(Found) >= cfg.max_entries
              \/ cfg.one_fs /\ ~cfg.no_stat /\ d # Root /\ Meta[d].dev # Meta[Root].dev
              \/ cfg.one_fs /\ Root \in Flaky
         /\ Abstract!Children(d) = Children(d) /\ Abstract!Dirs = Dirs
         /\ Abstract!Listed(d) <=> Children(d) \subseteq Found \cup Flaky
<1>1. Abstract!Children(d) = Children(d) /\ Abstract!Dirs = Dirs
  BY DEF Abstract!Children, Children, Abstract!Dirs, Dirs
<1>. QED  BY <1>1, SameCardinality DEF Abstract!MayLeave, Abstract!OffDevice, Abstract!Listed

\* A reason to leave a directory stays one.
LEMMA LeaveStays ==
  ASSUME Walking, Walking', NEW t \in Workers, WorkerStep(t), NEW d, Abstract!MayLeave(d)
  PROVE  Abstract!MayLeave(d)'
<1>1. cfg' = cfg
  BY ConfigStays
<1>2. Found \subseteq Found'
  BY FoundStep
<1>3. IsFiniteSet(Found') /\ Cardinality(Found') \in Nat /\ Found' \subseteq Entry
  <2>1. AllocId(t) => Head(todo[t]) \in Entry
    BY HeadOfTodo DEF AllocId, Walking, TypeInv
  <2>2. AllocId(t) => Found' = Found \cup {Head(todo[t])}
    BY FoundStep
  <2>3. Found' \subseteq Entry
    <3>1. CASE AllocId(t)
      BY <2>1, <2>2, <3>1, FoundAreEntries
    <3>2. CASE ~AllocId(t)
      BY <3>2, FoundStep, FoundAreEntries
    <3>. QED  BY <3>1, <3>2
  <2>. QED  BY <2>3, FileTreeAssumption, FS_Subset, FS_CardinalityType
<1>4. Cardinality(Found) <= Cardinality(Found')
  BY <1>2, <1>3, FS_Subset
<1>5. Cardinality(Found) \in Nat /\ cfg.max_entries \in Nat
  BY FoundAreEntries DEF Walking, TypeInv, TypeOK, CfgType
<1>. QED
  BY <1>1, <1>3, <1>4, <1>5, SameCardinality DEF Abstract!MayLeave, Abstract!OffDevice

\* Of a directory being read, what has not been found is still in todo,
\* unless there is a reason to leave it.
Progress ==
  \A t \in Workers : pc[t] \in {"entry", "stat"} =>
    \/ Abstract!MayLeave(item[t].dir)
    \/ Children(item[t].dir) \subseteq Found \cup Flaky \cup ToSet(todo[t])

LEMMA ProgressStep ==
  ASSUME Walking, Walking', Fresh, Counted, Progress, NEW t \in Workers, WorkerStep(t)
  PROVE  Progress'
<1> USE DEF Walking
<1>. TypeOK
  BY DEF TypeInv
<1>1. Found \subseteq Found'
  BY FoundStep
<1>2. todo[t] # <<>> =>
        /\ Head(todo[t]) \in ToSet(todo[t])
        /\ ToSet(Tail(todo[t])) = ToSet(todo[t]) \ {Head(todo[t])}
  BY TakeAnEnd DEF TypeOK, Fresh
<1>3. ASSUME NEW u \in Workers, pc[u] \in {"entry", "stat"}, item'[u] = item[u],
             ToSet(todo[u]) \subseteq Found' \cup Flaky \cup ToSet(todo'[u])
      PROVE  (\/ Abstract!MayLeave(item[u].dir)
              \/ Children(item[u].dir) \subseteq Found \cup Flaky \cup ToSet(todo[u]))'
  <2>1. CASE Abstract!MayLeave(item[u].dir)
    <3> DEFINE d == item[u].dir
    <3>1. PICK e : e = item[u].dir
      OBVIOUS
    <3>2. Abstract!MayLeave(e)'
      BY <2>1, <3>1, LeaveStays
    <3>3. item'[u].dir = e
      BY <1>3, <3>1
    <3>. QED  BY <3>2, <3>3 DEF Abstract!MayLeave, Abstract!OffDevice
  <2>2. CASE Children(item[u].dir) \subseteq Found \cup Flaky \cup ToSet(todo[u])
    BY <1>1, <1>3, <2>2
  <2>. QED  BY <1>3, <2>1, <2>2 DEF Progress
<1>4. ASSUME NEW u \in Workers, u # t, pc'[u] \in {"entry", "stat"}
      PROVE  pc[u] \in {"entry", "stat"} /\ item'[u] = item[u] /\ todo'[u] = todo[u]
  <2>1. pc'[u] = pc[u] /\ item'[u] = item[u] /\ todo'[u] = todo[u]
    BY <1>4 DEF WorkerStep, PopOwn, Steal, CheckActive, OpenDir, SkipEntry, AllocId, StatOk,
       StatErr, NoStatProbe, FinishEntry, PushChildren, PushTo, AddActive, SubActive, Publish,
       TypeOK, shared
  <2>. QED  BY <1>4, <2>1
<1>5. SUFFICES ASSUME pc'[t] \in {"entry", "stat"}
               PROVE  (\/ Abstract!MayLeave(item[t].dir)
                       \/ Children(item[t].dir) \subseteq Found \cup Flaky \cup ToSet(todo[t]))'
  <2>1. ASSUME NEW u \in Workers, u # t, pc'[u] \in {"entry", "stat"}
        PROVE  (\/ Abstract!MayLeave(item[u].dir)
                \/ Children(item[u].dir) \subseteq Found \cup Flaky \cup ToSet(todo[u]))'
    BY <1>3, <1>4, <2>1
  <2>. QED  BY <1>5, <2>1 DEF Progress
<1>6. CASE OpenDir(t)
  <2>1. item' = item /\ ~AllocId(t)
    BY <1>6 DEF OpenDir, AllocId
  <2>2. Found' = Found /\ cfg' = cfg /\ item'[t] = item[t]
    BY <2>1, FoundStep, ConfigStays
  <2>3. CASE todo' = [todo EXCEPT ![t] = Listing[item[t].dir]]
    <3>1. todo'[t] = Listing[item[t].dir]
      BY <2>3 DEF TypeOK
    <3>2. ToSet(todo'[t]) = Children(item[t].dir)
      BY <3>1, ListingOnce, TodoInDir
    <3>. QED  BY <2>2, <3>2
  <2>4. CASE ~MayDescend(t) \/ item[t].dir \in Flaky
    <3>1. /\ item[t].depth \in Nat /\ cfg.max_depth \in Nat /\ cfg.max_entries \in Nat
          /\ counter \in Nat
      BY DEF TypeOK, Item, CfgType
    <3>2. item[t].depth = Depth[item[t].dir]
      BY DEF ItemsReached, ReachedItem
    <3>3. \/ item[t].dir \in Flaky
          \/ Depth[item[t].dir] >= cfg.max_depth
          \/ Cardinality(Found) >= cfg.max_entries
      BY <2>4, <3>1, <3>2 DEF MayDescend, Counted
    <3>. QED  BY <2>2, <3>3, SameCardinality DEF Abstract!MayLeave
  <2>. QED  BY <1>6, <2>3, <2>4 DEF OpenDir
<1>7. CASE SkipEntry(t)
  <2>1. /\ todo[t] # <<>> /\ Head(todo[t]) \in Flaky /\ pc[t] = "entry" /\ item'[t] = item[t]
        /\ todo'[t] = Tail(todo[t])
    BY <1>7 DEF SkipEntry, TypeOK
  <2>. QED  BY <1>2, <1>3, <2>1
<1>8. CASE AllocId(t)
  <2>1. pc[t] = "entry" /\ item'[t] = item[t] /\ todo'[t] = todo[t]
    BY <1>8 DEF AllocId
  <2>. QED  BY <1>3, <2>1
<1>9. CASE StatOk(t) \/ StatErr(t) \/ NoStatProbe(t)
  <2>1. PICK own \in Nat, descend \in BOOLEAN : FinishEntry(t, own, descend)
    BY <1>9, HandlingStep, ZenonT(20)
  <2>2. /\ todo[t] # <<>> /\ pc[t] = "stat" /\ item'[t] = item[t] /\ todo'[t] = Tail(todo[t])
    BY <1>9, <2>1, HandlingStep DEF FinishEntry, TypeOK
  <2>3. Head(todo[t]) \in Found'
    BY <1>1, <2>2, FoundAreEntries
  <2>. QED  BY <1>2, <1>3, <2>2, <2>3
<1>10. CASE ~ \/ OpenDir(t) \/ SkipEntry(t) \/ AllocId(t)
              \/ StatOk(t) \/ StatErr(t) \/ NoStatProbe(t)
  BY <1>5, <1>10 DEF WorkerStep, PopOwn, Steal, CheckActive, PushChildren, PushTo, AddActive,
     SubActive, Publish, TypeOK
<1>. QED  BY <1>6, <1>7, <1>8, <1>9, <1>10

\* Worker t owes the content of directory d.
Owes(t, d) ==
  \/ \E x \in ToSet(deque[t]) : d = x.dir
  \/ Reading(t) /\ d = item[t].dir
  \/ pc[t] # "add" /\ \E x \in ToSet(childdirs[t]) : d = x.dir
  \/ pc[t] = "stat" /\ d = Head(todo[t]) /\ d \in Dirs

LEMMA OpenIsOwed ==
  ASSUME NEW d
  PROVE  /\ d \in Open <=> \E t \in Workers : Owes(t, d)
         /\ d \in Open' <=> \E t \in Workers : Owes(t, d)'
<1>1. /\ \A x : x \in Queued <=> \E t \in Workers : x \in ToSet(deque[t])
      /\ \A x : x \in Queued' <=> \E t \in Workers : x \in ToSet(deque'[t])
  BY DEF Queued
<1> DEFINE Queueing == {x.dir : x \in Queued}
           BeingRead == {item[t].dir : t \in {u \in Workers : Reading(u)}}
           DirsOf(t) == {x.dir : x \in ToSet(childdirs[t])}
           Gathered == UNION {DirsOf(t) : t \in {u \in Workers : pc[u] # "add"}}
           Met == {Head(todo[t]) : t \in Stating} \cap Dirs
<1>2. /\ Open = Queueing \cup BeingRead \cup Gathered \cup Met
      /\ Open' = Queueing' \cup BeingRead' \cup Gathered' \cup Met'
  BY DEF Open, Dirs
<1>3. /\ d \in Queueing <=> \E t \in Workers : \E x \in ToSet(deque[t]) : d = x.dir
      /\ d \in Queueing' <=> \E t \in Workers : \E x \in ToSet(deque'[t]) : d = x.dir
  BY <1>1
<1>4. /\ d \in BeingRead <=> \E t \in Workers : Reading(t) /\ d = item[t].dir
      /\ d \in BeingRead' <=> \E t \in Workers : Reading(t)' /\ d = item'[t].dir
  OBVIOUS
<1>5. /\ d \in Gathered <=>
           \E t \in Workers : pc[t] # "add" /\ \E x \in ToSet(childdirs[t]) : d = x.dir
      /\ d \in Gathered' <=>
           \E t \in Workers : pc'[t] # "add" /\ \E x \in ToSet(childdirs'[t]) : d = x.dir
  OBVIOUS
<1>6. /\ d \in Met <=> \E t \in Workers : pc[t] = "stat" /\ d = Head(todo[t]) /\ d \in Dirs
      /\ d \in Met' <=> \E t \in Workers : pc'[t] = "stat" /\ d = Head(todo'[t]) /\ d \in Dirs
  BY DEF Stating, Dirs
<1> HIDE DEF Queueing, BeingRead, Gathered, Met
<1>7. d \in Open <=> \E t \in Workers : Owes(t, d)
  BY <1>2, <1>3, <1>4, <1>5, <1>6 DEF Owes
<1>8. d \in Open' <=> \E t \in Workers : Owes(t, d)'
  BY <1>2, <1>3, <1>4, <1>5, <1>6 DEF Owes, Dirs
<1>. QED  BY <1>7, <1>8

\* An entry a worker has yet to process is nobody's directory.
LEMMA TodoHasNoItem ==
  ASSUME Walking, EntryOnce, Fresh, NEW t \in Workers, NEW e \in ToSet(todo[t]),
         NEW x \in NamedItem
  PROVE  x.dir # e
<1> USE DEF Walking
<1>1. e # Root
  BY TodoInDir, ChildLevel, ZenonT(40)
<1>2. \A r \in Records : r.entry # e
  BY TodoIsNew
<1>. QED  BY <1>1, <1>2 DEF NamedItem, Names

LEMMA HeadsAreTodo ==
  ASSUME Walking, Fresh, NEW t \in Workers, pc[t] = "stat" \/ todo[t] # <<>>
  PROVE  Head(todo[t]) \in ToSet(todo[t]) /\ Head(todo[t]) \in Entry
<1>1. todo[t] # <<>> /\ todo[t] \in Seq(Entry) /\ IsInjective(todo[t])
  BY DEF Walking, TypeInv, TypeOK, HoldsEntry, Stating, Fresh
<1>. QED  BY <1>1, TakeAnEnd, EndsOfSeq

\* Looking for work, reading a listing and keeping count owe nothing new.
LEMMA OpenStays ==
  ASSUME Walking, NEW t \in Workers,
         \/ PopOwn(t) \/ Steal(t) \/ CheckActive(t) \/ OpenDir(t) \/ SkipEntry(t)
         \/ AddActive(t) \/ SubActive(t) \/ Publish(t)
  PROVE  Open' = Open
<1> USE DEF Walking
<1>. TypeOK
  BY DEF TypeInv
<1>1. CASE PopOwn(t) \/ Steal(t)
  <2>1. pc[t] \in {"own", "steal"} /\ childdirs' = childdirs /\ todo' = todo
    BY <1>1, LookingStep
  <2>2. CASE deque' = deque /\ item' = item /\ pc' = [pc EXCEPT ![t] = "steal"]
    <3>1. ASSUME NEW u \in Workers, NEW d PROVE Owes(u, d)' <=> Owes(u, d)
      BY <2>1, <2>2 DEF Owes, Reading, TypeOK, Dirs
    <3>2. \A d : d \in Open' <=> d \in Open
      BY <3>1, OpenIsOwed
    <3>. QED  BY <3>2
  <2>3. CASE \E v \in Workers, x \in Item : Takes(t, v, x)
    <3>1. PICK v \in Workers, x \in Item : Takes(t, v, x)
      BY <2>3
    <3>2. /\ ToSet(deque'[v]) = ToSet(deque[v]) \ {x} /\ x \in ToSet(deque[v])
          /\ \A u \in Workers \ {v} : deque'[u] = deque[u]
          /\ pc' = [pc EXCEPT ![t] = "guard"] /\ item' = [item EXCEPT ![t] = x]
      BY <3>1, TakesOne DEF Takes
    <3>3. ASSUME NEW u \in Workers, NEW d PROVE Owes(u, d) => Owes(u, d)' \/ d = x.dir
      BY <2>1, <3>2 DEF Owes, Reading, TypeOK, Dirs
    <3>4. ASSUME NEW u \in Workers, NEW d PROVE Owes(u, d)' => Owes(u, d) \/ d = x.dir
      BY <2>1, <3>2 DEF Owes, Reading, TypeOK, Dirs
    <3>5. Owes(v, x.dir) /\ Owes(t, x.dir)'
      BY <3>2 DEF Owes, Reading, TypeOK
    <3>6. \A d : d \in Open' <=> d \in Open
      BY <3>3, <3>4, <3>5, OpenIsOwed
    <3>. QED  BY <3>6
  <2>. QED  BY <1>1, <2>2, <2>3, LookingStep
<1>2. CASE AddActive(t)
  <2>1. ToSet(<<>>) = {}
    BY DEF ToSet
  <2>2. ASSUME NEW u \in Workers, NEW d PROVE Owes(u, d)' <=> Owes(u, d)
    BY <1>2, <2>1 DEF Owes, Reading, TypeOK, Dirs, AddActive
  <2>3. \A d : d \in Open' <=> d \in Open
    BY <2>2, OpenIsOwed
  <2>. QED  BY <2>3
<1>3. CASE CheckActive(t) \/ OpenDir(t) \/ SkipEntry(t) \/ SubActive(t) \/ Publish(t)
  <2>1. /\ deque' = deque /\ childdirs' = childdirs
        /\ \A u \in Workers \ {t} : pc'[u] = pc[u] /\ item'[u] = item[u] /\ todo'[u] = todo[u]
        /\ pc[t] # "stat" /\ pc'[t] # "stat" /\ pc[t] # "add" /\ pc'[t] # "add"
        /\ (Reading(t)' <=> Reading(t)) /\ (Reading(t) => item'[t] = item[t])
    BY <1>3 DEF CheckActive, OpenDir, SkipEntry, SubActive, Publish, shared, TypeOK, Reading
  <2>2. ASSUME NEW u \in Workers, NEW d PROVE Owes(u, d)' <=> Owes(u, d)
    BY <2>1 DEF Owes, Reading, Dirs
  <2>3. \A d : d \in Open' <=> d \in Open
    BY <2>2, OpenIsOwed
  <2>. QED  BY <2>3
<1>. QED  BY <1>1, <1>2, <1>3

\* An entry found is owed if it is a directory.
LEMMA AllocOpens ==
  ASSUME Walking, NEW t \in Workers, AllocId(t)
  PROVE  /\ Open' = IF Head(todo[t]) \in Dirs THEN Open \cup {Head(todo[t])} ELSE Open
         /\ item[t].dir \in Open
<1>. TypeOK
  BY DEF Walking, TypeInv
<1>1. /\ pc[t] = "entry" /\ pc' = [pc EXCEPT ![t] = "stat"]
      /\ UNCHANGED <<deque, childdirs, item, todo>>
  BY DEF AllocId
<1>2. ASSUME NEW u \in Workers, NEW d
      PROVE  Owes(u, d)' <=> Owes(u, d) \/ (u = t /\ d = Head(todo[t]) /\ d \in Dirs)
  BY <1>1 DEF Owes, Reading, TypeOK, Dirs
<1>3. \A d : d \in Open' <=> d \in Open \/ (d = Head(todo[t]) /\ d \in Dirs)
  BY <1>2, OpenIsOwed
<1>4. Owes(t, item[t].dir)
  BY <1>1 DEF Owes, Reading
<1>. QED  BY <1>3, <1>4, OpenIsOwed

\* A directory that is not queued after its lstat is no longer owed.
LEMMA FinishCloses ==
  ASSUME Walking, EntryOnce, Fresh, NEW t \in Workers, pc[t] = "stat",
         NEW own \in Nat, NEW descend \in BOOLEAN, FinishEntry(t, own, descend),
         descend => Head(todo[t]) \in Dirs
  PROVE  /\ Open' = IF descend THEN Open ELSE Open \ {Head(todo[t])}
         /\ Head(todo[t]) \in Open <=> Head(todo[t]) \in Dirs
<1> USE DEF Walking
<1>. TypeOK
  BY DEF TypeInv
<1> DEFINE e == Head(todo[t])
<1>1. /\ pc' = [pc EXCEPT ![t] = "entry"] /\ UNCHANGED <<deque, item>>
      /\ \A u \in Workers \ {t} : childdirs'[u] = childdirs[u] /\ todo'[u] = todo[u]
      /\ childdirs'[t] = IF descend THEN Append(childdirs[t], Child(t)) ELSE childdirs[t]
  BY DEF FinishEntry, TypeOK
<1>2. e \in ToSet(todo[t]) /\ e \in Entry
  BY HeadsAreTodo
<1>3. /\ \A u \in Workers : \A x \in ToSet(deque[u]) : x.dir # e
      /\ \A u \in Workers : \A x \in ToSet(childdirs[u]) : x.dir # e
      /\ \A u \in Workers : item[u].dir # e
  BY <1>2, TodoHasNoItem, NamedSets
<1>4. \A u \in Workers \ {t} : pc[u] = "stat" => Head(todo[u]) # e
  <2> SUFFICES ASSUME NEW u \in Workers \ {t}, pc[u] = "stat" PROVE Head(todo[u]) # e
    OBVIOUS
  <2>1. Head(todo[u]) \in ToSet(todo[u])
    BY HeadsAreTodo
  <2>2. ToSet(todo[t]) \cap ToSet(todo[u]) = {}
    BY TodosApart
  <2>. QED  BY <1>2, <2>1, <2>2
<1>5. e \in Open <=> e \in Dirs
  <2>1. \A u \in Workers : Owes(u, e) <=> u = t /\ e \in Dirs
    BY <1>3, <1>4 DEF Owes
  <2>. QED  BY <2>1, OpenIsOwed
<1>6. descend => ToSet(childdirs'[t]) = ToSet(childdirs[t]) \cup {Child(t)}
  <2>1. Child(t) \in Item
    <3>1. item[t].depth + 1 \in Nat /\ id[t] \in Nat
      BY DEF TypeOK, Item
    <3>. QED  BY <1>2, <3>1 DEF Child, Item
  <2>. QED  BY <1>1, <2>1, AppendApart DEF TypeOK
<1>7. Child(t).dir = e
  BY DEF Child
<1>8. CASE descend
  <2>1. ASSUME NEW u \in Workers, NEW d PROVE Owes(u, d)' <=> Owes(u, d)
    <3>1. CASE u # t
      BY <1>1, <3>1 DEF Owes, Reading, TypeOK, Dirs
    <3>2. CASE u = t
      <4>1. Owes(t, d) <=> \/ \E x \in ToSet(deque[t]) : d = x.dir
                           \/ d = item[t].dir
                           \/ \E x \in ToSet(childdirs[t]) : d = x.dir
                           \/ d = e /\ d \in Dirs
        BY DEF Owes, Reading
      <4>2. Owes(t, d)' <=> \/ \E x \in ToSet(deque[t]) : d = x.dir
                            \/ d = item[t].dir
                            \/ \E x \in ToSet(childdirs[t]) : d = x.dir
                            \/ d = e
        BY <1>1, <1>6, <1>7, <1>8 DEF Owes, Reading, TypeOK, Dirs
      <4>. QED  BY <1>8, <3>2, <4>1, <4>2
    <3>. QED  BY <3>1, <3>2
  <2>2. \A d : d \in Open' <=> d \in Open
    BY <2>1, OpenIsOwed
  <2>. QED  BY <1>5, <1>8, <2>2
<1>9. CASE ~descend
  <2>1. ASSUME NEW u \in Workers, NEW d PROVE Owes(u, d)' <=> Owes(u, d) /\ d # e
    <3>1. CASE u # t
      BY <1>1, <1>3, <1>4, <3>1 DEF Owes, Reading, TypeOK, Dirs
    <3>2. CASE u = t
      BY <1>1, <1>3, <1>9, <3>2 DEF Owes, Reading, TypeOK, Dirs
    <3>. QED  BY <3>1, <3>2
  <2>2. \A d : d \in Open' <=> d \in Open /\ d # e
    BY <2>1, OpenIsOwed
  <2>. QED  BY <1>5, <1>9, <2>2
<1>. QED  BY <1>8, <1>9

\* The directory whose subdirectories are pushed is no longer owed.
LEMMA PushCloses ==
  ASSUME Walking, EntryOnce, Fresh, NEW t \in Workers, PushChildren(t)
  PROVE  Open' = Open \ {item[t].dir} /\ item[t].dir \in Open
<1> USE DEF Walking
<1>. TypeOK
  BY DEF TypeInv
<1> DEFINE d0 == item[t].dir
<1>1. /\ pc[t] = "entry" /\ pc' = [pc EXCEPT ![t] = "add"]
      /\ deque' = [deque EXCEPT ![t] = deque[t] \o childdirs[t]]
      /\ UNCHANGED <<item, childdirs, todo>>
  BY DEF PushChildren, PushTo
<1>2. ToSet(deque'[t]) = ToSet(deque[t]) \cup ToSet(childdirs[t])
  BY <1>1, JoinApart DEF TypeOK
<1>3. Busy(t) /\ \A u \in Workers : Reading(u) => Busy(u)
  BY <1>1 DEF Busy, Reading
<1>4. ASSUME NEW x \in Known, x # item[t] PROVE x.dir # d0
  BY <1>4, KnownSeqs, SameDirSameItem
<1>5. ASSUME NEW u \in Workers
      PROVE  /\ \A x \in ToSet(deque[u]) : x.dir # d0
             /\ pc[u] # "add" => \A x \in ToSet(childdirs[u]) : x.dir # d0
             /\ u # t /\ Reading(u) => item[u].dir # d0
             /\ pc[u] = "stat" => Head(todo[u]) # d0
  <2>1. \A x \in ToSet(deque[u]) : x \in Known /\ x # item[t]
    BY <1>3, KnownSeqs DEF Apart
  <2>2. pc[u] # "add" => \A x \in ToSet(childdirs[u]) : x \in Known /\ x # item[t]
    BY <1>3, KnownSeqs DEF Apart
  <2>3. u # t /\ Reading(u) => item[u] \in Known /\ item[u] # item[t]
    BY <1>3, KnownSeqs DEF Apart
  <2>4. pc[u] = "stat" => Head(todo[u]) # d0
    <3>1. item[t] \in NamedItem
      BY NamedSets
    <3>. QED  BY <3>1, HeadsAreTodo, TodoHasNoItem
  <2>. QED  BY <1>4, <2>1, <2>2, <2>3, <2>4
<1>6. ASSUME NEW u \in Workers, NEW d PROVE Owes(u, d)' <=> Owes(u, d) /\ d # d0
  <2>1. CASE u # t
    <3>1. Owes(u, d)' <=> Owes(u, d)
      BY <1>1, <2>1 DEF Owes, Reading, TypeOK, Dirs
    <3>2. ~Owes(u, d0)
      BY <1>5, <2>1 DEF Owes
    <3>. QED  BY <3>1, <3>2
  <2>2. CASE u = t
    <3>1. Owes(t, d) <=> \/ \E x \in ToSet(deque[t]) : d = x.dir
                         \/ d = d0
                         \/ \E x \in ToSet(childdirs[t]) : d = x.dir
      BY <1>1 DEF Owes, Reading
    <3>2. Owes(t, d)' <=> \/ \E x \in ToSet(deque[t]) : d = x.dir
                          \/ \E x \in ToSet(childdirs[t]) : d = x.dir
      BY <1>1, <1>2 DEF Owes, Reading, TypeOK, Dirs
    <3>. QED  BY <1>1, <1>5, <2>2, <3>1, <3>2
  <2>. QED  BY <2>1, <2>2
<1>7. \A d : d \in Open' <=> d \in Open /\ d # d0
  BY <1>6, OpenIsOwed
<1>8. Owes(t, d0)
  BY <1>1 DEF Owes, Reading
<1>. QED  BY <1>7, <1>8, OpenIsOwed

-----------------------------------------------------------------------------
(* The steps of the workers are those of the sequential walk.              *)

RootDevKnown == root_dev = Meta[Root].dev \/ (root_dev = 0 /\ Root \in Flaky)

Reads ==
  Unread /\ EntryOnce /\ Fresh /\ Shallow /\ Counted /\ Progress /\ ParentEntered

ReadInv == nodes = <<>> => Reads

RefInv == WalkInv /\ NoWorkLeftBehind /\ RootDevKnown /\ ReadInv

LEMMA FoundInit == Init => Found = {Root} /\ Open = {Root}
<1> SUFFICES ASSUME Init PROVE Found = {Root} /\ Open = {Root}
  OBVIOUS
<1>1. Walking
  BY WalkInit, StillWalkingInv DEF Init
<1>2. /\ \A t \in Workers : pc[t] = "own" /\ ~Reading(t) /\ Bucket(t) = {}
      /\ 0 \in Workers
  BY WorkersAssumption DEF Init, Reading, Bucket, Workers
<1>3. Records = {}
  BY <1>2 DEF Records
<1>4. \A e : e \in Found <=> e = Root
  BY <1>1, <1>2, <1>3, FoundWalking
<1>5. ToSet(<<RootItem>>) = {RootItem} /\ ToSet(<<>>) = {}
  <2> DEFINE s == <<RootItem>>
  <2>1. DOMAIN s = {1} /\ s[1] = RootItem
    OBVIOUS
  <2> HIDE DEF s
  <2>2. ToSet(s) = {RootItem}
    BY <2>1 DEF ToSet
  <2>. QED  BY <2>2 DEF ToSet, s
<1>6. ASSUME NEW t \in Workers, NEW d PROVE Owes(t, d) <=> t = 0 /\ d = Root
  <2>1. /\ ToSet(deque[t]) = IF t = 0 THEN {RootItem} ELSE {}
        /\ ToSet(childdirs[t]) = {}
    BY <1>5 DEF Init
  <2>2. RootItem.dir = Root
    BY DEF RootItem
  <2>3. Owes(t, d) <=> \E x \in ToSet(deque[t]) : d = x.dir
    BY <1>2, <2>1 DEF Owes
  <2>4. CASE t = 0
    BY <2>1, <2>2, <2>3, <2>4
  <2>5. CASE t # 0
    BY <2>1, <2>3, <2>5
  <2>. QED  BY <2>4, <2>5
<1>7. \A d : d \in Open <=> d = Root
  BY <1>2, <1>6, OpenIsOwed
<1>. QED  BY <1>4, <1>7

LEMMA RefInit == Init => RefInv
<1> SUFFICES ASSUME Init PROVE RefInv
  OBVIOUS
<1>1. WalkInv /\ Walking
  BY WalkInit, StillWalkingInv DEF Init
<1>2. NoWorkLeftBehind /\ RootDevKnown
  BY DEF Init, NoWorkLeftBehind, RootDevKnown
<1>3. Records = {}
  BY DEF Init, Records, Bucket
<1>4. /\ \A t \in Workers : todo[t] = <<>> /\ pc[t] = "own"
      /\ ToSet(<<>>) = {} /\ IsInjective(<<>>)
  BY DEF Init, ToSet, IsInjective
<1>5. Unread /\ EntryOnce /\ ParentEntered
  BY <1>3 DEF Unread, Untouched, EntryOnce, ParentEntered
<1>6. Fresh /\ Shallow /\ Progress
  BY <1>3, <1>4 DEF Fresh, Shallow, Progress
<1>7. Counted
  BY FoundInit, FS_Singleton DEF Init, Counted
<1>. QED  BY <1>1, <1>2, <1>5, <1>6, <1>7 DEF RefInv, ReadInv, Reads

LEMMA RefStep ==
  ASSUME RefInv, [Next]_vars
  PROVE  RefInv'
<1>. WalkInv /\ TypeInv
  BY DEF RefInv, WalkInv, IdInv
<1>1. WalkInv' /\ NoWorkLeftBehind'
  BY WalkStep, NoWorkLeftBehindStep DEF RefInv
<1>2. RootDevKnown'
  <2>1. root_dev' = root_dev
    BY ConfigStays DEF Next, Assemble, Terminated, vars, shared
  <2>. QED  BY <2>1 DEF RefInv, RootDevKnown
<1>3. ASSUME nodes' = <<>> PROVE Reads'
  <2>1. nodes = <<>> /\ ((\E t \in Workers : WorkerStep(t)) \/ UNCHANGED vars)
    BY <1>3, StillWalking
  <2>2. Walking /\ Reads
    BY <2>1, StillWalkingInv DEF RefInv, ReadInv
  <2>3. Walking'
    BY <1>1, <1>3 DEF WalkInv, IdInv, ArenaDense, Lineage, HeldInv, Walking
  <2>4. CASE \E t \in Workers : WorkerStep(t)
    <3>1. PICK t \in Workers : WorkerStep(t)
      BY <2>4
    <3>2. Unread' /\ EntryOnce' /\ Fresh' /\ Shallow'
      BY <2>2, <3>1, UnreadStep, EntryOnceStep, FreshStep, ShallowStep DEF Reads
    <3>3. Counted' /\ Progress' /\ ParentEntered'
      BY <2>2, <2>3, <3>1, CountedStep, ProgressStep, ParentEnteredStep DEF Reads
    <3>. QED  BY <3>2, <3>3 DEF Reads
  <2>5. CASE UNCHANGED vars
    <3>1. UNCHANGED <<cfg, root_dev, counter, deque, recs, nodes, local, pc, item, todo, childdirs>>
      BY <2>5 DEF vars, shared, worker
    <3>2. Records' = Records /\ Names' = Names
      BY <3>1 DEF Records, Bucket, Names
    <3>3. Found' = Found
      BY <3>1, <3>2 DEF Found, InArena, Stating
    <3>4. /\ \A x : Untouched(x)' <=> Untouched(x)
          /\ \A d : Enterable(d)' <=> Enterable(d)
      BY <3>1, <3>2 DEF Untouched, Enterable
    <3>5. Unread' /\ EntryOnce' /\ Fresh' /\ Shallow' /\ Counted' /\ ParentEntered'
      BY <2>2, <3>1, <3>2, <3>3, <3>4 DEF Reads, Unread, EntryOnce, Fresh, Shallow, Counted,
         ParentEntered, Untouched
    <3>6. Progress'
      BY <2>2, <3>1, <3>3 DEF Reads, Progress, Abstract!MayLeave, Abstract!OffDevice
    <3>. QED  BY <3>5, <3>6 DEF Reads
  <2>. QED  BY <2>1, <2>4, <2>5
<1>. QED  BY <1>1, <1>2, <1>3 DEF RefInv, ReadInv

LEMMA AssembleFinishes ==
  ASSUME RefInv, Assemble
  PROVE  /\ Open = {} /\ UNCHANGED <<cfg, Found, Open>>
         /\ nodes = <<>> /\ nodes' # <<>>
<1>. IdInv /\ TypeInv /\ HandOver /\ NoWorkLeftBehind
  BY DEF RefInv, WalkInv, IdInv
<1>1. nodes = <<>> /\ \A t \in Workers : pc[t] = "exit"
  BY DEF Assemble
<1>2. Walking
  BY <1>1, StillWalkingInv DEF RefInv
<1>3. nodes' # <<>>
  <2>1. 0 \in DOMAIN nodes'
    BY AssembledNodes DEF TypeInv, TypeOK
  <2>. QED  BY <2>1
<1>4. UNCHANGED <<cfg, deque, pc, item, todo, childdirs, local>>
  BY DEF Assemble, worker
<1>5. Open = {} /\ Open' = {}
  <2>1. ToSet(<<>>) = {}
    BY DEF ToSet
  <2>2. \A t \in Workers : deque[t] = <<>> /\ childdirs[t] = <<>>
    BY <1>1, <1>2 DEF NoWorkLeftBehind, Walking, GatheredWhileReading
  <2>3. ASSUME NEW t \in Workers, NEW d PROVE ~Owes(t, d) /\ ~Owes(t, d)'
    BY <1>1, <1>4, <2>1, <2>2 DEF Owes, Reading
  <2>4. \A d : d \notin Open /\ d \notin Open'
    BY <2>3, OpenIsOwed
  <2>. QED  BY <2>4
<1>6. Found' = Found
  <2>1. Stating = {} /\ Records = AllRecs
    BY AssembledNodes
  <2>2. \A e : e \in Found <=> e = Root \/ \E r \in AllRecs : e = r.entry
    BY <1>1, <1>2, <2>1, FoundWalking
  <2>3. Stating' = {} /\ Records' = {}
    <3>1. \A t \in Workers : local'[t] = {} /\ recs'[t] = {} /\ pc'[t] = "exit"
      BY <1>1, <1>4 DEF HandOver, Assemble
    <3>. QED  BY <3>1 DEF Stating, Records, Bucket
  <2>4. \A e : e \in Found' <=> e = Root \/ \E i \in DOMAIN nodes' : e = nodes'[i].entry
    BY <2>3 DEF Found, InArena
  <2>5. \A r \in AllRecs : r.id \in DOMAIN nodes' /\ nodes'[r.id].entry = r.entry
    <3>1. \A r : NodeOf(r).entry = r.entry
      BY DEF NodeOf
    <3>. QED  BY <3>1, AssembledNodes
  <2>6. ASSUME NEW i \in DOMAIN nodes'
        PROVE  nodes'[i].entry = Root \/ \E r \in AllRecs : nodes'[i].entry = r.entry
    <3>1. CASE i = 0
      BY <3>1, AssembledNodes
    <3>2. CASE i # 0
      <4>1. PICK r \in AllRecs : r.id = i
        BY <3>2, AssembledNodes
      <4>. QED  BY <2>5, <4>1
    <3>. QED  BY <3>1, <3>2
  <2>7. \A e : e \in Found' <=> e \in Found
    BY <2>2, <2>4, <2>5, <2>6
  <2>. QED  BY <2>7
<1>. QED  BY <1>1, <1>3, <1>4, <1>5, <1>6

\* An entry is found in an open directory that may be entered.
LEMMA AllocDiscovers ==
  ASSUME Walking, Walking', Reads, RootDevKnown, NEW t \in Workers, AllocId(t)
  PROVE  \E d, e \in Entry : Abstract!Discover(d, e)
<1> DEFINE d0 == item[t].dir
           e0 == Head(todo[t])
<1>. EntryOnce /\ Fresh /\ TypeInv /\ TypeOK
  BY DEF Reads, Walking, TypeInv
<1>1. e0 \in Children(d0) \ Found /\ e0 \in Entry
  BY AllocFindsNew
<1>2. d0 \in Entry /\ d0 \in Open
  BY AllocOpens DEF TypeOK, Item
<1>3. Depth[d0] < cfg.max_depth
  BY DEF Reads, Shallow, AllocId, Walking, ItemsReached, ReachedItem
<1>4. Abstract!OffDevice(d0) => d0 \in Flaky
  <2>1. Enterable(d0)
    BY DEF Walking, ItemsReached, ReachedItem
  <2>2. Meta[d0].dev # 0
    BY <1>2, FileTreeAssumption DEF MetaType
  <2>. QED  BY <2>1, <2>2 DEF Abstract!OffDevice, Enterable, RootDevKnown
<1>5. Found' = Found \cup {e0}
  BY FoundStep DEF WorkerStep
<1>6. Open' = IF e0 \in Dirs THEN Open \cup {e0} ELSE Open
  BY AllocOpens
<1>7. cfg' = cfg /\ nodes' = nodes
  BY DEF AllocId
<1>8. Abstract!Discover(d0, e0)
  BY <1>1, <1>2, <1>3, <1>4, <1>5, <1>6, <1>7, MayLeaveIs
     DEF Abstract!Discover, Abstract!MayEnter
<1>. QED  BY <1>1, <1>2, <1>8

\* A mount point met is closed, and anything else stays as it was.
LEMMA FinishCloseOrStutter ==
  ASSUME Walking, Walking', Reads, RootDevKnown, NEW t \in Workers,
         StatOk(t) \/ StatErr(t) \/ NoStatProbe(t)
  PROVE  (\E d \in Entry : Abstract!Close(d)) \/ UNCHANGED Abstract!vars
<1> DEFINE e0 == Head(todo[t])
<1>. EntryOnce /\ Fresh /\ TypeInv
  BY DEF Reads, Walking
<1>1. PICK own \in Nat, descend \in BOOLEAN :
        /\ FinishEntry(t, own, descend)
        /\ descend => e0 \in Dirs
        /\ descend => ~Crosses(e0) \/ cfg.no_stat \/ e0 \in Flaky
        /\ ~descend /\ e0 \in Dirs => ~cfg.no_stat /\ Crosses(e0)
  BY HandlingStep, ZenonT(20)
<1>2. pc[t] = "stat" /\ e0 \in Entry
  BY HandlingStep
<1>3. /\ Open' = IF descend THEN Open ELSE Open \ {e0}
      /\ e0 \in Open <=> e0 \in Dirs
  BY <1>1, <1>2, FinishCloses
<1>4. Found' = Found /\ cfg' = cfg /\ nodes' = nodes
  <2>1. ~AllocId(t)
    BY <1>2 DEF AllocId
  <2>2. nodes' = nodes /\ cfg' = cfg
    BY <1>1 DEF FinishEntry
  <2>. QED  BY <2>1, <2>2, FoundStep DEF WorkerStep
<1>5. CASE descend \/ e0 \notin Dirs
  BY <1>3, <1>4, <1>5 DEF Abstract!vars
<1>6. CASE ~descend /\ e0 \in Dirs
  <2>1. ~cfg.no_stat /\ cfg.one_fs /\ Meta[e0].dev # root_dev
    BY <1>1, <1>6 DEF Crosses
  <2>2. e0 # Root
    <3>1. e0 \in ToSet(todo[t])
      BY <1>2, HeadsAreTodo
    <3>. QED  BY <3>1, TodoInDir, ChildLevel, ZenonT(40) DEF Walking
  <2>3. Abstract!MayLeave(e0)
    BY <2>1, <2>2, MayLeaveIs DEF RootDevKnown
  <2>4. Abstract!Close(e0)
    BY <1>3, <1>4, <1>6, <2>3 DEF Abstract!Close
  <2>. QED  BY <1>2, <2>4
<1>. QED  BY <1>5, <1>6

\* A directory is closed when its subdirectories are pushed.
LEMMA PushIsClose ==
  ASSUME Walking, Walking', Reads, NEW t \in Workers, PushChildren(t)
  PROVE  \E d \in Entry : Abstract!Close(d)
<1> DEFINE d0 == item[t].dir
<1>. EntryOnce /\ Fresh /\ TypeInv /\ TypeOK
  BY DEF Reads, Walking, TypeInv
<1>1. Open' = Open \ {d0} /\ d0 \in Open
  BY PushCloses
<1>2. pc[t] = "entry" /\ todo[t] = <<>> /\ cfg' = cfg /\ nodes' = nodes
  BY DEF PushChildren, PushTo
<1>3. Found' = Found
  <2>1. ~AllocId(t)
    BY <1>2 DEF AllocId
  <2>. QED  BY <2>1, FoundStep DEF WorkerStep
<1>4. Abstract!Listed(d0) \/ Abstract!MayLeave(d0)
  <2>1. ToSet(todo[t]) = {}
    BY <1>2 DEF ToSet
  <2>. QED  BY <1>2, <2>1, MayLeaveIs DEF Reads, Progress
<1>5. Abstract!Close(d0)
  BY <1>1, <1>2, <1>3, <1>4 DEF Abstract!Close
<1>6. d0 \in Entry
  BY DEF TypeOK, Item
<1>. QED  BY <1>5, <1>6

LEMMA StepRefines ==
  ASSUME RefInv, RefInv', [Next]_vars
  PROVE  [Abstract!Next]_Abstract!vars
<1>. TypeInv
  BY DEF RefInv, WalkInv, IdInv
<1>1. CASE Assemble
  BY <1>1, AssembleFinishes DEF Abstract!Next, Abstract!Finish
<1>2. ASSUME NEW t \in Workers, WorkerStep(t)
      PROVE  [Abstract!Next]_Abstract!vars
  <2>1. pc[t] # "exit"
    BY <1>2 DEF WorkerStep, PopOwn, Steal, CheckActive, OpenDir, SkipEntry, AllocId,
       StatOk, StatErr, NoStatProbe, PushChildren, PushTo, AddActive, SubActive, Publish
  <2>2. nodes = <<>> /\ nodes' = nodes
    BY <1>2, <2>1 DEF TypeInv, Ended, WorkerStep, PopOwn, Steal, CheckActive, OpenDir, SkipEntry,
       AllocId, StatOk, StatErr, NoStatProbe, FinishEntry, PushChildren, PushTo, AddActive,
       SubActive, Publish, shared
  <2>3. Walking /\ Reads /\ RootDevKnown
    BY <2>2, StillWalkingInv DEF RefInv, ReadInv
  <2>4. Walking'
    BY <2>2 DEF RefInv, WalkInv, IdInv, ArenaDense, Lineage, HeldInv, Walking
  <2>5. CASE AllocId(t)
    BY <2>3, <2>4, <2>5, AllocDiscovers DEF Abstract!Next
  <2>6. CASE StatOk(t) \/ StatErr(t) \/ NoStatProbe(t)
    BY <2>3, <2>4, <2>6, FinishCloseOrStutter DEF Abstract!Next
  <2>7. CASE PushChildren(t)
    BY <2>3, <2>4, <2>7, PushIsClose DEF Abstract!Next
  <2>8. CASE \/ PopOwn(t) \/ Steal(t) \/ CheckActive(t) \/ OpenDir(t) \/ SkipEntry(t)
             \/ AddActive(t) \/ SubActive(t) \/ Publish(t)
    <3>1. Open' = Open
      BY <2>3, <2>8, OpenStays
    <3>2. ~AllocId(t)
      BY <2>8 DEF PopOwn, Steal, CheckActive, OpenDir, SkipEntry, AddActive, SubActive, Publish,
         AllocId, TypeInv, TypeOK
    <3>3. Found' = Found
      BY <1>2, <2>3, <2>4, <3>2, FoundStep
    <3>. QED  BY <1>2, <2>2, <3>1, <3>3, ConfigStays DEF Abstract!vars
  <2>. QED  BY <1>2, <2>5, <2>6, <2>7, <2>8 DEF WorkerStep
<1>3. CASE UNCHANGED vars
  <2>1. UNCHANGED <<cfg, deque, recs, nodes, local, pc, item, todo, childdirs>>
    BY <1>3 DEF vars, shared, worker
  <2>2. Found' = Found
    BY <2>1 DEF Found, InArena, Stating, Records, Bucket
  <2>3. Open' = Open
    <3>1. \A t \in Workers : \A d : Owes(t, d)' <=> Owes(t, d)
      BY <2>1 DEF Owes, Reading, Dirs
    <3>2. \A d : d \in Open' <=> d \in Open
      BY <3>1, OpenIsOwed
    <3>. QED  BY <3>2
  <2>. QED  BY <2>1, <2>2, <2>3 DEF Abstract!vars
<1>. QED  BY <1>1, <1>2, <1>3 DEF Next, Terminated

(***************************************************************************)
(* The workers implement the sequential walk of TreeWalk, for any tree,    *)
(* any number of workers and any interleaving of their deque operations,   *)
(* steals and fetch_adds: what is recorded is what one walk that lists a   *)
(* directory after another would find, each directory is dealt with once,  *)
(* and the arena is assembled when none is left.                           *)
(***************************************************************************)
THEOREM WalkIsSequential == Spec => WalksTheTree
<1>1. Init => Abstract!Init
  BY FoundInit DEF Init, Abstract!Init
<1>2. RefInv /\ [Next]_vars => RefInv'
  BY RefStep
<1>3. RefInv /\ RefInv' /\ [Next]_vars => [Abstract!Next]_Abstract!vars
  BY StepRefines
<1>. QED  BY RefInit, <1>1, <1>2, <1>3, PTL DEF Spec, WalksTheTree, Abstract!Spec

-----------------------------------------------------------------------------
(* What every such walk delivers.                                          *)

\* A directory the walk has left was listed, or there was a reason.
LeftForAReason ==
  \A d \in Found : d \in Open \/ Abstract!Listed(d) \/ Abstract!MayLeave(d)

DoneIsDone == nodes # <<>> => Open = {}

SequentialInv == Abstract!TypeOK /\ LeftForAReason /\ DoneIsDone

LEMMA FoundIsCounted ==
  ASSUME Abstract!TypeOK
  PROVE  IsFiniteSet(Found) /\ Abstract!Cardinality(Found) \in Nat
<1>1. Found \subseteq Entry /\ IsFiniteSet(Found)
  BY FileTreeAssumption, FS_Subset DEF Abstract!TypeOK
<1>2. Cardinality(Found) \in Nat
  BY <1>1, FS_CardinalityType
<1>. QED  BY <1>1, <1>2 DEF Cardinality, Abstract!Cardinality

\* A reason to leave a directory does not go away.
LEMMA ReasonsStay ==
  ASSUME Abstract!TypeOK, cfg' = cfg, NEW e \in Entry, Found' = Found \cup {e},
         NEW d, Abstract!MayLeave(d)
  PROVE  Abstract!MayLeave(d)'
<1>1. IsFiniteSet(Found) /\ Cardinality(Found) \in Nat
  BY FoundIsCounted DEF Cardinality, Abstract!Cardinality
<1>2. Cardinality(Found') \in Nat /\ Cardinality(Found') >= Cardinality(Found)
  <2>1. IsFiniteSet(Found \cup {e}) /\ (e \in Found => Found \cup {e} = Found)
    BY <1>1, FS_AddElement
  <2>2. /\ Cardinality(Found \cup {e}) = Cardinality(Found)
           \/ Cardinality(Found \cup {e}) = Cardinality(Found) + 1
    BY <1>1, <2>1, FS_AddElement
  <2>. QED  BY <1>1, <2>2
<1>3. /\ Abstract!Cardinality(Found) = Cardinality(Found)
      /\ Abstract!Cardinality(Found)' = Cardinality(Found')
  BY DEF Cardinality, Abstract!Cardinality
<1>4. cfg.max_entries \in Nat
  BY DEF Abstract!TypeOK, Abstract!CfgType
<1>5. Abstract!Cardinality(Found) >= cfg.max_entries
      => Abstract!Cardinality(Found)' >= cfg'.max_entries
  BY <1>1, <1>2, <1>3, <1>4
<1>. QED  BY <1>5 DEF Abstract!MayLeave, Abstract!OffDevice

LEMMA LeavesAreListed ==
  ASSUME NEW e \in Entry, e \notin Dirs, e # Root
  PROVE  Abstract!Children(e) = {}
BY TreeAssumption DEF Abstract!Children, Dirs

LEMMA SequentialInit == Abstract!Init => SequentialInv
<1> SUFFICES ASSUME Abstract!Init PROVE SequentialInv
  OBVIOUS
<1>1. Abstract!TypeOK
  BY FileTreeAssumption DEF Abstract!Init, Abstract!TypeOK, CfgType, Abstract!CfgType
<1>. QED  BY <1>1 DEF Abstract!Init, SequentialInv, LeftForAReason, DoneIsDone

LEMMA SequentialStep ==
  ASSUME SequentialInv, [Abstract!Next]_Abstract!vars
  PROVE  SequentialInv'
<1> USE DEF SequentialInv
<1>1. ASSUME NEW d \in Entry, NEW e \in Entry, Abstract!Discover(d, e)
      PROVE  SequentialInv'
  <2>1. Abstract!TypeOK'
    BY <1>1 DEF Abstract!Discover, Abstract!TypeOK
  <2>2. ASSUME NEW x \in Found'
        PROVE  x \in Open' \/ Abstract!Listed(x)' \/ Abstract!MayLeave(x)'
    <3>1. CASE x \in Found
      <4>1. x \in Open => x \in Open'
        BY <1>1 DEF Abstract!Discover
      <4>2. Abstract!Listed(x) => Abstract!Listed(x)'
        BY <1>1 DEF Abstract!Discover, Abstract!Listed
      <4>3. Abstract!MayLeave(x) => Abstract!MayLeave(x)'
        BY <1>1, ReasonsStay DEF Abstract!Discover
      <4>. QED  BY <3>1, <4>1, <4>2, <4>3 DEF LeftForAReason
    <3>2. CASE x = e /\ e \in Dirs
      BY <1>1, <3>2 DEF Abstract!Discover, Abstract!Dirs, Dirs
    <3>3. CASE x = e /\ e \notin Dirs
      <4>1. e # Root
        BY <1>1, TreeAssumption DEF Abstract!Discover, Abstract!Children
      <4>. QED  BY <3>3, <4>1, LeavesAreListed DEF Abstract!Listed
    <3>. QED  BY <1>1, <2>2, <3>1, <3>2, <3>3 DEF Abstract!Discover
  <2>3. DoneIsDone'
    BY <1>1 DEF Abstract!Discover, DoneIsDone
  <2>. QED  BY <2>1, <2>2, <2>3 DEF LeftForAReason
<1>2. ASSUME NEW d \in Entry, Abstract!Close(d)
      PROVE  SequentialInv'
  <2>1. /\ cfg' = cfg /\ Found' = Found /\ (nodes # <<>>)' = (nodes # <<>>)
        /\ Open' = Open \ {d} /\ d \in Open
    BY <1>2 DEF Abstract!Close
  <2>2. \A x : /\ Abstract!Listed(x)' <=> Abstract!Listed(x)
               /\ Abstract!MayLeave(x)' <=> Abstract!MayLeave(x)
    BY <2>1 DEF Abstract!Listed, Abstract!MayLeave, Abstract!OffDevice, Abstract!Cardinality
  <2>3. Abstract!TypeOK' /\ DoneIsDone'
    BY <2>1 DEF Abstract!TypeOK, DoneIsDone
  <2>4. LeftForAReason'
    BY <1>2, <2>1, <2>2 DEF LeftForAReason, Abstract!Close
  <2>. QED  BY <2>3, <2>4
<1>3. ASSUME Abstract!Finish \/ UNCHANGED Abstract!vars
      PROVE  SequentialInv'
  <2>1. /\ cfg' = cfg /\ Found' = Found /\ Open' = Open
        /\ (nodes # <<>>)' = (nodes # <<>>) \/ Open = {}
    BY <1>3 DEF Abstract!Finish, Abstract!vars
  <2>2. \A x : /\ Abstract!Listed(x)' <=> Abstract!Listed(x)
               /\ Abstract!MayLeave(x)' <=> Abstract!MayLeave(x)
    BY <2>1 DEF Abstract!Listed, Abstract!MayLeave, Abstract!OffDevice, Abstract!Cardinality
  <2>3. Abstract!TypeOK'
    BY <2>1 DEF Abstract!TypeOK
  <2>4. DoneIsDone' /\ LeftForAReason'
    BY <2>1, <2>2 DEF DoneIsDone, LeftForAReason
  <2>. QED  BY <2>3, <2>4
<1>. QED  BY <1>1, <1>2, <1>3 DEF Abstract!Next

LEMMA SequentialComplete == SequentialInv => CompleteUnlessWarned
<1> SUFFICES ASSUME SequentialInv, nodes # <<>>,
                    Abstract!Cardinality(Found) < cfg.max_entries,
                    NEW d \in Found \ Flaky, Abstract!MayEnter(d),
                    cfg.one_fs => Root \notin Flaky
             PROVE  Abstract!Listed(d)
  BY DEF CompleteUnlessWarned, Abstract!CompleteUnlessWarned
<1>1. d \notin Open
  BY DEF SequentialInv, DoneIsDone
<1>2. Abstract!Cardinality(Found) \in Nat /\ cfg.max_entries \in Nat /\ cfg.max_depth \in Nat
  BY FoundIsCounted DEF SequentialInv, Abstract!TypeOK, Abstract!CfgType
<1>3. Depth[d] \in Nat
  BY FileTreeAssumption DEF SequentialInv, Abstract!TypeOK
<1>4. ~Abstract!MayLeave(d)
  BY <1>2, <1>3 DEF Abstract!MayLeave, Abstract!MayEnter
<1>. QED  BY <1>1, <1>4 DEF SequentialInv, LeftForAReason

(***************************************************************************)
(* Any walk that goes as TreeWalk says: a result that has fewer than       *)
(* max_entries entries, for which no warning is printed, lacks nothing the *)
(* configuration asks for, as far as system calls did not fail.            *)
(***************************************************************************)
THEOREM UnwarnedIsComplete == WalksTheTree => []CompleteUnlessWarned
<1>1. SequentialInv /\ [Abstract!Next]_Abstract!vars => SequentialInv'
  BY SequentialStep
<1>. QED
  BY SequentialInit, SequentialComplete, <1>1, PTL DEF WalksTheTree, Abstract!Spec

(***************************************************************************)
(* An arena for which main prints no "INCOMPLETE" warning lacks nothing    *)
(* the configuration asks for, however the workers shared the tree out.    *)
(***************************************************************************)
THEOREM UnwarnedArenaIsComplete == Spec => []CompleteUnlessWarned
BY WalkIsSequential, UnwarnedIsComplete, PTL

-----------------------------------------------------------------------------
(* --one-file-system.                                                      *)

LEMMA AssembleStaysOnDevice ==
  ASSUME RefInv, Assemble
  PROVE  StaysOnDevice'
<1>. IdInv
  BY DEF RefInv, WalkInv
<1>1. cfg' = cfg /\ root_dev' = root_dev
  BY DEF Assemble
<1> SUFFICES ASSUME cfg.one_fs, ~cfg.no_stat, NEW i \in DOMAIN nodes' \ {0}
             PROVE  LET d == nodes'[nodes'[i].parent].entry
                    IN d = Root \/ d \in Flaky \/ Meta[d].dev = root_dev
  BY <1>1 DEF StaysOnDevice
<1>2. PICK r \in AllRecs : r.id = i
  BY AssembledNodes
<1>3. ParentEntered /\ Records = AllRecs
  BY AssembledNodes DEF RefInv, ReadInv, Reads
<1>4. PICK d \in Entry : <<r.parent, d>> \in Names /\ Enterable(d)
  BY <1>3 DEF ParentEntered
<1>5. nodes'[nodes'[i].parent].entry = d
  BY <1>2, <1>4, AssembledParents
<1>. QED  BY <1>4, <1>5 DEF Enterable

LEMMA StaysOnDeviceStep ==
  ASSUME RefInv, StaysOnDevice, [Next]_vars
  PROVE  StaysOnDevice'
<1>1. CASE Assemble
  BY <1>1, AssembleStaysOnDevice
<1>2. CASE ~Assemble
  <2>1. nodes' = nodes /\ cfg' = cfg /\ root_dev' = root_dev
    BY <1>2 DEF Next, WorkerStep, Terminated, vars, shared, PopOwn, Steal, CheckActive,
       OpenDir, SkipEntry, AllocId, StatOk, StatErr, NoStatProbe, FinishEntry,
       PushChildren, PushTo, AddActive, SubActive, Publish
  <2>. QED  BY <2>1 DEF StaysOnDevice
<1>. QED  BY <1>1, <1>2

(***************************************************************************)
(* --one-file-system holds for the whole arena: whichever worker popped or *)
(* stole a directory, it had passed the device check of the worker that    *)
(* met it, or nobody could tell its device.                                *)
(***************************************************************************)
THEOREM StaysOnOneDevice == Spec => []StaysOnDevice
<1>1. Init => StaysOnDevice
  BY DEF Init, StaysOnDevice
<1>2. RefInv /\ StaysOnDevice /\ [Next]_vars => (RefInv /\ StaysOnDevice)'
  BY RefStep, StaysOnDeviceStep
<1>. QED  BY RefInit, <1>1, <1>2, PTL DEF Spec

-----------------------------------------------------------------------------
(* What the arena adds up to.                                              *)

\* The record of a name that is charged with the blocks of its inode.
Charged(r) == MultiLinked(r.entry) /\ r.own = Meta[r.entry].own

\* What a record can say of the size of its entry.
Sized(r) ==
  /\ r.own \in {0, Meta[r.entry].own}
  /\ r.own = 0 =>
       \/ Meta[r.entry].own = 0 \/ r.entry \in Flaky
       \/ MultiLinked(r.entry) /\ Inode(r.entry) \in seen
  /\ r.own # 0 /\ MultiLinked(r.entry) => Inode(r.entry) \in seen
  /\ MultiLinked(r.entry) /\ r.entry \notin Flaky => Inode(r.entry) \in seen

\* An inode that has been seen is charged to one of its names, and no inode
\* is charged to two.
SeenIsCharged == \A i \in seen : \E r \in Records : Charged(r) /\ Inode(r.entry) = i

ChargedOnce ==
  \A q, r \in Records :
    /\ MultiLinked(q.entry) /\ MultiLinked(r.entry)
    /\ Inode(q.entry) = Inode(r.entry) /\ q # r
    => q.own = 0 \/ r.own = 0

Charges ==
  ~cfg.no_stat => SeenIsCharged /\ ChargedOnce /\ \A r \in Records : Sized(r)

TotalInv == nodes = <<>> => Charges
\* What a handled entry is charged, and whether its inode is then seen.
Charges1(e, own, s) ==
  \/ own = 0 /\ e \in Flaky /\ s = seen
  \/ /\ own = (IF MultiLinked(e) /\ Inode(e) \in seen THEN 0 ELSE Meta[e].own)
     /\ s = (IF MultiLinked(e) THEN seen \cup {Inode(e)} ELSE seen)

LEMMA ChargingStep ==
  ASSUME TypeInv, ~cfg.no_stat, NEW t \in Workers, StatOk(t) \/ StatErr(t) \/ NoStatProbe(t)
  PROVE  /\ Head(todo[t]) \in Entry
         /\ \E own, descend : FinishEntry(t, own, descend) /\ Charges1(Head(todo[t]), own, seen')
<1> DEFINE e == Head(todo[t])
<1>1. e \in Entry
  BY HandlingStep
<1>2. CASE StatOk(t)
  <2> DEFINE own == IF MultiLinked(e) /\ Inode(e) \in seen THEN 0 ELSE Meta[e].own
             down == Meta[e].is_dir /\ ~Crosses(e)
  <2>1. FinishEntry(t, own, down)
    BY <1>2 DEF StatOk
  <2>2. Charges1(e, own, seen')
    BY <1>2 DEF StatOk, Charges1
  <2> HIDE DEF own, down, e
  <2>. QED  BY <1>1, <2>1, <2>2 DEF e
<1>3. CASE StatErr(t)
  <2>1. FinishEntry(t, 0, Meta[e].is_dir)
    BY <1>3 DEF StatErr
  <2>2. Charges1(e, 0, seen')
    BY <1>3 DEF StatErr, Charges1
  <2>. QED  BY <1>1, <2>1, <2>2, ZenonT(20)
<1>4. ~NoStatProbe(t)
  BY DEF NoStatProbe
<1>. QED  BY <1>2, <1>3, <1>4

LEMMA ChargesStep ==
  ASSUME Walking, Charges, EntryOnce, Fresh, NEW t \in Workers, WorkerStep(t)
  PROVE  Charges'
<1> USE DEF Walking
<1>1. cfg' = cfg
  BY ConfigStays
<1> SUFFICES ASSUME ~cfg.no_stat PROVE (SeenIsCharged /\ ChargedOnce /\ \A r \in Records : Sized(r))'
  BY <1>1 DEF Charges
<1>2. SeenIsCharged /\ ChargedOnce /\ \A r \in Records : Sized(r)
  BY DEF Charges
<1>3. CASE StatOk(t) \/ StatErr(t) \/ NoStatProbe(t)
  <2> DEFINE e == Head(todo[t])
  <2>1. PICK own, descend : FinishEntry(t, own, descend) /\ Charges1(e, own, seen')
    BY <1>3, ChargingStep, ZenonT(20)
  <2>2. PICK n : n = RecOf(t, own)
    OBVIOUS
  <2>3. /\ n.own = own /\ n.entry = e /\ e \in Entry
        /\ \A r : r \in Records' <=> r \in Records \/ r = n
    BY <1>3, <2>1, <2>2, ChargingStep, FinishRecords DEF RecOf
  <2>nat. Meta[e].own \in Nat
    BY <2>3, FileTreeAssumption DEF MetaType
  <2> HIDE DEF e
  <2>4. seen \subseteq seen'
    BY <2>1 DEF Charges1
  <2>5. Sized(n)'
    BY <2>1, <2>3, <2>nat DEF Charges1, Sized, MultiLinked, Inode
  <2>6. \A r \in Records : Sized(r)'
    BY <1>2, <2>4 DEF Sized
  <2>7. SeenIsCharged'
    <3> SUFFICES ASSUME NEW i \in seen' PROVE \E r \in Records' : Charged(r) /\ Inode(r.entry) = i
      BY DEF SeenIsCharged, Charged, Inode, MultiLinked
    <3>1. CASE i \in seen
      BY <1>2, <2>3, <3>1 DEF SeenIsCharged
    <3>2. CASE i \notin seen
      <4>1. MultiLinked(e) /\ i = Inode(e) /\ own = Meta[e].own
        BY <2>1, <3>2 DEF Charges1
      <4>. QED  BY <2>3, <4>1 DEF Charged
    <3>. QED  BY <3>1, <3>2
  <2>8. ASSUME NEW q \in Records, MultiLinked(q.entry), MultiLinked(e), Inode(q.entry) = Inode(e)
        PROVE  q.own = 0 \/ own = 0
    BY <1>2, <2>1, <2>8 DEF Charges1, Sized
  <2>9. ChargedOnce'
    <3> SUFFICES ASSUME NEW q \in Records', NEW r \in Records',
                        MultiLinked(q.entry), MultiLinked(r.entry),
                        Inode(q.entry) = Inode(r.entry), q # r
                 PROVE  q.own = 0 \/ r.own = 0
      BY DEF ChargedOnce
    <3>1. CASE q \in Records /\ r \in Records
      BY <1>2, <3>1 DEF ChargedOnce
    <3>2. CASE q = n \/ r = n
      BY <2>3, <2>8, <3>2
    <3>. QED  BY <2>3, <3>1, <3>2
  <2>. QED  BY <2>3, <2>5, <2>6, <2>7, <2>9
<1>4. CASE ~(StatOk(t) \/ StatErr(t) \/ NoStatProbe(t))
  <2>1. Records' = Records
    BY <1>4, RecordsStay DEF WorkerStep
  <2>2. seen' = seen
    BY <1>4 DEF WorkerStep, PopOwn, Steal, CheckActive, OpenDir, SkipEntry, AllocId,
       PushChildren, PushTo, AddActive, SubActive, Publish, shared
  <2>. QED  BY <1>2, <2>1, <2>2 DEF SeenIsCharged, ChargedOnce, Sized, Charged, MultiLinked, Inode
<1>. QED  BY <1>3, <1>4
(***************************************************************************)
(* What the arena inherits from the records: each entry has one node, and  *)
(* a node is charged what lstat said of its entry, unless that failed or   *)
(* another node is charged with the inode.                                 *)
(***************************************************************************)
NodeCharged(i) == MultiLinked(nodes[i].entry) /\ nodes[i].own = Meta[nodes[i].entry].own

NodeFailed(i) == nodes[i].own = 0 /\ nodes[i].entry \in Flaky

SameInode(i, j) ==
  /\ MultiLinked(nodes[i].entry) /\ MultiLinked(nodes[j].entry)
  /\ Inode(nodes[i].entry) = Inode(nodes[j].entry)

ArenaCharges ==
  LET others == DOMAIN nodes \ {0} IN
  /\ IsFiniteSet(DOMAIN nodes) /\ 0 \in DOMAIN nodes /\ nodes[0].entry = Root
  /\ \A i \in DOMAIN nodes : nodes[i].entry \in Entry
  /\ \A i, j \in DOMAIN nodes : nodes[i].entry = nodes[j].entry => i = j
  /\ nodes[0].own = Meta[Root].own \/ NodeFailed(0)
  /\ \A i \in others : /\ nodes[i].own \in {0, Meta[nodes[i].entry].own}
                       /\ ~MultiLinked(nodes[i].entry) =>
                            nodes[i].own = Meta[nodes[i].entry].own \/ NodeFailed(i)
  /\ \A i \in others : MultiLinked(nodes[i].entry) /\ ~NodeFailed(i) =>
       \E j \in others : NodeCharged(j) /\ SameInode(i, j)
  /\ \A i, j \in others : SameInode(i, j) /\ i # j => nodes[i].own = 0 \/ nodes[j].own = 0

ArenaSized == nodes # <<>> /\ ~cfg.no_stat => ArenaCharges

\* What the records of the entries say of each other's sizes in the end.
Failed(r) == r.own = 0 /\ r.entry \in Flaky

RecordsCharged ==
  /\ ChargedOnce
  /\ \A r \in Records :
       /\ r.own \in {0, Meta[r.entry].own}
       /\ Failed(r) \/
            IF MultiLinked(r.entry)
            THEN \E q \in Records : Charged(q) /\ Inode(q.entry) = Inode(r.entry)
            ELSE r.own = Meta[r.entry].own

LEMMA ArenaInherits ==
  ASSUME IdInv, EntryOnce, ParentNamed, RecordsCharged, Assemble
  PROVE  ArenaCharges'
<1>. TypeInv /\ TypeOK /\ nodes = <<>>
  BY DEF IdInv, TypeInv, Assemble
<1>1. /\ Records = AllRecs /\ DOMAIN nodes' = 0 .. counter - 1 /\ nodes'[0].entry = Root
      /\ \A r \in Records : r.id \in DOMAIN nodes' \ {0} /\ nodes'[r.id] = NodeOf(r)
      /\ \A i \in DOMAIN nodes' \ {0} : \E r \in Records : r.id = i
  BY AssembledNodes
<1>2. \A r \in Records : r.entry \in Entry /\ r.entry # Root
  BY ChildLevel DEF ParentNamed
<1>3. \A r : NodeOf(r).entry = r.entry /\ NodeOf(r).own = r.own
  BY DEF NodeOf
<1>4. /\ counter \in Nat \ {0} /\ IsFiniteSet(DOMAIN nodes') /\ 0 \in DOMAIN nodes'
  <2>1. counter \in Nat \ {0} /\ 0 \in 0 .. counter - 1
    BY DEF TypeOK
  <2>2. IsFiniteSet(0 .. counter - 1)
    BY <2>1, FS_Interval
  <2>. QED  BY <1>1, <2>1, <2>2
<1>5. nodes'[0].own = Meta[Root].own \/ (nodes'[0].own = 0 /\ Root \in Flaky)
  <2>1. ~ \E r \in AllRecs : r.id = 0
    BY <1>1
  <2>2. 0 \in 0 .. counter - 1
    BY <1>1, <1>4
  <2>3. \A own : RootNode(own).own = own
    BY DEF RootNode, EmptyNode
  <2>4. \E own \in {Meta[Root].own} \cup IF Root \in Flaky THEN {0} ELSE {} : nodes'[0] = RootNode(own)
    BY <2>1, <2>2 DEF Assemble
  <2>. QED  BY <2>3, <2>4
<1>6. \A i \in DOMAIN nodes' \ {0} : \E r \in Records :
        r.id = i /\ nodes'[i].entry = r.entry /\ nodes'[i].own = r.own
  BY <1>1, <1>3
<1>7. \A r \in Records : r.id \in DOMAIN nodes' \ {0}
        /\ nodes'[r.id].entry = r.entry /\ nodes'[r.id].own = r.own
  BY <1>1, <1>3
<1>8. \A i \in DOMAIN nodes' : nodes'[i].entry \in Entry
  BY <1>1, <1>2, <1>6, FileTreeAssumption
<1>9. \A i, j \in DOMAIN nodes' : nodes'[i].entry = nodes'[j].entry => i = j
  BY <1>1, <1>2, <1>6 DEF EntryOnce
<1> DEFINE others == DOMAIN nodes' \ {0}
<1>10. ASSUME NEW i \in others
       PROVE  /\ nodes'[i].own \in {0, Meta[nodes'[i].entry].own}
              /\ ~MultiLinked(nodes'[i].entry) =>
                   nodes'[i].own = Meta[nodes'[i].entry].own \/ NodeFailed(i)'
  BY <1>6 DEF RecordsCharged, Failed, NodeFailed
<1>11. ASSUME NEW i \in others, MultiLinked(nodes'[i].entry), ~NodeFailed(i)'
       PROVE  \E j \in others : NodeCharged(j)' /\ SameInode(i, j)'
  <2>1. PICK r \in Records : r.id = i /\ nodes'[i].entry = r.entry /\ nodes'[i].own = r.own
    BY <1>6
  <2>2. PICK q \in Records : Charged(q) /\ Inode(q.entry) = Inode(r.entry)
    <3>1. ~Failed(r) /\ MultiLinked(r.entry)
      BY <1>11, <2>1 DEF Failed, NodeFailed, MultiLinked
    <3>. QED  BY <3>1 DEF RecordsCharged
  <2>3. NodeCharged(q.id)' /\ SameInode(i, q.id)' /\ q.id \in others
    BY <1>7, <1>11, <2>1, <2>2 DEF NodeCharged, SameInode, Charged, MultiLinked, Inode
  <2>. QED  BY <2>3
<1>12. ASSUME NEW i \in others, NEW j \in others, SameInode(i, j)', i # j
       PROVE  nodes'[i].own = 0 \/ nodes'[j].own = 0
  BY <1>6, <1>12 DEF RecordsCharged, ChargedOnce, SameInode, MultiLinked, Inode
<1>. QED
  BY <1>1, <1>4, <1>5, <1>8, <1>9, <1>10, <1>11, <1>12
     DEF ArenaCharges, NodeFailed, MultiLinked

LEMMA AssembleCharges ==
  ASSUME RefInv, Charges, Assemble
  PROVE  ArenaSized'
<1> SUFFICES ASSUME ~cfg.no_stat PROVE ArenaCharges'
  BY DEF ArenaSized, Assemble
<1>1. SeenIsCharged /\ ChargedOnce /\ \A r \in Records : Sized(r)
  BY DEF Charges
<1>2. IdInv /\ EntryOnce /\ ParentNamed
  BY DEF RefInv, ReadInv, Reads, WalkInv, Lineage, Assemble
<1>3. RecordsCharged
  BY <1>1 DEF RecordsCharged, Failed, Sized, SeenIsCharged
<1>. QED  BY <1>2, <1>3, ArenaInherits

-----------------------------------------------------------------------------
(* Adding up.                                                              *)

\* The sums of the model, as sums of functions.
LEMMA TotalIsSum ==
  ASSUME IsFiniteSet(DOMAIN nodes)
  PROVE  Total = Sum([i \in DOMAIN nodes |-> nodes[i].own], DOMAIN nodes)
<1> DEFINE D == DOMAIN nodes
           f == [i \in D |-> nodes[i].own]
           Unfolds(g) == g = [s \in SUBSET D |->
                            IF s = {} THEN 0 ELSE nodes[Pick(s)].own + g[s \ {Pick(s)}]]
           h == CHOOSE g : Unfolds(g)
<1>1. ASSUME NEW g PROVE Unfolds(g) <=> SumRec(f, D, g)
  <2>1. \A s \in SUBSET D : s # {} => f[Pick(s)] = nodes[Pick(s)].own
    BY PickIn
  <2>. QED  BY <2>1 DEF SumRec
<1>2. Unfolds(h)
  <2>1. \E g : Unfolds(g)
    BY <1>1, SumExists
  <2>. QED  BY <2>1
<1>3. Sum(f, D) = h[D]
  <2>1. SumRec(f, D, h)
    BY <1>1, <1>2
  <2> HIDE DEF h, f, D
  <2>. QED  BY <2>1, SumByRec DEF D
<1>4. Total = h[D]
  BY DEF Total, MapThenSumSet, MapThenFoldSet, Pick
<1>. QED  BY <1>3, <1>4

LEMMA OwnSum ==
  ASSUME NEW S, S \subseteq Entry
  PROVE  MapThenSumSet(LAMBDA e : Meta[e].own, S) = Sum([e \in Entry |-> Meta[e].own], S)
<1> DEFINE f == [e \in Entry |-> Meta[e].own]
           Unfolds(g) == g = [s \in SUBSET S |->
                            IF s = {} THEN 0 ELSE Meta[Pick(s)].own + g[s \ {Pick(s)}]]
           h == CHOOSE g : Unfolds(g)
<1>1. ASSUME NEW g PROVE Unfolds(g) <=> SumRec(f, S, g)
  <2>1. \A s \in SUBSET S : s # {} => f[Pick(s)] = Meta[Pick(s)].own
    BY PickIn
  <2>. QED  BY <2>1 DEF SumRec
<1>2. IsFiniteSet(S)
  BY FS_Subset, FileTreeAssumption
<1>3. Unfolds(h)
  <2>1. \E g : Unfolds(g)
    BY <1>1, <1>2, SumExists
  <2>. QED  BY <2>1
<1>4. Sum(f, S) = h[S]
  <2>1. SumRec(f, S, h)
    BY <1>1, <1>3
  <2> HIDE DEF h, f
  <2>. QED  BY <1>2, <2>1, SumByRec
<1>5. MapThenSumSet(LAMBDA e : Meta[e].own, S) = h[S]
  BY DEF MapThenSumSet, MapThenFoldSet, Pick
<1>. QED  BY <1>4, <1>5
Single(S) == {e \in S : ~MultiLinked(e)}

Linked(S) == {e \in S : MultiLinked(e)}

InodesOf(S) == {Inode(e) : e \in Linked(S)}

\* The blocks of each inode that has a name in S.
Blocks(S) ==
  [i \in InodesOf(S) |-> Meta[CHOOSE e \in Linked(S) : Inode(e) = i].own]

LEMMA DuIsSum ==
  ASSUME NEW S, S \subseteq Entry
  PROVE  /\ Du(S) = Sum([e \in Entry |-> Meta[e].own], Single(S)) + Sum(Blocks(S), InodesOf(S))
         /\ IsFiniteSet(S) /\ IsFiniteSet(Single(S)) /\ IsFiniteSet(Linked(S))
<1>1. IsFiniteSet(S) /\ IsFiniteSet(Single(S)) /\ IsFiniteSet(Linked(S))
  BY FS_Subset, FileTreeAssumption DEF Single, Linked
<1>2. IsFiniteSet(InodesOf(S))
  <2> DEFINE b == [e \in Entry |-> Inode(e)]
  <2>1. IsFiniteSet({b[e] : e \in Linked(S)})
    BY <1>1, FiniteImage
  <2>2. {b[e] : e \in Linked(S)} = InodesOf(S)
    BY DEF InodesOf, Linked
  <2>. QED  BY <2>1, <2>2
<1> DEFINE f == Blocks(S)
           K == InodesOf(S)
           Unfolds(g) == g = [s \in SUBSET K |->
                            IF s = {} THEN 0
                            ELSE Meta[CHOOSE e \in Linked(S) : Inode(e) = Pick(s)].own
                                   + g[s \ {Pick(s)}]]
           h == CHOOSE g : Unfolds(g)
<1>3. ASSUME NEW g PROVE Unfolds(g) <=> SumRec(f, K, g)
  <2>1. \A s \in SUBSET K : s # {} =>
          f[Pick(s)] = Meta[CHOOSE e \in Linked(S) : Inode(e) = Pick(s)].own
    BY PickIn DEF Blocks
  <2> HIDE DEF f, K
  <2>. QED  BY <2>1 DEF SumRec
<1>4. Unfolds(h)
  <2>1. \E g : Unfolds(g)
    <3>1. \E g : SumRec(f, K, g)
      BY <1>2, SumExists
    <3> HIDE DEF Unfolds, f, K
    <3>. QED  BY <1>3, <3>1
  <2> HIDE DEF Unfolds
  <2>. QED  BY <2>1
<1>5. Sum(f, K) = h[K]
  <2>1. SumRec(f, K, h)
    BY <1>3, <1>4
  <2> HIDE DEF h, f
  <2>. QED  BY <1>2, <2>1, SumByRec
<1>6. Du(S) = MapThenSumSet(LAMBDA e : Meta[e].own, Single(S)) + h[K]
  BY DEF Du, MapThenSumSet, MapThenFoldSet, Pick, Single, Linked, InodesOf
<1>7. Single(S) \subseteq Entry
  BY DEF Single
<1>. QED  BY <1>1, <1>5, <1>6, <1>7, OwnSum
\* The nodes du counts one by one, those it counts by inode, and the rest.
SingleNodes == {i \in DOMAIN nodes : ~NodeFailed(i) /\ ~MultiLinked(nodes[i].entry)}

LinkedNodes == {i \in DOMAIN nodes : ~NodeFailed(i) /\ MultiLinked(nodes[i].entry)}

FailedNodes == {i \in DOMAIN nodes : NodeFailed(i)}

Sizes == [i \in DOMAIN nodes |-> nodes[i].own]

Kept == InArena \ Unknown

LEMMA KeptEntries ==
  ASSUME ArenaCharges
  PROVE  /\ Kept \subseteq Entry
         /\ Single(Kept) = {nodes[i].entry : i \in SingleNodes}
         /\ Linked(Kept) = {nodes[i].entry : i \in LinkedNodes}
<1>1. \A i, j \in DOMAIN nodes : nodes[i].entry = nodes[j].entry => i = j
  BY DEF ArenaCharges
<1>2. Kept \subseteq Entry
  BY DEF ArenaCharges, Kept, InArena
<1>3. \A e : e \in Unknown <=> \E i \in DOMAIN nodes : NodeFailed(i) /\ e = nodes[i].entry
  BY DEF Unknown, NodeFailed
<1>4. \A e : e \in Kept <=> \E i \in DOMAIN nodes : ~NodeFailed(i) /\ e = nodes[i].entry
  BY <1>1, <1>3 DEF Kept, InArena
<1>5. Single(Kept) = {nodes[i].entry : i \in SingleNodes}
  BY <1>4 DEF Single, SingleNodes
<1>6. Linked(Kept) = {nodes[i].entry : i \in LinkedNodes}
  BY <1>4 DEF Linked, LinkedNodes
<1>. QED  BY <1>2, <1>5, <1>6

LEMMA SinglesAddUp ==
  ASSUME ArenaCharges
  PROVE  Sum(Sizes, SingleNodes) = Sum([e \in Entry |-> Meta[e].own], Single(Kept))
<1> DEFINE b == [i \in DOMAIN nodes |-> nodes[i].entry]
           h == [e \in Entry |-> Meta[e].own]
<1>1. IsFiniteSet(SingleNodes)
  BY FS_Subset DEF ArenaCharges, SingleNodes
<1>2. \A i, j \in SingleNodes : b[i] = b[j] => i = j
  BY DEF ArenaCharges, SingleNodes
<1>3. \A i \in SingleNodes : Sizes[i] = h[b[i]] /\ Sizes[i] \in Int
  <2> TAKE i \in SingleNodes
  <2>1. nodes[i].own = Meta[nodes[i].entry].own /\ nodes[i].entry \in Entry /\ i \in DOMAIN nodes
    BY DEF ArenaCharges, SingleNodes
  <2>. QED  BY <2>1, FileTreeAssumption DEF Sizes, MetaType
<1>4. {b[i] : i \in SingleNodes} = Single(Kept)
  BY KeptEntries DEF SingleNodes
<1>5. Sum(h, {b[i] : i \in SingleNodes}) = Sum(Sizes, SingleNodes)
  <2> HIDE DEF b, h
  <2>. QED  BY <1>1, <1>2, <1>3, SumImage
<1>. QED  BY <1>4, <1>5

\* What du takes for the blocks of a name's inode.
LEMMA BlocksOfName ==
  ASSUME NEW S, S \subseteq Entry, NEW e \in Linked(S)
  PROVE  Inode(e) \in InodesOf(S) /\ Blocks(S)[Inode(e)] = Meta[e].own
<1> DEFINE c == CHOOSE x \in Linked(S) : Inode(x) = Inode(e)
<1>1. c \in Linked(S) /\ Inode(c) = Inode(e)
  OBVIOUS
<1>2. Meta[c].own = Meta[e].own
  BY <1>1, InodeAssumption DEF Linked, MultiLinked, Inode
<1>3. Inode(e) \in InodesOf(S)
  BY DEF InodesOf
<1>. QED  BY <1>2, <1>3 DEF Blocks

\* The size of a node is a number: what lstat said of its entry, or nothing.
LEMMA SizesAreNumbers ==
  ASSUME ArenaCharges, NEW i \in DOMAIN nodes
  PROVE  /\ nodes[i].entry \in Entry /\ Meta[nodes[i].entry].own \in Nat
         /\ nodes[i].own \in {0, Meta[nodes[i].entry].own}
         /\ Sizes[i] = nodes[i].own /\ Sizes[i] \in Nat
<1>1. nodes[i].entry \in Entry /\ Sizes[i] = nodes[i].own
  BY DEF ArenaCharges, Sizes
<1>2. Meta[nodes[i].entry].own \in Nat
  BY <1>1, FileTreeAssumption DEF MetaType
<1>3. nodes[i].own \in {0, Meta[nodes[i].entry].own}
  <2>1. CASE i = 0
    BY <2>1 DEF ArenaCharges, NodeFailed
  <2>2. CASE i # 0
    BY <2>2 DEF ArenaCharges
  <2>. QED  BY <2>1, <2>2
<1>. QED  BY <1>1, <1>2, <1>3

LEMMA LinksAddUp ==
  ASSUME ArenaCharges, RootApart
  PROVE  Sum(Sizes, LinkedNodes) = Sum(Blocks(Kept), InodesOf(Kept))
<1> DEFINE key == [i \in DOMAIN nodes |-> Inode(nodes[i].entry)]
           w == Blocks(Kept)
           others == DOMAIN nodes \ {0}
<1>1. IsFiniteSet(LinkedNodes)
  BY FS_Subset DEF ArenaCharges, LinkedNodes
<1>2. ASSUME NEW i \in DOMAIN nodes
      PROVE  /\ nodes[i].entry \in Entry /\ Sizes[i] = nodes[i].own
             /\ Meta[nodes[i].entry].own \in Nat
             /\ nodes[i].own \in {0, Meta[nodes[i].entry].own}
  BY SizesAreNumbers
<1>3. \A i \in LinkedNodes : /\ i \in DOMAIN nodes /\ ~NodeFailed(i) /\ key[i] = Inode(nodes[i].entry)
                             /\ MultiLinked(nodes[i].entry)
                             /\ w[key[i]] = Meta[nodes[i].entry].own
  <2>1. \A i \in LinkedNodes : nodes[i].entry \in Linked(Kept)
    BY KeptEntries
  <2>. QED  BY <2>1, KeptEntries, BlocksOfName DEF LinkedNodes
<1>4. ASSUME NEW x \in LinkedNodes
      PROVE  \E y \in LinkedNodes :
               /\ key[y] = key[x] /\ Sizes[y] = w[key[x]]
               /\ \A z \in LinkedNodes : key[z] = key[x] /\ z # y => Sizes[z] = 0
  <2> HIDE DEF w
  <2>1. CASE x = 0
    <3>1. Sizes[0] = w[key[0]]
      BY <1>2, <1>3, <2>1 DEF ArenaCharges
    <3>2. \A z \in LinkedNodes : key[z] = key[0] => z = 0
      BY <1>2, <1>3, <2>1 DEF ArenaCharges, RootApart
    <3>. QED  BY <2>1, <3>1, <3>2
  <2>2. CASE x # 0
    <3>1. PICK j \in others : NodeCharged(j) /\ SameInode(x, j)
      BY <1>3, <2>2 DEF ArenaCharges
    <3>2. /\ key[j] = key[x] /\ nodes[j].own = Meta[nodes[j].entry].own
          /\ Meta[nodes[j].entry].own = Meta[nodes[x].entry].own
          /\ Meta[nodes[x].entry].own = w[key[x]]
      BY <1>2, <1>3, <3>1, InodeAssumption DEF NodeCharged, SameInode, MultiLinked, Inode
    <3>3. ASSUME NEW z \in LinkedNodes, key[z] = key[x]
          PROVE  /\ z \in others /\ nodes[z].own \in {0, w[key[x]]}
                 /\ z # j => nodes[z].own = 0 \/ nodes[j].own = 0
      <4>1. z # 0
        BY <1>2, <1>3, <2>2, <3>3, ZenonT(40) DEF ArenaCharges, RootApart
      <4>2. SameInode(z, j)
        BY <1>3, <3>1, <3>3 DEF SameInode
      <4>3. z # j => nodes[z].own = 0 \/ nodes[j].own = 0
        BY <1>3, <3>1, <4>1, <4>2 DEF ArenaCharges
      <4>. QED  BY <1>2, <1>3, <3>3, <4>1, <4>3
    <3>4. CASE j \in LinkedNodes
      <4>1. Sizes[j] = w[key[x]]
        BY <1>2, <3>2, <3>4
      <4>2. \A z \in LinkedNodes : key[z] = key[x] /\ z # j => Sizes[z] = 0
        BY <1>2, <1>3, <3>2, <3>3
      <4>. QED  BY <3>2, <3>4, <4>1, <4>2
    <3>5. CASE j \notin LinkedNodes
      <4>1. nodes[j].own = 0
        BY <3>1, <3>5 DEF LinkedNodes, NodeFailed, SameInode
      <4>2. w[key[x]] = 0 /\ \A z \in LinkedNodes : key[z] = key[x] => Sizes[z] = 0
        BY <1>2, <1>3, <3>2, <3>3, <4>1
      <4>. QED  BY <4>2
    <3>. QED  BY <3>4, <3>5
  <2>. QED  BY <2>1, <2>2
<1>5. \A i \in LinkedNodes : Sizes[i] \in Int
  <2>1. \A i \in DOMAIN nodes : Sizes[i] \in Nat
    BY SizesAreNumbers
  <2>. QED  BY <2>1 DEF LinkedNodes
<1>6. {key[i] : i \in LinkedNodes} = InodesOf(Kept)
  BY KeptEntries DEF InodesOf, LinkedNodes
<1>7. Sum(Sizes, LinkedNodes) = Sum(w, {key[i] : i \in LinkedNodes})
  <2>1. \A x \in LinkedNodes : \E y \in LinkedNodes :
          /\ key[y] = key[x] /\ Sizes[y] = w[key[x]]
          /\ \A z \in LinkedNodes : key[z] = key[x] /\ z # y => Sizes[z] = 0
    BY <1>4
  <2> HIDE DEF w, key
  <2>. QED  BY <1>1, <1>5, <2>1, SumGroups
<1>. QED  BY <1>6, <1>7

LEMMA ArenaAddsUp == ArenaSized => TotalIsDu
<1> SUFFICES ASSUME ArenaCharges, RootApart PROVE Total = Du(InArena \ Unknown)
  BY DEF ArenaSized, TotalIsDu
<1>1. /\ IsFiniteSet(SingleNodes) /\ IsFiniteSet(LinkedNodes) /\ IsFiniteSet(FailedNodes)
      /\ IsFiniteSet(DOMAIN nodes)
  BY FS_Subset DEF ArenaCharges, SingleNodes, LinkedNodes, FailedNodes
<1>2. Total = Sum(Sizes, DOMAIN nodes)
  BY <1>1, TotalIsSum DEF Sizes
<1>3. \A i \in DOMAIN nodes : Sizes[i] \in Nat
  BY SizesAreNumbers
<1> DEFINE known == SingleNodes \cup LinkedNodes
<1>4. Sum(Sizes, known) = Sum(Sizes, SingleNodes) + Sum(Sizes, LinkedNodes)
  <2>1. SingleNodes \cap LinkedNodes = {} /\ IntOn(Sizes, known)
    BY <1>3 DEF SingleNodes, LinkedNodes, IntOn
  <2>. QED  BY <1>1, <2>1, SumUnion
<1>5. Sum(Sizes, known \cup FailedNodes) = Sum(Sizes, known) + Sum(Sizes, FailedNodes)
  <2>1. IsFiniteSet(known)
    BY <1>1, FS_Union
  <2>2. known \cap FailedNodes = {} /\ IntOn(Sizes, known \cup FailedNodes)
    BY <1>3 DEF SingleNodes, LinkedNodes, FailedNodes, IntOn
  <2> HIDE DEF known
  <2>. QED  BY <1>1, <2>1, <2>2, SumUnion
<1>6. known \cup FailedNodes = DOMAIN nodes
  BY DEF SingleNodes, LinkedNodes, FailedNodes
<1>7. Sum(Sizes, FailedNodes) = 0
  <2>1. \A i \in FailedNodes : Sizes[i] = 0
    BY DEF FailedNodes, NodeFailed, Sizes
  <2>. QED  BY <1>1, <2>1, SumZero
<1>8. Sum(Sizes, SingleNodes) \in Nat /\ Sum(Sizes, LinkedNodes) \in Nat
  <2>1. \A i \in SingleNodes \cup LinkedNodes : Sizes[i] \in Nat
    BY <1>3 DEF SingleNodes, LinkedNodes
  <2>. QED  BY <1>1, <2>1, SumNat
<1>9. Total = Sum(Sizes, SingleNodes) + Sum(Sizes, LinkedNodes)
  BY <1>2, <1>4, <1>5, <1>6, <1>7, <1>8
<1>10. Du(Kept) = Sum([e \in Entry |-> Meta[e].own], Single(Kept))
                    + Sum(Blocks(Kept), InodesOf(Kept))
  BY KeptEntries, DuIsSum
<1>. QED  BY <1>9, <1>10, SinglesAddUp, LinksAddUp DEF Kept

LEMMA TotalStep ==
  ASSUME RefInv, TotalInv, ArenaSized, [Next]_vars
  PROVE  (TotalInv /\ ArenaSized)'
<1>. TypeInv
  BY DEF RefInv, WalkInv, IdInv
<1>1. CASE Assemble
  <2>1. nodes = <<>> /\ nodes' # <<>>
    <3>1. 0 \in DOMAIN nodes'
      BY <1>1 DEF Assemble, TypeInv, TypeOK
    <3>. QED  BY <1>1, <3>1 DEF Assemble
  <2>. QED  BY <1>1, <2>1, AssembleCharges DEF TotalInv
<1>2. CASE ~Assemble
  <2>1. nodes' = nodes /\ cfg' = cfg
    BY <1>2 DEF Next, WorkerStep, Terminated, vars, shared, PopOwn, Steal, CheckActive,
       OpenDir, SkipEntry, AllocId, StatOk, StatErr, NoStatProbe, FinishEntry,
       PushChildren, PushTo, AddActive, SubActive, Publish
  <2>2. ArenaSized'
    BY <2>1 DEF ArenaSized, ArenaCharges, NodeFailed, NodeCharged, SameInode, MultiLinked, Inode
  <2>3. ASSUME nodes' = <<>> PROVE Charges'
    <3>1. nodes = <<>> /\ ((\E t \in Workers : WorkerStep(t)) \/ UNCHANGED vars)
      BY <2>3, StillWalking
    <3>2. Walking /\ Reads /\ Charges
      BY <3>1, StillWalkingInv DEF RefInv, ReadInv, TotalInv
    <3>3. CASE \E t \in Workers : WorkerStep(t)
      BY <3>2, <3>3, ChargesStep DEF Reads
    <3>4. CASE UNCHANGED vars
      <4>1. UNCHANGED <<cfg, seen, recs, local>>
        BY <3>4 DEF vars, shared, worker
      <4>. QED
        BY <3>2, <4>1 DEF Charges, SeenIsCharged, ChargedOnce, Sized, Charged, Records, Bucket,
           MultiLinked, Inode
    <3>. QED  BY <3>1, <3>3, <3>4
  <2>. QED  BY <2>2, <2>3 DEF TotalInv
<1>. QED  BY <1>1, <1>2

(***************************************************************************)
(* The blocks of a multiply-linked file are counted once, whichever worker *)
(* reaches which of its names first: the arena's total is what du counts   *)
(* for the same entries, for any tree and any schedule.                    *)
(***************************************************************************)
THEOREM ArenaTotalIsDu == Spec => []TotalIsDu
<1>1. Init => TotalInv /\ ArenaSized
  BY DEF Init, TotalInv, Charges, SeenIsCharged, ChargedOnce, Records, Bucket, ArenaSized
<1>2. RefInv /\ TotalInv /\ ArenaSized /\ [Next]_vars => (RefInv /\ TotalInv /\ ArenaSized)'
  BY RefStep, TotalStep
<1>. QED  BY RefInit, <1>1, <1>2, ArenaAddsUp, PTL DEF Spec

-----------------------------------------------------------------------------
(* The entry ceiling.                                                      *)

\* Entries that worker t will still ask an id for.
Left == [t \in Workers |-> IF pc[t] = "stat" THEN Len(todo[t]) - 1 ELSE Len(todo[t])]

(***************************************************************************)
(* What the ceiling leaves to be handed out.  Once a directory has been    *)
(* listed its entries are as good as counted, so the counter is bounded    *)
(* together with what the workers have left.                               *)
(***************************************************************************)
Budget ==
  IF cfg.max_entries <= 1
  THEN counter = 1 /\ \A t \in Workers : todo[t] = <<>>
  ELSE counter + Sum(Left, Workers) <= cfg.max_entries - 1 + InFlightMax

BudgetInv == nodes = <<>> => Budget

LEMMA EntriesSum ==
  ASSUME NEW S, S \subseteq Entry
  PROVE  EntriesIn(S) = Sum([d \in Entry |-> Len(Listing[d])], S)
<1> DEFINE f == [d \in Entry |-> Len(Listing[d])]
           Unfolds(g) == g = [s \in SUBSET S |->
                            IF s = {} THEN 0 ELSE Len(Listing[Pick(s)]) + g[s \ {Pick(s)}]]
           h == CHOOSE g : Unfolds(g)
<1>1. ASSUME NEW g PROVE Unfolds(g) <=> SumRec(f, S, g)
  <2>1. \A s \in SUBSET S : s # {} => f[Pick(s)] = Len(Listing[Pick(s)])
    BY PickIn
  <2>. QED  BY <2>1 DEF SumRec
<1>2. IsFiniteSet(S)
  BY FS_Subset, FileTreeAssumption
<1>3. Unfolds(h)
  <2>1. \E g : Unfolds(g)
    BY <1>1, <1>2, SumExists
  <2>. QED  BY <2>1
<1>4. Sum(f, S) = h[S]
  <2>1. SumRec(f, S, h)
    BY <1>1, <1>3
  <2> HIDE DEF h, f
  <2>. QED  BY <1>2, <2>1, SumByRec
<1>5. EntriesIn(S) = h[S]
  BY DEF EntriesIn, MapThenSumSet, MapThenFoldSet, Pick
<1>. QED  BY <1>4, <1>5

\* InFlightMax is a bound: there are finitely many directories.
LEMMA InFlightBound ==
  /\ InFlightMax \in Nat
  /\ \A S \in SUBSET Entry : Cardinality(S) <= NThreads => EntriesIn(S) <= InFlightMax
<1> DEFINE h == [d \in Entry |-> Len(Listing[d])]
           few == {T \in SUBSET Entry : Cardinality(T) <= NThreads}
           sums == {EntriesIn(S) : S \in few}
<1>1. \A d \in Entry : h[d] \in Nat
  BY FileTreeAssumption, LenProperties
<1>2. ASSUME NEW S \in SUBSET Entry
      PROVE  EntriesIn(S) = Sum(h, S) /\ Sum(h, S) \in Nat /\ Sum(h, S) <= Sum(h, Entry)
  <2>1. EntriesIn(S) = Sum(h, S)
    BY EntriesSum
  <2>2. IsFiniteSet(S) /\ \A d \in S : h[d] \in Nat
    BY <1>1, FS_Subset, FileTreeAssumption
  <2> HIDE DEF h
  <2>3. Sum(h, S) \in Nat
    BY <2>2, SumNat
  <2>4. Sum(h, S) <= Sum(h, Entry)
    BY <1>1, FileTreeAssumption, SumSubset
  <2>. QED  BY <2>1, <2>3, <2>4
<1>3. sums \subseteq Nat /\ sums # {} /\ Sum(h, Entry) \in Nat /\ \A n \in sums : n <= Sum(h, Entry)
  <2>1. {} \in few
    BY FS_EmptySet, WorkersAssumption
  <2> HIDE DEF h
  <2>. QED  BY <1>2, <2>1
<1>4. PICK m \in sums : \A n \in sums : n <= m
  <2> HIDE DEF sums, h
  <2>. QED  BY <1>3, LargestNumber
<1>5. InFlightMax \in sums /\ \A n \in sums : InFlightMax >= n
  <2>1. m \in sums /\ \A n \in sums : m >= n
    BY <1>3, <1>4
  <2>2. InFlightMax = CHOOSE x \in sums : \A n \in sums : x >= n
    BY DEF InFlightMax, Max
  <2> HIDE DEF sums
  <2>. QED  BY <2>1, <2>2
<1>6. \A n \in sums : n <= InFlightMax
  <2> HIDE DEF sums
  <2>. QED  BY <1>3, <1>5
<1>. QED  BY <1>3, <1>5, <1>6

\* A worker has at most the directory it reads left.
LEMMA TodoIsShort ==
  ASSUME TypeInv, TodoBelow, ItemsNamed, Fresh, NEW t \in Workers
  PROVE  /\ Len(todo[t]) \in Nat /\ item[t].dir \in Entry
         /\ Len(todo[t]) <= Len(Listing[item[t].dir]) /\ Len(Listing[item[t].dir]) \in Nat
<1> DEFINE s == todo[t]
           L == Listing[item[t].dir]
<1>1. s \in Seq(Entry) /\ IsInjective(s) /\ item[t].dir \in Entry /\ L \in Seq(Entry)
  BY TodoInDir, FileTreeAssumption DEF Fresh, TypeInv, TypeOK
<1>2. /\ Len(s) \in Nat /\ DOMAIN s = 1 .. Len(s) /\ Len(L) \in Nat /\ DOMAIN L = 1 .. Len(L)
  BY <1>1, LenProperties
<1>3. \A i \in 1 .. Len(s) : \E j \in 1 .. Len(L) : L[j] = s[i]
  BY <1>1, <1>2, TodoInDir DEF Children, ToSet
<1>4. \A i, j \in 1 .. Len(s) : s[i] = s[j] => i = j
  BY <1>1, <1>2 DEF IsInjective
<1> HIDE DEF s, L
<1> DEFINE f == [i \in 1 .. Len(s) |-> CHOOSE j \in 1 .. Len(L) : L[j] = s[i]]
<1>5. \A i \in 1 .. Len(s) : f[i] \in 1 .. Len(L) /\ L[f[i]] = s[i]
  BY <1>3
<1>6. f \in Injection(1 .. Len(s), 1 .. Len(L))
  <2>1. f \in [1 .. Len(s) -> 1 .. Len(L)]
    BY <1>5
  <2>2. \A i, j \in 1 .. Len(s) : f[i] = f[j] => i = j
    <3> HIDE DEF f
    <3>. QED  BY <1>4, <1>5
  <2> HIDE DEF f
  <2>. QED  BY <2>1, <2>2 DEF Injection, IsInjective
<1>7. Cardinality(1 .. Len(s)) <= Cardinality(1 .. Len(L))
  <2> HIDE DEF f
  <2>. QED  BY <1>2, <1>6, FS_Injection, FS_Interval
<1>8. Cardinality(1 .. Len(s)) = Len(s) /\ Cardinality(1 .. Len(L)) = Len(L)
  <2>1. \A n \in Nat : Cardinality(1 .. n) = n
    <3> TAKE n \in Nat
    <3>1. Cardinality(1 .. n) = IF 1 > n THEN 0 ELSE n - 1 + 1
      BY FS_Interval
    <3>. QED  BY <3>1
  <2>. QED  BY <1>2, <2>1
<1>. QED  BY <1>1, <1>2, <1>7, <1>8 DEF s, L

LEMMA LeftIsNat ==
  ASSUME TypeInv, NEW t \in Workers
  PROVE  Left[t] \in Nat /\ Left[t] <= Len(todo[t]) /\ (todo[t] = <<>> => Left[t] = 0)
<1>1. todo[t] \in Seq(Entry)
  BY DEF TypeInv, TypeOK
<1>2. Len(todo[t]) \in Nat /\ (todo[t] = <<>> <=> Len(todo[t]) = 0)
  BY <1>1, LenProperties, EmptySeq
<1>3. pc[t] = "stat" => todo[t] # <<>>
  BY DEF TypeInv, HoldsEntry, Stating
<1>. QED  BY <1>2, <1>3 DEF Left

LEMMA WorkersFinite == IsFiniteSet(Workers) /\ Cardinality(Workers) = NThreads
BY FS_Interval, WorkersAssumption DEF Workers

(***************************************************************************)
(* What the workers have left are entries of as many directories as there  *)
(* are workers at most, for no two read the same one.                      *)
(***************************************************************************)
LEMMA LeftFits ==
  RefInv /\ nodes = <<>> => Sum(Left, Workers) <= InFlightMax
<1> SUFFICES ASSUME RefInv, nodes = <<>> PROVE Sum(Left, Workers) <= InFlightMax
  OBVIOUS
<1>1. Walking /\ EntryOnce /\ Fresh
  BY StillWalkingInv DEF RefInv, ReadInv, Reads
<1>. /\ TypeInv /\ NoHole /\ NoClash /\ TodoBelow /\ ItemsNamed /\ ItemsReached
     /\ ParentNamed /\ EntryOnce /\ Apart /\ Fresh
  BY <1>1 DEF Walking
<1> DEFINE A == {t \in Workers : todo[t] # <<>>}
           b == [t \in A |-> item[t].dir]
           h == [d \in Entry |-> Len(Listing[d])]
           f == [t \in A |-> h[b[t]]]
           D == {b[t] : t \in A}
<1>2. \A t \in A : /\ b[t] \in Entry /\ Left[t] \in Nat /\ Left[t] <= f[t]
                   /\ f[t] \in Nat /\ f[t] = h[b[t]]
  <2> TAKE t \in A
  <2>1. /\ item[t].dir \in Entry /\ Len(todo[t]) \in Nat /\ Len(Listing[item[t].dir]) \in Nat
        /\ Len(todo[t]) <= Len(Listing[item[t].dir])
    BY TodoIsShort
  <2>2. Left[t] \in Nat /\ Left[t] <= Len(todo[t])
    BY LeftIsNat
  <2>3. f[t] = Len(Listing[item[t].dir]) /\ b[t] = item[t].dir
    BY <2>1
  <2>. QED  BY <2>1, <2>2, <2>3
<1>3. \A t, u \in A : b[t] = b[u] => t = u
  <2> SUFFICES ASSUME NEW t \in A, NEW u \in A, b[t] = b[u], t # u PROVE FALSE
    OBVIOUS
  <2>1. Busy(t) /\ Busy(u)
    BY DEF TodoBelow, Busy
  <2>2. item[t] = item[u]
    BY KnownSeqs, SameDirSameItem
  <2>. QED  BY <2>1, <2>2 DEF Apart
<1>4. IsFiniteSet(A) /\ IsFiniteSet(Workers \ A) /\ Cardinality(A) <= NThreads
  BY WorkersFinite, FS_Subset
<1>5. D \in SUBSET Entry /\ Cardinality(D) <= NThreads
  <2>1. D \in SUBSET Entry
    BY <1>2
  <2>2. Cardinality(D) <= Cardinality(A) /\ IsFiniteSet(D)
    <3> HIDE DEF b, A
    <3>. QED  BY <1>4, FiniteImage
  <2>3. Cardinality(D) \in Nat /\ Cardinality(A) \in Nat
    BY <1>4, <2>2, FS_CardinalityType
  <2>. QED  BY <1>4, <2>1, <2>2, <2>3, WorkersAssumption
<1>6. Sum(Left, Workers) = Sum(Left, A) + Sum(Left, Workers \ A)
  <2>1. A \cup (Workers \ A) = Workers /\ A \cap (Workers \ A) = {}
    OBVIOUS
  <2>2. IntOn(Left, A \cup (Workers \ A))
    BY <2>1, LeftIsNat DEF IntOn
  <2>3. Sum(Left, A \cup (Workers \ A)) = Sum(Left, A) + Sum(Left, Workers \ A)
    <3> HIDE DEF A
    <3>. QED  BY <1>4, <2>1, <2>2, SumUnion
  <2>. QED  BY <2>1, <2>3
<1>7. Sum(Left, Workers \ A) = 0
  <2>1. \A t \in Workers \ A : Left[t] = 0
    BY LeftIsNat
  <2> HIDE DEF A
  <2>. QED  BY <1>4, <2>1, SumZero
<1>8. Sum(Left, A) <= Sum(f, A) /\ Sum(Left, A) \in Nat /\ Sum(f, A) \in Nat
  <2> HIDE DEF f, h, b, A
  <2>1. IntOn(Left, A) /\ IntOn(f, A)
    BY <1>2 DEF IntOn
  <2>. QED  BY <1>2, <1>4, <2>1, SumMonotone, SumNat
<1>9. Sum(h, D) = Sum(f, A)
  <2> HIDE DEF f, h, b, A
  <2>1. \A t \in A : f[t] = h[b[t]] /\ f[t] \in Int
    BY <1>2
  <2>. QED  BY <1>3, <1>4, <2>1, SumImage
<1>10. Sum(h, D) <= InFlightMax /\ InFlightMax \in Nat
  <2>1. EntriesIn(D) = Sum(h, D)
    <3> HIDE DEF D
    <3>. QED  BY <1>5, EntriesSum
  <2>. QED  BY <1>5, <2>1, InFlightBound
<1> HIDE DEF f, h, b, A, D
<1>. QED  BY <1>6, <1>7, <1>8, <1>9, <1>10

\* A worker that takes an entry off has one less left.
LEMMA OneLessLeft ==
  ASSUME TypeInv, NEW t \in Workers, NEW l, l \in [Workers -> Nat],
         l[t] = Left[t] - 1, \A u \in Workers \ {t} : l[u] = Left[u]
  PROVE  Sum(l, Workers) = Sum(Left, Workers) - 1 /\ Sum(Left, Workers) \in Nat
<1>1. \A u \in Workers : Left[u] \in Nat /\ l[u] \in Nat
  BY LeftIsNat
<1>2. IntOn(l, Workers) /\ IntOn(Left, Workers) /\ IntOn(l, Workers \ {t})
  BY <1>1 DEF IntOn
<1>3. /\ Sum(l, Workers) = l[t] + Sum(l, Workers \ {t})
      /\ Sum(Left, Workers) = Left[t] + Sum(Left, Workers \ {t})
  BY <1>2, WorkersFinite, SumRemove
<1>4. IsFiniteSet(Workers \ {t})
  BY WorkersFinite, FS_Subset
<1>5. Sum(l, Workers \ {t}) = Sum(Left, Workers \ {t})
  BY <1>4, SumSame
<1>6. Sum(l, Workers \ {t}) \in Int /\ Sum(Left, Workers) \in Nat
  BY <1>1, <1>2, <1>4, SumInt, SumNat, WorkersFinite
<1>. QED  BY <1>1, <1>3, <1>5, <1>6

\* The steps that leave alone what there is left to ask an id for.
LEMMA LeftStays ==
  ASSUME TypeInv, NEW t \in Workers, todo' = todo, NEW p,
         pc' = [pc EXCEPT ![t] = p], pc[t] # "stat", p # "stat"
  PROVE  Left' = Left
<1>1. pc \in [Workers -> Pc]
  BY DEF TypeInv, TypeOK
<1>2. \A u \in Workers : (pc'[u] = "stat") <=> (pc[u] = "stat")
  BY <1>1
<1>. QED  BY <1>2 DEF Left

LEMMA LeftType == TypeInv => Left \in [Workers -> Nat]
<1> SUFFICES ASSUME TypeInv PROVE Left \in [Workers -> Nat]
  OBVIOUS
<1>1. \A u \in Workers : Left[u] \in Nat
  BY LeftIsNat
<1>2. Left = [u \in Workers |-> Left[u]]
  BY DEF Left
<1>. QED  BY <1>1, <1>2

LEMMA BudgetStep ==
  ASSUME RefInv, RefInv', nodes = <<>>, nodes' = <<>>, Budget, NEW t \in Workers, WorkerStep(t)
  PROVE  Budget'
<1>. /\ TypeInv /\ TypeInv' /\ TypeOK /\ cfg.max_entries \in Nat /\ counter \in Nat \ {0}
     /\ counter' \in Nat \ {0}
  BY DEF RefInv, WalkInv, IdInv, TypeInv, TypeOK, CfgType
<1>1. cfg' = cfg /\ InFlightMax \in Nat
  BY ConfigStays, InFlightBound
<1>2. Left \in [Workers -> Nat] /\ Left' \in [Workers -> Nat]
  <2>1. (TypeInv => Left \in [Workers -> Nat])'
    BY LeftType, PTL
  <2>. QED  BY <2>1, LeftType
<1>3. Sum(Left, Workers) \in Nat /\ Sum(Left', Workers) \in Nat
  BY <1>2, SumNat, WorkersFinite
<1>4. CASE cfg.max_entries <= 1
  <2>1. counter = 1 /\ \A u \in Workers : todo[u] = <<>>
    BY <1>4 DEF Budget
  <2>2. ~(StatOk(t) \/ StatErr(t) \/ NoStatProbe(t))
    BY <2>1, HandlingStep
  <2>3. ~MayDescend(t)
    BY <1>4, <2>1 DEF MayDescend
  <2>4. counter' = counter /\ todo' = todo
    BY <2>1, <2>2, <2>3 DEF WorkerStep, PopOwn, Steal, CheckActive, OpenDir,
       SkipEntry, AllocId, PushChildren, PushTo, AddActive, SubActive, Publish, shared
  <2>. QED  BY <1>1, <1>4, <2>1, <2>4 DEF Budget
<1>5. CASE ~(cfg.max_entries <= 1)
  <2>1. counter + Sum(Left, Workers) <= cfg.max_entries - 1 + InFlightMax
    BY <1>5 DEF Budget
  <2> SUFFICES counter' + Sum(Left', Workers) <= cfg.max_entries - 1 + InFlightMax
    <3>1. Budget' <=> counter' + Sum(Left', Workers) <= cfg.max_entries - 1 + InFlightMax
      BY <1>1, <1>5 DEF Budget
    <3>. QED  BY <3>1
  <2>2. CASE counter' = counter /\ Left' = Left
    BY <2>1, <2>2
  <2>3. CASE StatOk(t) \/ StatErr(t) \/ NoStatProbe(t)
    <3>1. PICK own \in Nat, descend \in BOOLEAN : FinishEntry(t, own, descend)
      BY <2>3, HandlingStep, ZenonT(20)
    <3>2. pc[t] = "stat" /\ todo[t] # <<>> /\ todo[t] \in Seq(Entry)
      BY <2>3, HandlingStep DEF TypeOK
    <3>3. Len(Tail(todo[t])) = Len(todo[t]) - 1
      BY <3>2
    <3>4. counter' = counter /\ pc' = [pc EXCEPT ![t] = "entry"]
          /\ todo' = [todo EXCEPT ![t] = Tail(todo[t])]
      BY <3>1 DEF FinishEntry
    <3>5. \A u \in Workers : Left'[u] = Left[u]
      BY <3>2, <3>3, <3>4 DEF Left, TypeOK
    <3>. QED  BY <1>2, <2>2, <3>4, <3>5
  <2>4. CASE AllocId(t)
    <3>1. counter' = counter + 1 /\ pc[t] = "entry" /\ pc' = [pc EXCEPT ![t] = "stat"]
          /\ todo' = todo
      BY <2>4 DEF AllocId
    <3>2. Left'[t] = Left[t] - 1 /\ \A u \in Workers \ {t} : Left'[u] = Left[u]
      BY <3>1 DEF Left, TypeOK
    <3>3. Sum(Left', Workers) = Sum(Left, Workers) - 1
      <4>1. PICK l : l = Left'
        OBVIOUS
      <4>. QED  BY <1>2, <3>2, <4>1, OneLessLeft
    <3>4. counter' + Sum(Left', Workers) = counter + Sum(Left, Workers)
      BY <1>3, <3>1, <3>3
    <3>. QED  BY <2>1, <3>4
  <2>5. CASE SkipEntry(t)
    <3>1. /\ counter' = counter /\ pc[t] = "entry" /\ pc' = pc
          /\ todo[t] # <<>> /\ todo' = [todo EXCEPT ![t] = Tail(todo[t])]
      BY <2>5 DEF SkipEntry, shared
    <3>2. Len(Tail(todo[t])) = Len(todo[t]) - 1
      BY <3>1 DEF TypeOK
    <3>3. Left'[t] = Left[t] - 1 /\ \A u \in Workers \ {t} : Left'[u] = Left[u]
      BY <3>1, <3>2 DEF Left, TypeOK
    <3>4. Sum(Left', Workers) = Sum(Left, Workers) - 1
      <4>1. PICK l : l = Left'
        OBVIOUS
      <4>. QED  BY <1>2, <3>3, <4>1, OneLessLeft
    <3>5. counter' + Sum(Left', Workers) <= counter + Sum(Left, Workers)
      BY <1>3, <3>1, <3>4
    <3>. QED  BY <1>1, <1>3, <2>1, <3>1, <3>5
  <2>6. CASE OpenDir(t)
    <3>1. counter' = counter /\ pc[t] = "guard" /\ pc' = [pc EXCEPT ![t] = "entry"]
      BY <2>6 DEF OpenDir, shared
    <3>2. CASE todo' = todo
      <4>1. Left' = Left
        BY <3>1, <3>2, LeftStays
      <4>. QED  BY <2>2, <3>1, <4>1
    <3>3. CASE todo' # todo
      <4>1. counter < cfg.max_entries
        BY <2>6, <3>3 DEF OpenDir, MayDescend
      <4>2. Sum(Left', Workers) <= InFlightMax
        <5>1. (RefInv /\ nodes = <<>> => Sum(Left, Workers) <= InFlightMax)'
          BY LeftFits, PTL
        <5>. QED  BY <5>1
      <4>. QED  BY <1>1, <1>3, <3>1, <4>1, <4>2
    <3>. QED  BY <3>2, <3>3
  <2>7. CASE /\ ~(StatOk(t) \/ StatErr(t) \/ NoStatProbe(t))
             /\ ~AllocId(t) /\ ~SkipEntry(t) /\ ~OpenDir(t)
    <3>1. counter' = counter /\ todo' = todo
      BY <2>7 DEF WorkerStep, PopOwn, Steal, CheckActive, PushChildren, PushTo,
         AddActive, SubActive, Publish, shared
    <3>2. \E p : p # "stat" /\ (pc' = [pc EXCEPT ![t] = p] \/ pc' = pc) /\ pc[t] # "stat"
      BY <2>7 DEF WorkerStep, PopOwn, Steal, CheckActive, PushChildren, PushTo,
         AddActive, SubActive, Publish, shared
    <3>3. Left' = Left
      BY <3>1, <3>2, LeftStays DEF Left
    <3>. QED  BY <2>2, <3>1, <3>3
  <2>. QED  BY <2>3, <2>4, <2>5, <2>6, <2>7
<1>. QED  BY <1>4, <1>5

LEMMA BudgetBounds ==
  ASSUME RefInv, nodes = <<>>, Budget
  PROVE  OvershootBounded
<1>1. TypeInv /\ cfg.max_entries \in Nat /\ counter \in Nat /\ InFlightMax \in Nat
  BY InFlightBound DEF RefInv, WalkInv, IdInv, TypeInv, TypeOK, CfgType
<1>2. Sum(Left, Workers) \in Nat
  BY <1>1, LeftIsNat, SumNat, WorkersFinite
<1>. QED  BY <1>1, <1>2 DEF Budget, OvershootBounded

LEMMA CeilingStep ==
  ASSUME RefInv, RefInv', BudgetInv, OvershootBounded, [Next]_vars
  PROVE  (BudgetInv /\ OvershootBounded)'
<1>. TypeInv
  BY DEF RefInv, WalkInv, IdInv
<1>1. CASE nodes' = <<>>
  <2>1. nodes = <<>> /\ ((\E t \in Workers : WorkerStep(t)) \/ UNCHANGED vars)
    BY <1>1, StillWalking
  <2>2. Budget
    BY <2>1 DEF BudgetInv
  <2>3. Budget'
    <3>1. CASE \E t \in Workers : WorkerStep(t)
      BY <1>1, <2>1, <2>2, <3>1, BudgetStep
    <3>2. CASE UNCHANGED vars
      <4>1. Left' = Left
        BY <3>2 DEF Left, vars, worker
      <4>. QED  BY <2>2, <3>2, <4>1 DEF Budget, vars, shared, worker
    <3>. QED  BY <2>1, <3>1, <3>2
  <2>4. OvershootBounded'
    <3>1. (RefInv /\ nodes = <<>> /\ Budget => OvershootBounded)'
      BY BudgetBounds, PTL
    <3>. QED  BY <1>1, <2>3, <3>1
  <2>. QED  BY <2>3, <2>4 DEF BudgetInv
<1>2. CASE nodes' # <<>>
  <2>1. counter' = counter /\ cfg' = cfg
    <3>1. nodes = <<>> => Assemble
      BY <1>2 DEF Next, WorkerStep, Terminated, vars, shared, PopOwn, Steal, CheckActive,
         OpenDir, SkipEntry, AllocId, StatOk, StatErr, NoStatProbe, FinishEntry,
         PushChildren, PushTo, AddActive, SubActive, Publish
    <3>2. nodes # <<>> => UNCHANGED vars
      BY DEF Next, WorkerStep, Terminated, vars, TypeInv, Ended, PopOwn, Steal, CheckActive,
         OpenDir, SkipEntry, AllocId, StatOk, StatErr, NoStatProbe,
         PushChildren, PushTo, AddActive, SubActive, Publish, Assemble
    <3>. QED  BY <3>1, <3>2 DEF Assemble, vars, shared
  <2>. QED  BY <1>2, <2>1 DEF BudgetInv, OvershootBounded
<1>. QED  BY <1>1, <1>2

LEMMA CeilingInit == Init => BudgetInv /\ OvershootBounded
<1> SUFFICES ASSUME Init PROVE Budget /\ OvershootBounded
  BY DEF BudgetInv
<1>1. /\ counter = 1 /\ cfg.max_entries \in Nat /\ InFlightMax \in Nat
      /\ \A t \in Workers : todo[t] = <<>> /\ pc[t] = "own"
  BY InFlightBound, FileTreeAssumption DEF Init, CfgType
<1>2. Sum(Left, Workers) = 0
  <2>1. \A t \in Workers : Left[t] = 0
    BY <1>1, EmptySeq DEF Left
  <2>. QED  BY <2>1, SumZero, WorkersFinite
<1>. QED  BY <1>1, <1>2 DEF Budget, OvershootBounded

(***************************************************************************)
(* The entry ceiling is passed by what the workers were reading when it    *)
(* was reached and by no more, however they shared the tree out: by the    *)
(* entries of as many directories as there are workers.                    *)
(***************************************************************************)
THEOREM CeilingHolds == Spec => []OvershootBounded
<1>1. RefInv /\ BudgetInv /\ OvershootBounded /\ [Next]_vars
        => (RefInv /\ BudgetInv /\ OvershootBounded)'
  BY RefStep, CeilingStep
<1>. QED  BY RefInit, CeilingInit, <1>1, PTL DEF Spec

=============================================================================
