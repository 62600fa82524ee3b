--------------------------- MODULE CleanerProofs ---------------------------
(***************************************************************************)
(* Only what was listed is removed, whatever the folders, links and other  *)
(* programs are; undisturbed, each item is accounted for, and the bytes    *)
(* said to be reclaimed are those of the files that are gone.              *)
(***************************************************************************)
EXTENDS Cleaner, DataLemmas

IsSeq(s) == \E S : s \in Seq(S)

\* What the argument needs to know of the types.
Types ==
  /\ IsSeq(report)
  /\ DOMAIN result = {"reclaimed", "deleted", "errors"}
  /\ result.deleted \in Nat
  /\ IsSeq(result.errors)

Inv == Types /\ OnlyListedGoes

-----------------------------------------------------------------------------

LEMMA AppendIsSeq ==
  ASSUME NEW s, IsSeq(s), NEW e
  PROVE  /\ IsSeq(Append(s, e))
         /\ {s[i] : i \in DOMAIN s} \subseteq {Append(s, e)[i] : i \in DOMAIN Append(s, e)}
<1>1. PICK S : s \in Seq(S)
  BY DEF IsSeq
<1> DEFINE T == S \cup {e}
<1>2. s \in Seq(T) /\ e \in T
  BY <1>1
<1> HIDE DEF T
<1>3. Append(s, e) \in Seq(T)
  BY <1>2
<1>4. DOMAIN s \subseteq DOMAIN Append(s, e) /\ \A i \in DOMAIN s : Append(s, e)[i] = s[i]
  BY <1>2
<1> QED
  BY <1>3, <1>4 DEF IsSeq

\* The item that is removed is one of the list.
LEMMA CurrentIsListed ==
  ASSUME Types, Executing("apply")
  PROVE  Current.path \in ItemPaths
<1>1. \A s : IsSeq(s) => Len(s) \in Nat /\ DOMAIN s = 1 .. Len(s)
  BY DEF IsSeq
<1>2. Handled \in Nat /\ Len(report) \in Nat /\ DOMAIN report = 1 .. Len(report)
  BY <1>1 DEF Types, Handled
<1>3. Handled + 1 \in DOMAIN report
  BY <1>2 DEF Executing
<1> QED
  BY <1>3 DEF Current, ItemPaths

LEMMA DoomedIsListed ==
  ASSUME Types, Executing("apply")
  PROVE  Doomed(Current) \subseteq ItemPaths \cup UNION {Below(p) : p \in ItemPaths}
<1>1. Current.path \in ItemPaths
  BY CurrentIsListed
<1> QED
  BY <1>1 DEF Doomed

\* A step that removes q, or nothing, and leaves the list alone.
LEMMA RemovalKeeps ==
  ASSUME OnlyListedGoes, UNCHANGED <<mode, report>>,
         \/ gone' = gone
         \/ /\ mode = "apply"
            /\ \E q \in ItemPaths \cup UNION {Below(p) : p \in ItemPaths} :
                 gone' = gone \cup {q}
  PROVE  OnlyListedGoes'
<1>1. ItemPaths' = ItemPaths
  BY DEF ItemPaths
<1>2. \A p : Below(p)' = Below(p)
  BY DEF Below
<1> QED
  BY <1>1, <1>2 DEF OnlyListedGoes

LEMMA InitInv == Init => Inv
<1> SUFFICES ASSUME Init PROVE Inv
  OBVIOUS
<1>1. IsSeq(<<>>)
  BY DEF IsSeq
<1>2. Types
  BY <1>1 DEF Init, Types, NoResult
<1> QED
  BY <1>2 DEF Init, Inv, OnlyListedGoes

LEMMA LookKeeps ==
  ASSUME Inv, NEW p \in Candidates, Look(p)
  PROVE  Inv'
<1>1. PICK e : report' \in {report, Append(report, e)}
  BY DEF Look
<1>2. /\ IsSeq(report')
      /\ {report[i] : i \in DOMAIN report} \subseteq {report'[i] : i \in DOMAIN report'}
  <2>1. IsSeq(report)
    BY DEF Inv, Types
  <2>2. CASE report' = report
    BY <2>1, <2>2
  <2>3. CASE report' = Append(report, e)
    BY <2>1, <2>3, AppendIsSeq
  <2> QED
    BY <1>1, <2>2, <2>3
<1>3. Types'
  BY <1>2 DEF Look, Inv, Types
<1>4. ItemPaths \subseteq ItemPaths'
  BY <1>2 DEF ItemPaths
<1>5. \A q : Below(q)' = Below(q)
  BY DEF Below
<1>6. OnlyListedGoes'
  BY <1>4, <1>5 DEF Look, Inv, OnlyListedGoes
<1> QED
  BY <1>3, <1>6 DEF Inv

\* The result of one more item.
LEMMA ResultKeeps ==
  ASSUME Types, NEW item, report' = report,
         result' \in {result, Reclaimed(item), Failed(item)}
  PROVE  Types'
<1>1. CASE result' = result
  BY <1>1 DEF Types
<1>2. CASE result' = Reclaimed(item)
  BY <1>2 DEF Types, Reclaimed
<1>3. CASE result' = Failed(item)
  <2>1. IsSeq(Append(result.errors, item.path))
    BY AppendIsSeq DEF Types
  <2> QED
    BY <1>3, <2>1 DEF Types, Failed
<1> QED
  BY <1>1, <1>2, <1>3

(***************************************************************************)
(* OnlyListedGoes for every file system: nothing is removed but the listed *)
(* paths and what is in these folders, and nothing without --apply.        *)
(***************************************************************************)
THEOREM NothingElseGoes == Spec => []OnlyListedGoes
<1>1. Inv /\ [Next]_vars => Inv'
  <2> SUFFICES ASSUME Inv, [Next]_vars PROVE Inv'
    OBVIOUS
  <2>1. CASE \E p \in Candidates \ seen : Look(p)
    BY <2>1, LookKeeps
  <2>2. CASE CountOnly
    BY <2>2, ResultKeeps, RemovalKeeps DEF CountOnly, Inv
  <2>3. ASSUME NEW q \in Path, RemoveInside(q) PROVE Inv'
    <3>1. q \in ItemPaths \cup UNION {Below(p) : p \in ItemPaths}
      BY <2>3, DoomedIsListed DEF RemoveInside, Inv
    <3>2. OnlyListedGoes'
      BY <2>3, <3>1, RemovalKeeps DEF RemoveInside, Inv, Executing
    <3>3. Types'
      BY <2>3, ResultKeeps DEF RemoveInside, Inv
    <3> QED
      BY <3>2, <3>3 DEF Inv
  <2>4. CASE RemoveItem
    <3>1. Current.path \in ItemPaths
      BY <2>4, CurrentIsListed DEF RemoveItem, Inv
    <3>2. OnlyListedGoes'
      BY <2>4, <3>1, RemovalKeeps DEF RemoveItem, Inv, Executing
    <3>3. Types'
      BY <2>4, ResultKeeps DEF RemoveItem, Inv
    <3> QED
      BY <3>2, <3>3 DEF Inv
  <2>5. CASE RemoveFails
    BY <2>5, ResultKeeps, RemovalKeeps DEF RemoveFails, Inv
  <2>6. CASE Listed \/ End \/ (\E p \in Path : Other(p)) \/ UNCHANGED vars
    <3>1. UNCHANGED <<mode, report, result, gone>>
      BY <2>6 DEF Listed, End, Other, vars
    <3> QED
      BY <3>1, ResultKeeps, RemovalKeeps DEF Inv
  <2> QED
    BY <2>1, <2>2, <2>3, <2>4, <2>5, <2>6 DEF Next, Exited
<1>2. Inv => OnlyListedGoes
  BY DEF Inv
<1> QED
  BY InitInv, <1>1, <1>2, PTL DEF Spec

-----------------------------------------------------------------------------
(* The items and their sizes.                                              *)

ItemSet == [path : Path, isDir : BOOLEAN, bytes : Nat]

Files(p) == {q \in fs \cap Below(p) : Kind[q] # "dir"}

LEMMA PathsAreFinite ==
  ASSUME NEW S \in SUBSET Path
  PROVE  IsFiniteSet(S) /\ IntOn(Len1, S) /\ Sum(Len1, S) \in Nat
<1>1. IsFiniteSet(S)
  BY FS_Subset, TreeAssumption
<1>2. \A q \in S : Len1[q] \in Nat
  BY CleanerAssumption
<1>. QED  BY <1>1, <1>2, SumNat DEF IntOn

SizesAreSums == \A p : DirSize(p) = Sum(Len1, Files(p))

LEMMA DirSizeSums == SizesAreSums
BY DEF SizesAreSums, DirSize, SumOf, Sum, Files

LEMMA DirSizeIsSum ==
  ASSUME fs \subseteq Path, NEW p
  PROVE  DirSize(p) = Sum(Len1, Files(p)) /\ DirSize(p) \in Nat /\ Files(p) \subseteq Path
<1>1. DirSize(p) = Sum(Len1, Files(p))
  BY DirSizeSums DEF SizesAreSums
<1>2. Files(p) \in SUBSET Path
  BY DEF Files
<1>3. Sum(Len1, Files(p)) \in Nat
  BY <1>2, PathsAreFinite
<1>. QED  BY <1>1, <1>2, <1>3

LEMMA ItemIsTyped ==
  ASSUME fs \subseteq Path, NEW p \in Candidates
  PROVE  /\ Item(p) \in ItemSet /\ Item(p).path = p
         /\ Lists(p) => (Item(p).isDir => Item(p).bytes > 0)
<1>1. p \in Path /\ Target[p] \in Path /\ Len1[Target[p]] \in Nat
  BY CleanerAssumption DEF Candidates
<1>2. DirSize(Target[p]) \in Nat
  BY DirSizeIsSum
<1>3. CacheItem(p) \in ItemSet /\ CacheItem(p).path = p
  BY <1>1, <1>2 DEF CacheItem, ItemSet, IsDir
<1>4. TempItem(p) \in ItemSet /\ TempItem(p).path = p
  BY <1>1, <1>2 DEF TempItem, ItemSet, IsDir
<1>5. LogItem(p) \in ItemSet /\ LogItem(p).path = p /\ LogItem(p).isDir = FALSE
  BY <1>1 DEF LogItem, ItemSet
<1>6. p \in Logs => Item(p).isDir = FALSE
  BY <1>5, CleanerAssumption DEF Item
<1>7. Item(p) \in {CacheItem(p), TempItem(p), LogItem(p)}
  BY DEF Item
<1>. QED  BY <1>3, <1>4, <1>5, <1>6, <1>7 DEF Lists

\* Less is listed as files go.
LEMMA ListsLess ==
  ASSUME fs \subseteq Path, fs' \subseteq fs, NEW c \in Candidates, Lists(c)'
  PROVE  Lists(c)
<1>0. SizesAreSums'
  BY DirSizeSums, PTL
<1>1. \A q : DirSize(q)' <= DirSize(q) /\ DirSize(q)' \in Nat /\ DirSize(q) \in Nat
  <2> TAKE q
  <2>1. PICK S, R : S = Files(q) /\ R = Files(q)'
    OBVIOUS
  <2>2. R \subseteq S /\ S \in SUBSET Path
    BY <2>1 DEF Files, Below
  <2>3. Sum(Len1, R) <= Sum(Len1, S)
    <3>1. IsFiniteSet(S) /\ \A x \in S : Len1[x] \in Nat
      BY <2>2, PathsAreFinite, CleanerAssumption
    <3>. QED  BY <2>2, <3>1, SumSubset
  <2>4. Sum(Len1, R) \in Nat /\ Sum(Len1, S) \in Nat
    BY <2>2, PathsAreFinite
  <2>5. DirSize(q) = Sum(Len1, S)
    BY <2>1, DirSizeIsSum
  <2>6. DirSize(q)' = Sum(Len1, R)
    BY <1>0, <2>1 DEF SizesAreSums
  <2>. QED  BY <2>3, <2>4, <2>5, <2>6
<1>2. Resolves(c)
  BY DEF Lists, Resolves
<1>3. CASE c \in Logs
  BY <1>2, <1>3 DEF Lists
<1>4. CASE c \notin Logs
  <2>1. Item(c).bytes > 0 \/ ~(Item(c)'.bytes > 0)
    BY <1>1, <1>4 DEF Item, CacheItem, TempItem, IsDir
  <2>2. Item(c)'.bytes > 0
    BY <1>4 DEF Lists
  <2>. QED  BY <1>2, <2>1, <2>2 DEF Lists
<1>. QED  BY <1>3, <1>4

-----------------------------------------------------------------------------
(* The accounts.                                                           *)

AccountTypes ==
  /\ fs \subseteq Path /\ gone \subseteq Path /\ seen \subseteq Candidates /\ denied \subseteq Locked
  /\ pc \in {"scan", "execute", "done"} /\ others \in 0 .. MaxOther
  /\ report \in Seq(ItemSet)
  /\ result \in [reclaimed : Nat, deleted : Nat, errors : Seq(Path)]

\* The list names each candidate once.
ListInv ==
  /\ \A k \in DOMAIN report : report[k].path \in seen /\ (report[k].isDir => report[k].bytes > 0)
  /\ \A j, k \in DOMAIN report : report[j].path = report[k].path => j = k

ProgressInv ==
  /\ Handled <= Len(report)
  /\ pc = "scan" => result = NoResult
  /\ pc = "done" /\ mode # "list" => Handled = Len(report)
  /\ pc = "done" /\ mode # "list" => seen = Candidates
  /\ pc = "execute" => seen = Candidates
  /\ result.reclaimed <= Sum(Bytes, 1 .. Handled)

\* The items handled that are among the errors.
InError == {k \in 1 .. Handled : report[k].path \in ErrorPaths}

QuietInv ==
  Quiet /\ Apart /\ mode = "apply" =>
    /\ \A k \in DOMAIN report : k > Handled => report[k].path \in fs
    /\ \A k \in 1 .. Handled : report[k].path \in fs <=> report[k].path \in ErrorPaths
    /\ ErrorPaths \subseteq {report[k].path : k \in 1 .. Handled}
    /\ \A p \in seen : Lists(p) => p \in ItemPaths
    /\ result.reclaimed + Sum(Bytes, InError) = Sum(Bytes, 1 .. Handled)

AInv == AccountTypes /\ ListInv /\ ProgressInv /\ QuietInv

LEMMA BytesFacts ==
  ASSUME AccountTypes
  PROVE  /\ Handled \in Nat /\ Len(report) \in Nat /\ DOMAIN report = 1 .. Len(report)
         /\ DOMAIN Bytes = DOMAIN report
         /\ \A k \in DOMAIN report : Bytes[k] \in Nat /\ Bytes[k] = report[k].bytes
         /\ \A k \in DOMAIN report : report[k] \in ItemSet
         /\ \A S \in SUBSET DOMAIN report :
              IsFiniteSet(S) /\ IntOn(Bytes, S) /\ Sum(Bytes, S) \in Nat
<1>1. Handled \in Nat /\ Len(report) \in Nat /\ DOMAIN report = 1 .. Len(report)
  BY DEF AccountTypes, Handled
<1>2. \A k \in DOMAIN report : report[k] \in ItemSet
  BY DEF AccountTypes
<1>3. /\ DOMAIN Bytes = DOMAIN report
      /\ \A k \in DOMAIN report : Bytes[k] \in Nat /\ Bytes[k] = report[k].bytes
  BY <1>2 DEF Bytes, ItemSet
<1>4. IsFiniteSet(DOMAIN report)
  BY <1>1, FS_Interval
<1>5. ASSUME NEW S \in SUBSET DOMAIN report
      PROVE  IsFiniteSet(S) /\ IntOn(Bytes, S) /\ Sum(Bytes, S) \in Nat
  <2>1. IsFiniteSet(S)
    BY <1>4, FS_Subset
  <2>2. \A k \in S : Bytes[k] \in Nat
    BY <1>3
  <2>. QED  BY <2>1, <2>2, SumNat DEF IntOn
<1>. QED  BY <1>1, <1>2, <1>3, <1>5

LEMMA NothingDone == result = NoResult => Handled = 0 /\ ErrorPaths = {}
<1> DEFINE e == <<>>
<1>1. e \in Seq(Path) /\ Len(e) = 0
  OBVIOUS
<1>2. result = NoResult => result.errors = e /\ result.deleted = 0
  BY DEF NoResult
<1> HIDE DEF e
<1>3. ToSet(e) = {}
  BY <1>1, ToSetOfSeq, EmptySeq
<1>. QED  BY <1>1, <1>2, <1>3 DEF Handled, ErrorPaths

LEMMA AInit == Init => AInv
<1> SUFFICES ASSUME Init PROVE AInv
  OBVIOUS
<1> DEFINE e == <<>>
<1>0. e \in Seq(ItemSet) /\ e \in Seq(Path) /\ Len(e) = 0 /\ DOMAIN e = {}
  OBVIOUS
<1>1. /\ report = e /\ result = NoResult /\ result.errors = e
      /\ result = [reclaimed |-> 0, deleted |-> 0, errors |-> e]
      /\ pc = "scan" /\ others = 0 /\ seen = {} /\ gone = {}
  BY DEF Init, NoResult
<1> HIDE DEF e
<1>2. /\ Len(report) = 0 /\ DOMAIN report = {}
      /\ result = NoResult /\ Handled = 0 /\ ErrorPaths = {}
  BY <1>0, <1>1, NothingDone
<1>7. AccountTypes
  <2>1. fs \subseteq Path /\ denied \subseteq Locked
    BY DEF Init
  <2>2. result \in [reclaimed : Nat, deleted : Nat, errors : Seq(Path)]
    BY <1>0, <1>1
  <2>3. 0 \in 0 .. MaxOther
    BY CleanerAssumption
  <2>. QED  BY <1>0, <1>1, <2>1, <2>2, <2>3 DEF AccountTypes
<1>3. ListInv
  BY <1>2 DEF ListInv
<1>4. 1 .. Handled = {} /\ InError = {} /\ Sum(Bytes, {}) = 0
  BY <1>2, SumEmpty DEF InError
<1>5. ProgressInv
  <2>1. result.reclaimed = 0
    BY <1>1
  <2>. QED  BY <1>1, <1>2, <1>4, <2>1 DEF ProgressInv
<1>6. QuietInv
  BY <1>1, <1>2, <1>4 DEF QuietInv
<1>. QED  BY <1>3, <1>5, <1>6, <1>7 DEF AInv

LEMMA LookAccounts ==
  ASSUME AInv, NEW p \in Candidates \ seen, Look(p)
  PROVE  AInv'
<1>1. /\ fs' = fs /\ denied' = denied /\ mode' = mode /\ pc' = "scan" /\ pc = "scan"
      /\ result' = result /\ gone' = gone /\ others' = others /\ seen' = seen \cup {p}
      /\ Handled' = Handled /\ ErrorPaths' = ErrorPaths /\ p \in Candidates
  BY DEF Look, Handled, ErrorPaths
<1>2. result = NoResult /\ Handled = 0 /\ ErrorPaths = {} /\ result.reclaimed = 0
  BY <1>1, NothingDone DEF AInv, ProgressInv, NoResult
<1>3. /\ Len(report) \in Nat /\ DOMAIN report = 1 .. Len(report) /\ fs \subseteq Path
      /\ report \in Seq(ItemSet)
  BY BytesFacts DEF AInv, AccountTypes
<1>4. Item(p) \in ItemSet /\ Item(p).path = p /\ (Lists(p) => (Item(p).isDir => Item(p).bytes > 0))
  BY <1>1, <1>3, ItemIsTyped
<1>5. \/ Lists(p) /\ report' = Append(report, Item(p))
      \/ ~Lists(p) /\ report' = report
  BY DEF Look
<1>6. /\ report' \in Seq(ItemSet) /\ Len(report') \in Nat /\ DOMAIN report' = 1 .. Len(report')
      /\ \A k \in DOMAIN report : k \in DOMAIN report' /\ report'[k] = report[k]
      /\ \A k \in DOMAIN report' : k \in DOMAIN report \/ (Lists(p) /\ report'[k] = Item(p) /\ k = Len(report) + 1)
      /\ Lists(p) => Len(report) + 1 \in DOMAIN report' /\ report'[Len(report) + 1] = Item(p)
  <2> HIDE DEF Item, ItemSet
  <2>1. CASE Lists(p) /\ report' = Append(report, Item(p))
    BY <1>3, <1>4, <2>1
  <2>2. CASE ~Lists(p) /\ report' = report
    BY <1>3, <2>2
  <2>. QED  BY <1>5, <2>1, <2>2
<1>7. AccountTypes'
  BY <1>1, <1>6 DEF AInv, AccountTypes
<1>8. ListInv'
  <2>1. \A k \in DOMAIN report' :
          /\ report'[k].path \in seen' /\ (report'[k].isDir => report'[k].bytes > 0)
          /\ k \in DOMAIN report => report'[k].path \in seen
          /\ k \notin DOMAIN report => report'[k].path = p /\ k = Len(report) + 1
    BY <1>1, <1>4, <1>6 DEF AInv, ListInv
  <2>2. \A j, k \in DOMAIN report' : report'[j].path = report'[k].path => j = k
    BY <1>6, <2>1 DEF AInv, ListInv
  <2>. QED  BY <2>1, <2>2 DEF ListInv
<1>9. 1 .. Handled' = {} /\ InError' = {} /\ Sum(Bytes', {}) = 0
  BY <1>1, <1>2, SumEmpty DEF InError
<1>10. ProgressInv'
  BY <1>1, <1>2, <1>6, <1>9 DEF AInv, ProgressInv
<1>11. QuietInv'
  <2> SUFFICES ASSUME Quiet, Apart, mode = "apply"
               PROVE  /\ \A k \in DOMAIN report' : report'[k].path \in fs
                      /\ \A q \in seen' : Lists(q)' => q \in ItemPaths'
    BY <1>1, <1>2, <1>9 DEF QuietInv, Quiet, Apart, Below
  <2>1. \A k \in DOMAIN report' : report'[k].path \in fs
    <3>1. \A k \in DOMAIN report : report[k].path \in fs
      BY <1>2, <1>3 DEF AInv, QuietInv
    <3>2. Lists(p) => p \in fs
      BY DEF Lists, Resolves
    <3>. QED  BY <1>4, <1>6, <3>1, <3>2
  <2>2. ASSUME NEW q \in seen', Lists(q)' PROVE q \in ItemPaths'
    <3>1. q \in Candidates
      BY <1>1 DEF AInv, AccountTypes
    <3>2. Lists(q)
      BY <1>1, <1>3, <2>2, <3>1, ListsLess
    <3>3. CASE q = p
      BY <1>4, <1>6, <3>2, <3>3 DEF ItemPaths
    <3>4. CASE q \in seen
      <4>1. q \in ItemPaths
        BY <3>2, <3>4 DEF AInv, QuietInv
      <4>. QED  BY <1>6, <4>1 DEF ItemPaths
    <3>. QED  BY <1>1, <2>2, <3>3, <3>4
  <2>. QED  BY <2>1, <2>2
<1>. QED  BY <1>7, <1>8, <1>10, <1>11 DEF AInv

\* The item at hand, its place, and what it adds.
LEMMA AtHand ==
  ASSUME AInv, NEW m, Executing(m)
  PROVE  /\ Handled + 1 \in DOMAIN report /\ Current = report[Handled + 1]
         /\ Current \in ItemSet /\ Current.path \in Candidates
         /\ \A k \in 1 .. Handled : k \in DOMAIN report /\ report[k].path # Current.path
         /\ \A k \in DOMAIN report : k # Handled + 1 => report[k].path # Current.path
         /\ 1 .. Handled + 1 = (1 .. Handled) \cup {Handled + 1}
         /\ Sum(Bytes, 1 .. Handled + 1) = Current.bytes + Sum(Bytes, 1 .. Handled)
         /\ Sum(Bytes, 1 .. Handled) \in Nat /\ Current.bytes \in Nat
         /\ Handled \in Nat /\ Handled + 1 <= Len(report)
<1>1. /\ Handled \in Nat /\ Len(report) \in Nat /\ DOMAIN report = 1 .. Len(report)
      /\ \A k \in DOMAIN report : Bytes[k] \in Nat /\ Bytes[k] = report[k].bytes
      /\ \A k \in DOMAIN report : report[k] \in ItemSet
      /\ Handled < Len(report)
  BY BytesFacts DEF AInv, Executing
<1>2. \A S \in SUBSET DOMAIN report : IsFiniteSet(S) /\ IntOn(Bytes, S) /\ Sum(Bytes, S) \in Nat
  BY BytesFacts DEF AInv
<1>3. /\ Handled + 1 \in DOMAIN report /\ 1 .. Handled + 1 = (1 .. Handled) \cup {Handled + 1}
      /\ (1 .. Handled) \cup {Handled + 1} \in SUBSET DOMAIN report
      /\ 1 .. Handled \in SUBSET DOMAIN report /\ Handled + 1 \notin 1 .. Handled
  BY <1>1
<1>4. Current = report[Handled + 1] /\ Current \in ItemSet /\ Current.bytes \in Nat
  BY <1>1, <1>3 DEF Current, ItemSet
<1>5. Current.path \in Candidates
  BY <1>3, <1>4 DEF AInv, ListInv, AccountTypes
<1>6. \A k \in DOMAIN report : k # Handled + 1 => report[k].path # Current.path
  BY <1>3, <1>4 DEF AInv, ListInv
<1>7. Sum(Bytes, (1 .. Handled) \cup {Handled + 1}) = Bytes[Handled + 1] + Sum(Bytes, 1 .. Handled)
  BY <1>2, <1>3, SumAdd
<1>8. Sum(Bytes, 1 .. Handled + 1) = Current.bytes + Sum(Bytes, 1 .. Handled)
  BY <1>1, <1>3, <1>4, <1>7
<1>9. Sum(Bytes, 1 .. Handled) \in Nat
  BY <1>2, <1>3
<1>10. \A k \in 1 .. Handled : k \in DOMAIN report /\ report[k].path # Current.path
  BY <1>1, <1>3, <1>6
<1>11. Handled + 1 <= Len(report)
  BY <1>1
<1>. QED  BY <1>1, <1>3, <1>4, <1>5, <1>6, <1>8, <1>9, <1>10, <1>11

\* What removing inside the item at hand leaves of the others.
LEMMA OthersStay ==
  ASSUME AInv, Apart, Executing("apply"), NEW q \in Doomed(Current),
         NEW k \in DOMAIN report, report[k].path = q
  PROVE  k = Handled + 1
<1>1. report[k].path \in Candidates
  BY DEF AInv, ListInv, AccountTypes
<1>2. Current.path \in Candidates /\ \A j \in DOMAIN report : j # Handled + 1 => report[j].path # Current.path
  BY AtHand
<1>3. q = Current.path \/ q \in Below(Current.path)
  BY DEF Doomed
<1>4. q = Current.path
  BY <1>1, <1>2, <1>3 DEF Apart
<1>. QED  BY <1>2, <1>4

\* One more item is done, with this result.
LEMMA ItemDone ==
  ASSUME AInv, NEW m, Executing(m), UNCHANGED <<denied, mode, pc, seen, report, others>>,
         fs' \subseteq fs, gone' \subseteq Path,
         \/ result' = Reclaimed(Current)
         \/ result' = Failed(Current)
  PROVE  /\ AccountTypes' /\ ListInv' /\ ProgressInv'
         /\ Handled' = Handled + 1
         /\ result' = Reclaimed(Current) =>
              result'.reclaimed = result.reclaimed + Current.bytes /\ ErrorPaths' = ErrorPaths
         /\ result' = Failed(Current) =>
              result'.reclaimed = result.reclaimed /\ ErrorPaths' = ErrorPaths \cup {Current.path}
<1>1. /\ result \in [reclaimed : Nat, deleted : Nat, errors : Seq(Path)]
      /\ Current.bytes \in Nat /\ Current.path \in Path
  <2>1. Current \in ItemSet /\ Current.bytes \in Nat
    BY AtHand
  <2>. QED  BY <2>1 DEF AInv, AccountTypes, ItemSet
<1>2. PICK b \in Nat, e \in Path : b = Current.bytes /\ e = Current.path
  BY <1>1
<1>3. PICK errs \in Seq(Path) : errs = result.errors
  BY <1>1
<1>4. /\ Append(errs, e) \in Seq(Path) /\ Len(Append(errs, e)) = Len(errs) + 1
      /\ Len(errs) \in Nat /\ ToSet(Append(errs, e)) = ToSet(errs) \cup {e}
  BY AppendApart
<1>5. Reclaimed(Current)
        = [reclaimed |-> result.reclaimed + b, deleted |-> result.deleted + 1, errors |-> errs]
  <2>1. PICK rr \in Nat, dd \in Nat : rr = result.reclaimed /\ dd = result.deleted
    BY <1>1
  <2>2. result = [reclaimed |-> rr, deleted |-> dd, errors |-> errs]
    BY <1>1, <1>3, <2>1
  <2>3. Reclaimed(Current) = [result EXCEPT !.reclaimed = rr + b, !.deleted = dd + 1]
    BY <1>2, <2>1 DEF Reclaimed
  <2>4. Reclaimed(Current) = [reclaimed |-> rr + b, deleted |-> dd + 1, errors |-> errs]
    BY <2>2, <2>3
  <2>. QED  BY <2>1, <2>4
<1>6. Failed(Current) = [result EXCEPT !.errors = Append(errs, e)]
  BY <1>2, <1>3 DEF Failed
<1>7. /\ result' \in [reclaimed : Nat, deleted : Nat, errors : Seq(Path)]
      /\ Handled' = Handled + 1
      /\ result' = Reclaimed(Current) =>
           result'.reclaimed = result.reclaimed + b /\ ErrorPaths' = ErrorPaths
      /\ result' = Failed(Current) =>
           result'.reclaimed = result.reclaimed /\ ErrorPaths' = ErrorPaths \cup {e}
  <2>1. CASE result' = Reclaimed(Current)
    <3>1. /\ result'.reclaimed = result.reclaimed + b
          /\ result'.deleted = result.deleted + 1 /\ result'.errors = result.errors
          /\ result' \in [reclaimed : Nat, deleted : Nat, errors : Seq(Path)]
      BY <1>1, <1>3, <1>5, <2>1
    <3>2. ~(result' = Failed(Current))
      <4>1. result'.errors # Append(errs, e)
        BY <1>3, <1>4, <3>1
      <4>. QED  BY <1>1, <1>6, <4>1
    <3>3. Handled' = Handled + 1 /\ ErrorPaths' = ErrorPaths
      BY <1>1, <1>3, <1>4, <3>1 DEF Handled, ErrorPaths
    <3>. QED  BY <2>1, <3>1, <3>2, <3>3
  <2>2. CASE result' = Failed(Current)
    <3>1. /\ result'.reclaimed = result.reclaimed
          /\ result'.deleted = result.deleted /\ result'.errors = Append(errs, e)
          /\ result' \in [reclaimed : Nat, deleted : Nat, errors : Seq(Path)]
      BY <1>1, <1>4, <1>6, <2>2
    <3>2. ~(result' = Reclaimed(Current))
      <4>1. Reclaimed(Current).errors = errs
        BY <1>1, <1>3, <1>5
      <4>2. Append(errs, e) # errs
        BY <1>4
      <4>. QED  BY <3>1, <4>1, <4>2
    <3>3. Handled' = Handled + 1 /\ ErrorPaths' = ErrorPaths \cup {e}
      BY <1>1, <1>3, <1>4, <3>1 DEF Handled, ErrorPaths
    <3>. QED  BY <2>2, <3>1, <3>2, <3>3
  <2>. QED  BY <2>1, <2>2
<1>8. AccountTypes' /\ ListInv'
  BY <1>7 DEF AInv, AccountTypes, ListInv
<1>9. ProgressInv'
  <2>1. Bytes' = Bytes
    BY DEF Bytes
  <2>2. /\ Handled + 1 <= Len(report) /\ pc = "execute" /\ Handled \in Nat
        /\ Sum(Bytes, 1 .. Handled + 1) = b + Sum(Bytes, 1 .. Handled)
        /\ Sum(Bytes, 1 .. Handled) \in Nat
    BY <1>2, AtHand DEF Executing
  <2>3. /\ result.reclaimed <= Sum(Bytes, 1 .. Handled) /\ result.reclaimed \in Nat
        /\ seen = Candidates
    BY <1>1, <2>2 DEF AInv, ProgressInv
  <2>4. result'.reclaimed <= Sum(Bytes, 1 .. Handled + 1)
    <3>1. result'.reclaimed \in {result.reclaimed, result.reclaimed + b}
      BY <1>7
    <3>. QED  BY <2>2, <2>3, <3>1
  <2>. QED  BY <1>7, <2>1, <2>2, <2>3, <2>4 DEF ProgressInv
<1>. QED  BY <1>2, <1>7, <1>8, <1>9

LEMMA CountOnlyAccounts ==
  ASSUME AInv, CountOnly
  PROVE  AInv'
<1>1. /\ AccountTypes' /\ ListInv' /\ ProgressInv'
  <2>1. Executing("dry run") /\ result' = Reclaimed(Current) /\ fs' \subseteq fs /\ gone' \subseteq Path
    BY DEF CountOnly, AInv, AccountTypes
  <2>2. UNCHANGED <<denied, mode, pc, seen, report, others>>
    BY DEF CountOnly
  <2>. QED  BY <2>1, <2>2, ItemDone
<1>2. QuietInv'
  BY DEF CountOnly, Executing, QuietInv
<1>. QED  BY <1>1, <1>2 DEF AInv

LEMMA RemoveInsideAccounts ==
  ASSUME AInv, NEW q \in Path, RemoveInside(q)
  PROVE  AInv'
<1>1. /\ UNCHANGED <<denied, mode, pc, seen, report, result, others>>
      /\ fs' = fs \ {q} /\ gone' = gone \cup {q} /\ Executing("apply")
      /\ q \in Doomed(Current) /\ q # Current.path
      /\ Bytes' = Bytes /\ Handled' = Handled /\ ErrorPaths' = ErrorPaths
      /\ ItemPaths' = ItemPaths /\ InError' = InError
  BY DEF RemoveInside, Bytes, Handled, ErrorPaths, ItemPaths, InError
<1>2. AccountTypes' /\ ListInv' /\ ProgressInv'
  BY <1>1 DEF AInv, AccountTypes, ListInv, ProgressInv
<1>3. QuietInv'
  <2> SUFFICES ASSUME Quiet, Apart, mode = "apply"
               PROVE  /\ \A k \in DOMAIN report : k > Handled => report[k].path \in fs'
                      /\ \A k \in 1 .. Handled : report[k].path \in fs' <=> report[k].path \in ErrorPaths
                      /\ ErrorPaths \subseteq {report[k].path : k \in 1 .. Handled}
                      /\ \A p \in seen : Lists(p)' => p \in ItemPaths
                      /\ result.reclaimed + Sum(Bytes, InError) = Sum(Bytes, 1 .. Handled)
    BY <1>1 DEF QuietInv, Quiet, Apart, Below
  <2>1. \A k \in DOMAIN report : report[k].path # q
    <3>1. \A k \in DOMAIN report : report[k].path = q => k = Handled + 1
      BY <1>1, OthersStay
    <3>2. Current = report[Handled + 1]
      BY DEF Current
    <3>. QED  BY <1>1, <3>1, <3>2
  <2>2. 1 .. Handled \subseteq DOMAIN report
    BY <1>1, AtHand
  <2>3. \A p \in seen : Lists(p)' => Lists(p)
    <3>1. fs \subseteq Path /\ fs' \subseteq fs /\ seen \subseteq Candidates
      BY <1>1 DEF AInv, AccountTypes
    <3>. QED  BY <3>1, ListsLess
  <2>. QED  BY <1>1, <2>1, <2>2, <2>3 DEF AInv, QuietInv
<1>. QED  BY <1>2, <1>3 DEF AInv

LEMMA RemoveItemAccounts ==
  ASSUME AInv, RemoveItem
  PROVE  AInv'
<1>1. /\ UNCHANGED <<denied, mode, pc, seen, report, others>>
      /\ fs' = fs \ {Current.path} /\ fs' \subseteq fs /\ fs \subseteq Path
      /\ gone' \subseteq Path
      /\ Executing("apply") /\ result' = Reclaimed(Current) /\ Current.path \in Doomed(Current)
      /\ Bytes' = Bytes /\ ItemPaths' = ItemPaths
  BY DEF RemoveItem, Bytes, ItemPaths, AInv, AccountTypes, MayUnlink
<1>2. /\ AccountTypes' /\ ListInv' /\ ProgressInv' /\ Handled' = Handled + 1
      /\ result'.reclaimed = result.reclaimed + Current.bytes /\ ErrorPaths' = ErrorPaths
  BY <1>1, ItemDone
<1>3. QuietInv'
  <2> SUFFICES ASSUME Quiet, Apart, mode = "apply"
               PROVE  /\ \A k \in DOMAIN report : k > Handled + 1 => report[k].path \in fs'
                      /\ \A k \in 1 .. Handled + 1 : report[k].path \in fs' <=> report[k].path \in ErrorPaths
                      /\ ErrorPaths \subseteq {report[k].path : k \in 1 .. Handled + 1}
                      /\ \A p \in seen : Lists(p)' => p \in ItemPaths
                      /\ result.reclaimed + Current.bytes + Sum(Bytes, InError') = Sum(Bytes, 1 .. Handled + 1)
    BY <1>1, <1>2 DEF QuietInv, Quiet, Apart, Below
  <2>1. /\ \A k \in DOMAIN report : k > Handled => report[k].path \in fs
        /\ \A k \in 1 .. Handled : report[k].path \in fs <=> report[k].path \in ErrorPaths
        /\ ErrorPaths \subseteq {report[k].path : k \in 1 .. Handled}
        /\ \A p \in seen : Lists(p) => p \in ItemPaths
        /\ result.reclaimed + Sum(Bytes, InError) = Sum(Bytes, 1 .. Handled)
    BY DEF AInv, QuietInv
  <2>2. /\ Handled + 1 \in DOMAIN report /\ Current = report[Handled + 1]
        /\ \A k \in 1 .. Handled : k \in DOMAIN report /\ report[k].path # Current.path
        /\ \A k \in DOMAIN report : k # Handled + 1 => report[k].path # Current.path
        /\ 1 .. Handled + 1 = (1 .. Handled) \cup {Handled + 1}
        /\ Sum(Bytes, 1 .. Handled + 1) = Current.bytes + Sum(Bytes, 1 .. Handled)
        /\ Sum(Bytes, 1 .. Handled) \in Nat /\ Current.bytes \in Nat
        /\ Handled \in Nat /\ Handled + 1 <= Len(report)
        /\ DOMAIN report = 1 .. Len(report) /\ Len(report) \in Nat
    BY <1>1, AtHand, BytesFacts DEF AInv
  <2>3. \A k \in DOMAIN report : k > Handled + 1 => report[k].path \in fs'
    BY <1>1, <2>1, <2>2
  <2>4. Current.path \notin ErrorPaths
    BY <2>1, <2>2
  <2>5. \A k \in 1 .. Handled + 1 : report[k].path \in fs' <=> report[k].path \in ErrorPaths
    BY <1>1, <2>1, <2>2, <2>4
  <2>6. ErrorPaths \subseteq {report[k].path : k \in 1 .. Handled + 1}
    BY <2>1, <2>2
  <2>7. \A p \in seen : Lists(p)' => p \in ItemPaths
    <3>1. seen \subseteq Candidates
      BY DEF AInv, AccountTypes
    <3>2. \A p \in Candidates : Lists(p)' => Lists(p)
      BY <1>1, ListsLess
    <3>. QED  BY <2>1, <3>1, <3>2
  <2>8. InError' = InError
    <3>1. InError' = {k \in 1 .. Handled + 1 : report[k].path \in ErrorPaths}
      BY <1>1, <1>2 DEF InError
    <3>. QED  BY <2>2, <2>4, <3>1 DEF InError
  <2>9. result.reclaimed \in Nat /\ Sum(Bytes, InError) \in Nat
    <3>1. InError \in SUBSET DOMAIN report
      BY <2>2 DEF InError
    <3>. QED  BY <3>1, BytesFacts DEF AInv, AccountTypes
  <2>10. result.reclaimed + Current.bytes + Sum(Bytes, InError) = Sum(Bytes, 1 .. Handled + 1)
    BY <2>1, <2>2, <2>9
  <2>. QED  BY <2>3, <2>5, <2>6, <2>7, <2>8, <2>10
<1>. QED  BY <1>2, <1>3 DEF AInv

LEMMA RemoveFailsAccounts ==
  ASSUME AInv, RemoveFails
  PROVE  AInv'
<1>1. /\ UNCHANGED <<fs, denied, mode, pc, seen, report, gone, others>>
      /\ fs' \subseteq fs /\ fs \subseteq Path /\ gone' \subseteq Path
      /\ Executing("apply") /\ result' = Failed(Current)
      /\ Bytes' = Bytes /\ ItemPaths' = ItemPaths
  BY DEF RemoveFails, Bytes, ItemPaths, AInv, AccountTypes
<1>2. /\ AccountTypes' /\ ListInv' /\ ProgressInv' /\ Handled' = Handled + 1
      /\ result'.reclaimed = result.reclaimed /\ ErrorPaths' = ErrorPaths \cup {Current.path}
  BY <1>1, ItemDone
<1>3. QuietInv'
  <2> DEFINE EP == ErrorPaths \cup {Current.path}
  <2> SUFFICES ASSUME Quiet, Apart, mode = "apply"
               PROVE  /\ \A k \in DOMAIN report : k > Handled + 1 => report[k].path \in fs
                      /\ \A k \in 1 .. Handled + 1 : report[k].path \in fs <=> report[k].path \in EP
                      /\ EP \subseteq {report[k].path : k \in 1 .. Handled + 1}
                      /\ \A p \in seen : Lists(p)' => p \in ItemPaths
                      /\ result.reclaimed + Sum(Bytes, InError') = Sum(Bytes, 1 .. Handled + 1)
    BY <1>1, <1>2 DEF QuietInv, Quiet, Apart, Below
  <2>1. /\ \A k \in DOMAIN report : k > Handled => report[k].path \in fs
        /\ \A k \in 1 .. Handled : report[k].path \in fs <=> report[k].path \in ErrorPaths
        /\ ErrorPaths \subseteq {report[k].path : k \in 1 .. Handled}
        /\ \A p \in seen : Lists(p) => p \in ItemPaths
        /\ result.reclaimed + Sum(Bytes, InError) = Sum(Bytes, 1 .. Handled)
    BY DEF AInv, QuietInv
  <2>2. /\ Handled + 1 \in DOMAIN report /\ Current = report[Handled + 1]
        /\ \A k \in 1 .. Handled : k \in DOMAIN report /\ report[k].path # Current.path
        /\ \A k \in DOMAIN report : k # Handled + 1 => report[k].path # Current.path
        /\ 1 .. Handled + 1 = (1 .. Handled) \cup {Handled + 1}
        /\ Sum(Bytes, 1 .. Handled + 1) = Current.bytes + Sum(Bytes, 1 .. Handled)
        /\ Sum(Bytes, 1 .. Handled) \in Nat /\ Current.bytes \in Nat
        /\ Handled \in Nat /\ Handled + 1 <= Len(report)
        /\ DOMAIN report = 1 .. Len(report) /\ Len(report) \in Nat
        /\ Bytes[Handled + 1] = Current.bytes
    BY <1>1, AtHand, BytesFacts DEF AInv
  <2>3. \A k \in DOMAIN report : k > Handled + 1 => report[k].path \in fs
    BY <2>1, <2>2
  <2>4. Current.path \in fs
    BY <2>1, <2>2
  <2>5. \A k \in 1 .. Handled + 1 : report[k].path \in fs <=> report[k].path \in EP
    BY <2>1, <2>2, <2>4
  <2>6. EP \subseteq {report[k].path : k \in 1 .. Handled + 1}
    BY <2>1, <2>2
  <2>7. \A p \in seen : Lists(p)' => p \in ItemPaths
    <3>1. seen \subseteq Candidates
      BY DEF AInv, AccountTypes
    <3>2. \A p \in Candidates : Lists(p)' => Lists(p)
      BY <1>1, ListsLess
    <3>. QED  BY <2>1, <3>1, <3>2
  <2>8. InError' = InError \cup {Handled + 1} /\ Handled + 1 \notin InError
    <3>1. InError' = {k \in 1 .. Handled + 1 : report[k].path \in EP}
      BY <1>1, <1>2 DEF InError
    <3>2. \A k \in 1 .. Handled : report[k].path \in EP <=> report[k].path \in ErrorPaths
      BY <2>2
    <3>. QED  BY <2>2, <3>1, <3>2 DEF InError
  <2>9. /\ result.reclaimed \in Nat /\ Sum(Bytes, InError) \in Nat
        /\ IsFiniteSet(InError) /\ IntOn(Bytes, InError \cup {Handled + 1})
    <3>1. InError \in SUBSET DOMAIN report /\ InError \cup {Handled + 1} \in SUBSET DOMAIN report
      BY <2>2 DEF InError
    <3>. QED  BY <3>1, BytesFacts DEF AInv, AccountTypes
  <2>10. Sum(Bytes, InError \cup {Handled + 1}) = Bytes[Handled + 1] + Sum(Bytes, InError)
    BY <2>8, <2>9, SumAdd
  <2>11. result.reclaimed + Sum(Bytes, InError \cup {Handled + 1}) = Sum(Bytes, 1 .. Handled + 1)
    BY <2>1, <2>2, <2>9, <2>10
  <2>. QED  BY <2>3, <2>5, <2>6, <2>7, <2>8, <2>11
<1>. QED  BY <1>2, <1>3 DEF AInv

LEMMA AStep ==
  ASSUME AInv, [Next]_vars
  PROVE  AInv'
<1>1. CASE \E p \in Candidates \ seen : Look(p)
  BY <1>1, LookAccounts
<1>2. CASE CountOnly \/ RemoveItem \/ RemoveFails
  BY <1>2, CountOnlyAccounts, RemoveItemAccounts, RemoveFailsAccounts
<1>3. CASE \E q \in Path : RemoveInside(q)
  BY <1>3, RemoveInsideAccounts
<1>4. CASE \E p \in Path : Other(p)
  <2>1. PICK p \in Path : Other(p)
    BY <1>4
  <2>2. /\ UNCHANGED <<denied, mode, pc, seen, report, result, gone>>
        /\ others' = others + 1 /\ others < MaxOther /\ fs' \subseteq fs \cup {p}
        /\ Handled' = Handled /\ Bytes' = Bytes
    BY <2>1 DEF Other, Handled, Bytes
  <2>3. others \in Nat /\ MaxOther \in Nat
    BY CleanerAssumption DEF AInv, AccountTypes
  <2>4. ~Quiet'
    BY <2>2, <2>3 DEF Quiet
  <2>5. AccountTypes' /\ ListInv' /\ ProgressInv'
    BY <2>2, <2>3 DEF AInv, AccountTypes, ListInv, ProgressInv
  <2>. QED  BY <2>4, <2>5 DEF AInv, QuietInv
<1>5. CASE Listed \/ End \/ UNCHANGED vars
  <2>1. /\ UNCHANGED <<fs, denied, mode, seen, report, result, gone, others>>
        /\ Handled' = Handled /\ Bytes' = Bytes /\ InError' = InError
        /\ ErrorPaths' = ErrorPaths /\ ItemPaths' = ItemPaths
    BY <1>5 DEF Listed, End, vars, Handled, Bytes, InError, ErrorPaths, ItemPaths
  <2>2. AccountTypes' /\ ListInv'
    BY <1>5, <2>1 DEF Listed, End, vars, AInv, AccountTypes, ListInv
  <2>3. ProgressInv'
    BY <1>5, <2>1 DEF Listed, End, vars, AInv, ProgressInv
  <2>4. \A p \in Candidates : Lists(p)' => Lists(p)
    BY <2>1, ListsLess DEF AInv, AccountTypes
  <2>5. Quiet' = Quiet /\ Apart' = Apart
    BY <2>1 DEF Quiet, Apart, Below
  <2>6. QuietInv'
    BY <2>1, <2>4, <2>5 DEF AInv, QuietInv, AccountTypes
  <2>. QED  BY <2>2, <2>3, <2>6 DEF AInv
<1>. QED  BY <1>1, <1>2, <1>3, <1>4, <1>5 DEF Next, Exited

LEMMA AlwaysAInv == Spec => []AInv
<1>1. AInv /\ [Next]_vars => AInv'
  BY AStep
<1>. QED  BY AInit, <1>1, PTL DEF Spec

(***************************************************************************)
(* The types: no more items are dealt with than were listed, and no more   *)
(* bytes said to be reclaimed than were shown, whatever fails and whatever *)
(* other programs do.                                                      *)
(***************************************************************************)
THEOREM CleanerTypeCorrect == Spec => []TypeOK
<1>1. AInv => TypeOK
  <2> SUFFICES ASSUME AInv PROVE TypeOK
    OBVIOUS
  <2>1. /\ Handled \in Nat /\ Len(report) \in Nat /\ DOMAIN report = 1 .. Len(report)
        /\ \A k \in DOMAIN report : Bytes[k] \in Nat /\ report[k] \in ItemSet
        /\ \A S \in SUBSET DOMAIN report :
             IsFiniteSet(S) /\ IntOn(Bytes, S) /\ Sum(Bytes, S) \in Nat
        /\ Handled <= Len(report)
    BY BytesFacts DEF AInv, ProgressInv
  <2>2. /\ 1 .. Handled \in SUBSET DOMAIN report /\ DOMAIN report \in SUBSET DOMAIN report
    BY <2>1
  <2>3. Sum(Bytes, 1 .. Handled) <= Sum(Bytes, DOMAIN report)
    BY <2>1, <2>2, SumSubset
  <2>4. TotalBytes = Sum(Bytes, DOMAIN report)
    BY DEF TotalBytes, SumOf, Sum
  <2>5. result.reclaimed \in Nat /\ result.deleted \in Nat /\ result.deleted <= Handled
    BY DEF AInv, AccountTypes, Handled
  <2>6. result.reclaimed \in 0 .. TotalBytes
    <3>1. /\ Sum(Bytes, 1 .. Handled) \in Nat /\ Sum(Bytes, DOMAIN report) \in Nat
          /\ result.reclaimed <= Sum(Bytes, 1 .. Handled)
      BY <2>1, <2>2 DEF AInv, ProgressInv
    <3>. QED  BY <2>3, <2>4, <2>5, <3>1
  <2>7. result.deleted \in 0 .. Len(report)
    BY <2>1, <2>5
  <2>. QED  BY <2>1, <2>6, <2>7 DEF TypeOK, AInv, AccountTypes, ListInv, ItemSet
<1>. QED  BY AlwaysAInv, <1>1, PTL

(***************************************************************************)
(* The accounts of a removal are right for every file system and every     *)
(* list: the errors are the items that are still there, reclaimed and      *)
(* failed bytes add up to the total shown, and a new listing would show    *)
(* failed items only.                                                      *)
(***************************************************************************)
THEOREM AllAccountedFor == Spec => []AccountsForAll
<1>1. AInv => AccountsForAll
  <2> SUFFICES ASSUME AInv, pc = "done", mode = "apply"
               PROVE  /\ Handled = Len(report)
                      /\ Quiet /\ Apart =>
                           /\ ErrorPaths = ItemPaths \cap fs
                           /\ \A p \in Candidates : Lists(p) => p \in ErrorPaths
                           /\ result.reclaimed
                                + SumOf(LAMBDA k : Bytes[k],
                                        {k \in DOMAIN report : report[k].path \in ErrorPaths})
                                = TotalBytes
    BY DEF AccountsForAll
  <2>1. Handled = Len(report) /\ seen = Candidates /\ DOMAIN report = 1 .. Handled
    BY BytesFacts DEF AInv, ProgressInv
  <2>2. ASSUME Quiet, Apart
        PROVE  /\ ErrorPaths = ItemPaths \cap fs
               /\ \A p \in Candidates : Lists(p) => p \in ErrorPaths
               /\ result.reclaimed + Sum(Bytes, InError) = Sum(Bytes, DOMAIN report)
    <3>1. ErrorPaths = ItemPaths \cap fs
      BY <2>1, <2>2 DEF AInv, QuietInv, ItemPaths
    <3>2. \A p \in Candidates : Lists(p) => p \in ErrorPaths
      BY <2>1, <2>2, <3>1 DEF AInv, QuietInv, Lists, Resolves
    <3>. QED  BY <2>1, <2>2, <3>1, <3>2 DEF AInv, QuietInv
  <2>3. InError = {k \in DOMAIN report : report[k].path \in ErrorPaths}
    BY <2>1 DEF InError
  <2>4. /\ TotalBytes = Sum(Bytes, DOMAIN report)
        /\ SumOf(LAMBDA k : Bytes[k], {k \in DOMAIN report : report[k].path \in ErrorPaths})
             = Sum(Bytes, {k \in DOMAIN report : report[k].path \in ErrorPaths})
    BY DEF TotalBytes, SumOf, Sum
  <2>. QED  BY <2>1, <2>2, <2>3, <2>4
<1>. QED  BY AlwaysAInv, <1>1, PTL

-----------------------------------------------------------------------------
(* The way up from a path.                                                 *)

AboveRec(U, w) == w = [p \in U |-> {p} \cup IF Parent[p] = p THEN {} ELSE w[Parent[p]]]

\* A property of paths that goes from each parent to its children holds.
LEMMA TopDown ==
  ASSUME NEW Bad \in SUBSET Path,
         \A p \in Path : Parent[p] = p \/ Parent[p] \notin Bad => p \notin Bad
  PROVE  Bad = {}
<1>1. Bad # {} => \E p \in Bad : Parent[p] \in Bad => Parent[p] = p
  BY TreeAssumption
<1>. QED  BY <1>1

LEMMA AboveExists == \E w : AboveRec(Path, w)
<1> DEFINE Solved(U) == (\A p \in U : Parent[p] \in U) /\ \E w : AboveRec(U, w)
           C == {Path \ U : U \in {V \in SUBSET Path : Solved(V)}}
<1>1. Path \ {} \in C
  <2> DEFINE e == [p \in {} |-> {}]
  <2>1. e = [p \in {} |-> {p} \cup IF Parent[p] = p THEN {} ELSE e[Parent[p]]]
    OBVIOUS
  <2> HIDE DEF e
  <2>2. AboveRec({}, e)
    BY <2>1 DEF AboveRec
  <2>. QED  BY <2>2
<1>2. \A c \in C : IsFiniteSet(c)
  BY FS_Subset, TreeAssumption
<1>3. PICK c \in C : \A d \in C : d \subseteq c => d = c
  <2> HIDE DEF C
  <2>. QED  BY <1>1, <1>2, SmallestSet
<1>4. PICK U \in SUBSET Path : c = Path \ U /\ Solved(U)
  BY <1>3
<1>5. PICK w : AboveRec(U, w)
  BY <1>4
<1>6. CASE c = {}
  <2>1. U = Path
    BY <1>4, <1>6
  <2>. QED  BY <1>5, <2>1
<1>7. CASE c # {}
  <2>1. PICK p \in c : Parent[p] \in c => Parent[p] = p
    BY <1>4, <1>7, TreeAssumption
  <2>2. p \in Path \ U /\ (Parent[p] = p \/ Parent[p] \in U)
    BY <1>4, <2>1, CleanerAssumption
  <2> DEFINE V == U \cup {p}
             up == [x \in V |-> {x} \cup IF Parent[x] = x THEN {} ELSE w[Parent[x]]]
  <2>3. \A x \in U : up[x] = w[x]
    BY <1>5 DEF AboveRec
  <2>4. \A x \in V : Parent[x] = x \/ Parent[x] \in U
    BY <1>4, <2>2
  <2>5. AboveRec(V, up)
    <3>1. \A x \in V : up[x] = {x} \cup IF Parent[x] = x THEN {} ELSE up[Parent[x]]
      BY <2>3, <2>4
    <3>2. up = [x \in V |-> up[x]]
      OBVIOUS
    <3> HIDE DEF up, V
    <3>. QED  BY <3>1, <3>2 DEF AboveRec
  <2>6. Solved(V) /\ V \in SUBSET Path
    BY <2>2, <2>4, <2>5
  <2>7. Path \ V \in C /\ Path \ V \subseteq c /\ Path \ V # c
    BY <1>4, <2>2, <2>6
  <2>. QED  BY <1>3, <2>7
<1>. QED  BY <1>6, <1>7

\* The paths above one are a chain, and all but itself are folders.
WayUp(c) ==
  /\ c \in Above[c]
  /\ \A q \in Above[c] : q \in Path /\ (q = c \/ Kind[q] = "dir")
  /\ \A q, r \in Above[c] : q \in Above[r] \/ r \in Above[q]

LEMMA AboveFacts == \A c \in Path : WayUp(c)
<1>1. \A p \in Path : Above[p] = {p} \cup IF Parent[p] = p THEN {} ELSE Above[Parent[p]]
  <2>1. AboveRec(Path, Above)
    BY AboveExists DEF Above, AboveRec
  <2>. QED  BY <2>1 DEF AboveRec
<1> DEFINE Bad == {c \in Path : ~WayUp(c)}
<1>2. ASSUME NEW c \in Path, Parent[c] = c \/ Parent[c] \notin Bad
      PROVE  c \notin Bad
  <2>1. CASE Parent[c] = c
    <3>1. Above[c] = {c}
      BY <1>1, <2>1
    <3>. QED  BY <3>1 DEF WayUp
  <2>2. CASE Parent[c] # c
    <3>1. PICK u \in Path : u = Parent[c]
      BY CleanerAssumption
    <3>2. WayUp(u) /\ Kind[u] = "dir" /\ Above[c] = {c} \cup Above[u]
      BY <1>1, <1>2, <2>2, <3>1, CleanerAssumption
    <3>. QED  BY <3>2 DEF WayUp
  <2>. QED  BY <2>1, <2>2
<1>3. Bad = {}
  <2> HIDE DEF Bad
  <2>1. \A c \in Path : Parent[c] = c \/ Parent[c] \notin Bad => c \notin Bad
    BY <1>2
  <2>2. Bad \in SUBSET Path
    BY DEF Bad
  <2>. QED  BY <2>1, <2>2, TopDown
<1>. QED  BY <1>3

LEMMA BelowFacts ==
  /\ \A p \in Path : p \in Below(p) /\ (Kind[p] # "dir" => Below(p) = {p})
  /\ \A p : Below(p) \subseteq Path
  /\ \A p, q : Below(p) \cap Below(q) # {} => p \in Below(q) \/ q \in Below(p)
<1>1. \A p \in Path : p \in Below(p)
  BY AboveFacts DEF Below, WayUp
<1>2. \A p \in Path : Kind[p] # "dir" => Below(p) = {p}
  BY <1>1, AboveFacts DEF Below, WayUp
<1>3. \A p, q : Below(p) \cap Below(q) # {} => p \in Below(q) \/ q \in Below(p)
  BY AboveFacts DEF Below, WayUp
<1>. QED  BY <1>1, <1>2, <1>3 DEF Below

-----------------------------------------------------------------------------
(* What the listed sizes are, and what has become of the files they count. *)

\* What a path adds to the size of the folders it is in.
Weight == [p \in Path |-> IF Kind[p] = "dir" THEN 0 ELSE Len1[p]]

\* Its bytes can be freed by removing it: it is taken for what it is.
Removable(item) == Kind[item.path] # "link" /\ (item.isDir \/ Kind[item.path] # "dir")

SizesInv ==
  /\ pc = "scan" => gone = {}
  /\ Quiet =>
       /\ fs \cap gone = {}
       /\ \A k \in DOMAIN report :
            Removable(report[k]) =>
              report[k].bytes = Sum(Weight, (fs \cup gone) \cap Below(report[k].path))
       /\ mode = "apply" =>
            \A k \in 1 .. Handled :
              report[k].path \notin ErrorPaths =>
                /\ fs \cap Below(report[k].path) = {}
                /\ report[k].isDir \/ Kind[report[k].path] # "dir"

LEMMA WeightFacts ==
  ASSUME NEW S \in SUBSET Path
  PROVE  /\ IsFiniteSet(S) /\ IntOn(Weight, S)
         /\ Sum(Weight, S) = Sum(Len1, {q \in S : Kind[q] # "dir"})
<1> DEFINE A == {q \in S : Kind[q] # "dir"}
           B == {q \in S : Kind[q] = "dir"}
<1>1. \A q \in Path : Weight[q] \in Nat
  BY CleanerAssumption DEF Weight
<1>2. IsFiniteSet(S) /\ IsFiniteSet(A) /\ IsFiniteSet(B)
  BY FS_Subset, TreeAssumption
<1>3. IntOn(Weight, S) /\ S = A \cup B /\ A \cap B = {}
  BY <1>1 DEF IntOn
<1>4. Sum(Weight, B) = 0
  <2>1. \A q \in B : Weight[q] = 0
    BY DEF Weight
  <2> HIDE DEF B
  <2>. QED  BY <1>2, <2>1, SumZero
<1>5. Sum(Weight, A) = Sum(Len1, A)
  <2>1. \A q \in A : Weight[q] = Len1[q]
    BY DEF Weight
  <2> HIDE DEF A
  <2>. QED  BY <1>2, <2>1, SumSame
<1>6. Sum(Weight, A) \in Int
  <2>1. IntOn(Weight, A)
    BY <1>3 DEF IntOn
  <2> HIDE DEF A
  <2>. QED  BY <1>2, <2>1, SumInt
<1>7. Sum(Weight, S) = Sum(Weight, A) + Sum(Weight, B)
  <2> HIDE DEF A, B
  <2>. QED  BY <1>2, <1>3, SumUnion
<1>. QED  BY <1>2, <1>3, <1>4, <1>5, <1>6, <1>7

\* A candidate is listed with the weight of what is in it.
LEMMA ListedWeight ==
  ASSUME fs \subseteq Path, NEW p \in Candidates, Lists(p), Removable(Item(p))
  PROVE  Item(p).bytes = Sum(Weight, fs \cap Below(p))
<1>1. p \in Path /\ p \in fs /\ Item(p).path = p /\ Kind[p] # "link"
  BY ItemIsTyped, CleanerAssumption DEF Candidates, Lists, Resolves, Removable
<1>2. Target[p] = p
  BY <1>1, CleanerAssumption
<1>3. fs \cap Below(p) \in SUBSET Path
  OBVIOUS
<1>4. CASE Kind[p] = "dir"
  <2>1. Item(p).isDir = TRUE
    BY <1>1, <1>4 DEF Removable, Item, CacheItem, TempItem, LogItem, IsDir
  <2>2. Item(p).bytes = DirSize(p)
    BY <1>2, <1>4, <2>1 DEF Item, CacheItem, TempItem, LogItem, IsDir
  <2>3. DirSize(p) = Sum(Len1, {q \in fs \cap Below(p) : Kind[q] # "dir"})
    BY DirSizeIsSum DEF Files
  <2>. QED  BY <1>3, <2>2, <2>3, WeightFacts
<1>5. CASE Kind[p] # "dir"
  <2>1. Item(p).bytes = Len1[p]
    <3>1. ~IsDir(p)
      BY <1>2, <1>5 DEF IsDir
    <3>2. CASE p \in Caches
      <4>1. Item(p).bytes = 0
        BY <3>1, <3>2 DEF Item, CacheItem
      <4>2. p \notin Logs
        BY <3>2, CleanerAssumption
      <4>. QED  BY <4>1, <4>2 DEF Lists
    <3>3. CASE p \notin Caches
      BY <1>2, <3>1, <3>3 DEF Item, TempItem, LogItem
    <3>. QED  BY <3>2, <3>3
  <2>2. fs \cap Below(p) = {p}
    BY <1>1, <1>5, BelowFacts
  <2>3. Weight[p] = Len1[p] /\ Weight[p] \in Int
    BY <1>1, <1>5, CleanerAssumption DEF Weight
  <2>4. Sum(Weight, {p}) = Weight[p]
    <3>1. IsFiniteSet({}) /\ IntOn(Weight, {} \cup {p}) /\ p \notin {}
      BY <2>3, FS_EmptySet DEF IntOn
    <3>2. Sum(Weight, {} \cup {p}) = Weight[p] + Sum(Weight, {})
      BY <3>1, SumAdd
    <3>3. {} \cup {p} = {p}
      OBVIOUS
    <3>. QED  BY <2>3, <3>2, <3>3, SumEmpty
  <2>. QED  BY <2>1, <2>2, <2>3, <2>4
<1>. QED  BY <1>4, <1>5

LEMMA SizesInit == Init => SizesInv
<1> SUFFICES ASSUME Init PROVE SizesInv
  OBVIOUS
<1> DEFINE e == <<>>
<1>1. DOMAIN e = {}
  OBVIOUS
<1>0. report = e /\ result = NoResult /\ gone = {}
  BY DEF Init
<1> HIDE DEF e
<1>2. DOMAIN report = {} /\ 1 .. Handled = {}
  BY <1>0, <1>1, NothingDone
<1>. QED  BY <1>0, <1>2 DEF SizesInv

LEMMA LookSizes ==
  ASSUME AInv, SizesInv, NEW p \in Candidates \ seen, Look(p)
  PROVE  SizesInv'
<1>1. /\ fs' = fs /\ mode' = mode /\ pc = "scan" /\ gone' = gone /\ gone = {}
      /\ others' = others /\ Handled' = Handled /\ p \in Candidates
  BY DEF Look, Handled, SizesInv
<1>2. 1 .. Handled = {}
  BY <1>1, NothingDone DEF AInv, ProgressInv
<1>3. fs \subseteq Path /\ report \in Seq(ItemSet)
  BY DEF AInv, AccountTypes
<1>4. Item(p) \in ItemSet /\ Item(p).path = p
  BY <1>1, <1>3, ItemIsTyped
<1>5. \A k \in DOMAIN report' :
        \/ k \in DOMAIN report /\ report'[k] = report[k]
        \/ Lists(p) /\ report'[k] = Item(p)
  <2> HIDE DEF Item, ItemSet
  <2>1. CASE Lists(p) /\ report' = Append(report, Item(p))
    BY <1>3, <1>4, <2>1
  <2>2. CASE report' = report
    BY <2>2
  <2>. QED  BY <2>1, <2>2 DEF Look
<1>6. Lists(p) /\ Removable(Item(p)) => Item(p).bytes = Sum(Weight, (fs \cup gone) \cap Below(p))
  <2>1. (fs \cup gone) \cap Below(p) = fs \cap Below(p)
    BY <1>1
  <2>. QED  BY <1>1, <1>3, <2>1, ListedWeight
<1>7. ASSUME Quiet, NEW k \in DOMAIN report', Removable(report'[k])
      PROVE  report'[k].bytes = Sum(Weight, (fs \cup gone) \cap Below(report'[k].path))
  BY <1>4, <1>5, <1>6, <1>7 DEF SizesInv
<1>8. Quiet' = Quiet /\ \A q : Below(q)' = Below(q) /\ \A i : Removable(i)' = Removable(i)
  BY <1>1 DEF Quiet, Below, Removable
<1>9. fs \cap gone = {}
  BY <1>1
<1>. QED  BY <1>1, <1>2, <1>7, <1>8, <1>9 DEF SizesInv, Below, Quiet, Removable

\* A step that removes what is there, or nothing, and leaves the list alone.
LEMMA RemovalSizes ==
  ASSUME AInv, SizesInv, UNCHANGED <<mode, report, others>>, pc # "scan", pc' # "scan",
         \/ UNCHANGED <<fs, gone>>
         \/ \E q \in fs : fs' = fs \ {q} /\ gone' = gone \cup {q},
         Quiet /\ mode = "apply" =>
           \A k \in 1 .. Handled' :
             report[k].path \notin ErrorPaths' =>
               \/ k \in 1 .. Handled /\ report[k].path \notin ErrorPaths
               \/ /\ fs' \cap Below(report[k].path) = {}
                  /\ report[k].isDir \/ Kind[report[k].path] # "dir"
  PROVE  SizesInv'
<1>1. fs' \cup gone' = fs \cup gone /\ fs' \subseteq fs
  OBVIOUS
<1>2. fs \cap gone = {} => fs' \cap gone' = {}
  OBVIOUS
<1>3. ASSUME Quiet, mode = "apply", NEW k \in 1 .. Handled', report[k].path \notin ErrorPaths'
      PROVE  /\ fs' \cap Below(report[k].path) = {}
             /\ report[k].isDir \/ Kind[report[k].path] # "dir"
  <2>1. CASE k \in 1 .. Handled /\ report[k].path \notin ErrorPaths
    BY <1>1, <1>3, <2>1 DEF SizesInv
  <2>. QED  BY <1>3, <2>1
<1>4. ASSUME Quiet
      PROVE  \A k \in DOMAIN report : Removable(report[k]) =>
               report[k].bytes = Sum(Weight, (fs' \cup gone') \cap Below(report[k].path))
  BY <1>1, <1>4 DEF SizesInv
<1>5. Quiet => fs \cap gone = {}
  BY DEF SizesInv
<1>. QED  BY <1>2, <1>3, <1>4, <1>5 DEF SizesInv, Below, Quiet, Removable

LEMMA SizesStep ==
  ASSUME AInv, SizesInv, [Next]_vars
  PROVE  SizesInv'
<1>1. CASE \E p \in Candidates \ seen : Look(p)
  BY <1>1, LookSizes
<1>2. CASE CountOnly
  <2>1. mode # "apply" /\ pc # "scan"
    BY <1>2 DEF CountOnly, Executing
  <2>. QED  BY <1>2, <2>1, RemovalSizes DEF CountOnly
<1>3. ASSUME NEW q \in Path, RemoveInside(q) PROVE SizesInv'
  <2>1. Handled' = Handled /\ ErrorPaths' = ErrorPaths /\ q \in fs /\ pc # "scan"
    BY <1>3 DEF RemoveInside, Handled, ErrorPaths, MayUnlink, Executing
  <2>. QED  BY <1>3, <2>1, RemovalSizes DEF RemoveInside
<1>4. CASE RemoveItem
  <2>1. /\ Current.path \in fs /\ fs' = fs \ {Current.path} /\ gone' = gone \cup {Current.path}
        /\ fs \cap Below(Current.path) = {Current.path}
        /\ Current.isDir \/ Kind[Current.path] # "dir"
        /\ pc = "execute" /\ UNCHANGED <<denied, mode, pc, seen, report, others>>
        /\ Executing("apply") /\ result' = Reclaimed(Current)
    BY <1>4 DEF RemoveItem, MayUnlink, Doomed, Executing
  <2>2. Handled' = Handled + 1 /\ ErrorPaths' = ErrorPaths
    <3>1. fs' \subseteq fs /\ gone' \subseteq Path
      BY <2>1 DEF AInv, AccountTypes
    <3>. QED  BY <2>1, <3>1, ItemDone
  <2>3. 1 .. Handled + 1 = (1 .. Handled) \cup {Handled + 1} /\ Current = report[Handled + 1]
    BY <2>1, AtHand
  <2>4. fs' \cap Below(Current.path) = {}
    BY <2>1
  <2>5. \A k \in 1 .. Handled' :
          k \in 1 .. Handled \/ (fs' \cap Below(report[k].path) = {}
                                 /\ (report[k].isDir \/ Kind[report[k].path] # "dir"))
    BY <2>1, <2>2, <2>3, <2>4
  <2>. QED  BY <2>1, <2>2, <2>5, RemovalSizes
<1>5. CASE RemoveFails
  <2>1. /\ pc = "execute" /\ UNCHANGED <<fs, gone, denied, mode, pc, seen, report, others>>
        /\ Executing("apply") /\ result' = Failed(Current)
    BY <1>5 DEF RemoveFails, Executing
  <2>2. Handled' = Handled + 1 /\ ErrorPaths' = ErrorPaths \cup {Current.path}
    <3>1. fs' \subseteq fs /\ gone' \subseteq Path
      BY <2>1 DEF AInv, AccountTypes
    <3>. QED  BY <2>1, <3>1, ItemDone
  <2>3. 1 .. Handled + 1 = (1 .. Handled) \cup {Handled + 1} /\ Current = report[Handled + 1]
    BY <2>1, AtHand
  <2>. QED  BY <2>1, <2>2, <2>3, RemovalSizes
<1>6. CASE \E p \in Path : Other(p)
  <2>1. /\ others' = others + 1 /\ others \in Nat /\ gone' = gone /\ pc' = pc
    BY <1>6 DEF Other, AInv, AccountTypes
  <2>2. ~Quiet'
    BY <2>1 DEF Quiet
  <2>. QED  BY <2>1, <2>2 DEF SizesInv
<1>7. CASE Listed \/ End \/ UNCHANGED vars
  <2>1. /\ UNCHANGED <<fs, denied, mode, seen, report, result, gone, others>>
        /\ Handled' = Handled /\ ErrorPaths' = ErrorPaths
        /\ pc' = "scan" => pc = "scan"
    BY <1>7 DEF Listed, End, vars, Handled, ErrorPaths
  <2>. QED  BY <2>1 DEF SizesInv, Below, Quiet, Removable
<1>. QED  BY <1>1, <1>2, <1>3, <1>4, <1>5, <1>6, <1>7 DEF Next, Exited

\* Without a second name, the bytes freed are the weights of what is gone.
LEMMA FreedWeight ==
  ASSUME gone \subseteq Path, fs \cap gone = {}, ~Shared
  PROVE  Freed = Sum(Weight, gone)
<1> DEFINE inodes == {Ino[p] : p \in gone}
           lost == {n \in inodes : \A p \in fs : Ino[p] # n}
           nameOf(n) == CHOOSE p \in gone : Ino[p] = n
           length == [n \in lost |-> IF Kind[nameOf(n)] = "dir" THEN 0 ELSE Len1[nameOf(n)]]
<1>1. Freed = Sum(length, lost)
  BY DEF Freed, SumOf, Sum
<1>2. \A p \in gone, q \in fs \cup gone : p # q => Ino[p] # Ino[q]
  BY DEF Shared
<1>3. lost = inodes
  BY <1>2
<1>4. \A p \in gone : nameOf(Ino[p]) = p /\ Ino[p] \in lost
  BY <1>2, <1>3
<1>5. \A p \in gone : Weight[p] = length[Ino[p]] /\ Weight[p] \in Int
  <2> SUFFICES ASSUME NEW p \in gone PROVE Weight[p] = length[Ino[p]] /\ Weight[p] \in Int
    OBVIOUS
  <2>1. Weight[p] = (IF Kind[p] = "dir" THEN 0 ELSE Len1[p]) /\ Weight[p] \in Int
    BY CleanerAssumption DEF Weight
  <2>2. nameOf(Ino[p]) = p /\ Ino[p] \in lost
    BY <1>4
  <2> HIDE DEF nameOf, lost
  <2>3. length[Ino[p]] = IF Kind[nameOf(Ino[p])] = "dir" THEN 0 ELSE Len1[nameOf(Ino[p])]
    BY <2>2
  <2>. QED  BY <2>1, <2>2, <2>3
<1>6. \A p, q \in gone : Ino[p] = Ino[q] => p = q
  BY <1>2
<1>7. IsFiniteSet(gone)
  BY FS_Subset, TreeAssumption
<1> HIDE DEF length
<1>8. Sum(length, {Ino[p] : p \in gone}) = Sum(Weight, gone)
  BY <1>5, <1>6, <1>7, SumImage
<1>. QED  BY <1>1, <1>3, <1>8

(***************************************************************************)
(* "Byte-exact" (clean.rs:5) for every file system: undisturbed, without   *)
(* items in one another, removals that failed half way, listed links and   *)
(* second names, the bytes reclaimed are those of the files that are gone. *)
(***************************************************************************)
THEOREM ReclaimedIsExact == Spec => []ByteExact
<1>1. AInv /\ SizesInv /\ OnlyListedGoes => ByteExact
  <2> SUFFICES ASSUME AInv, SizesInv, OnlyListedGoes, pc = "done", mode = "apply", Quiet, Apart,
                      ~Linked, ~Shared, \A e \in ErrorPaths : gone \cap Below(e) = {}
               PROVE  result.reclaimed = Freed
    BY DEF ByteExact
  <2> DEFINE Done == {k \in 1 .. Handled : report[k].path \notin ErrorPaths}
             part == [k \in Done |-> gone \cap Below(report[k].path)]
  <2>1. /\ DOMAIN report = 1 .. Handled /\ gone \subseteq Path /\ fs \subseteq Path
        /\ fs \cap gone = {}
    BY BytesFacts DEF AInv, ProgressInv, AccountTypes, SizesInv
  <2>2. Freed = Sum(Weight, gone)
    BY <2>1, FreedWeight
  <2>3. result.reclaimed = Sum(Bytes, Done)
    <3>1. /\ InError \in SUBSET DOMAIN report /\ Done \in SUBSET DOMAIN report
          /\ InError \cup Done = 1 .. Handled /\ InError \cap Done = {}
      BY <2>1 DEF InError
    <3> HIDE DEF Done
    <3>2. /\ IsFiniteSet(InError) /\ IsFiniteSet(Done)
          /\ Sum(Bytes, InError) \in Nat /\ Sum(Bytes, Done) \in Nat
          /\ IntOn(Bytes, InError \cup Done)
      <4>1. 1 .. Handled \in SUBSET DOMAIN report
        BY <2>1
      <4>. QED  BY <3>1, <4>1, BytesFacts DEF AInv
    <3>3. Sum(Bytes, InError \cup Done) = Sum(Bytes, InError) + Sum(Bytes, Done)
      BY <3>1, <3>2, SumUnion
    <3>4. result.reclaimed + Sum(Bytes, InError) = Sum(Bytes, 1 .. Handled)
      BY DEF AInv, QuietInv
    <3>5. result.reclaimed \in Nat
      BY DEF AInv, AccountTypes
    <3>6. Sum(Bytes, 1 .. Handled) = Sum(Bytes, InError) + Sum(Bytes, Done)
      BY <3>1, <3>3
    <3>. QED  BY <3>2, <3>4, <3>5, <3>6
  <2>4. \A k \in Done : k \in DOMAIN report /\ report[k].path \in ItemPaths
                        /\ report[k].path \in Candidates
    BY <2>1 DEF ItemPaths, AInv, ListInv, AccountTypes
  <2>5. \A k \in Done : /\ IsFiniteSet(part[k]) /\ IntOn(Weight, part[k])
                        /\ Bytes[k] = Sum(Weight, part[k])
    <3> SUFFICES ASSUME NEW k \in Done
                 PROVE  /\ IsFiniteSet(part[k]) /\ IntOn(Weight, part[k])
                        /\ Bytes[k] = Sum(Weight, part[k])
      OBVIOUS
    <3>1. part[k] = gone \cap Below(report[k].path) /\ part[k] \in SUBSET Path
      BY <2>1
    <3>2. IsFiniteSet(part[k]) /\ IntOn(Weight, part[k])
      BY <3>1, WeightFacts
    <3>3. Kind[report[k].path] # "link"
      BY <2>4 DEF Linked
    <3>4. /\ fs \cap Below(report[k].path) = {}
          /\ report[k].isDir \/ Kind[report[k].path] # "dir"
      BY DEF SizesInv
    <3>5. report[k].bytes = Sum(Weight, (fs \cup gone) \cap Below(report[k].path))
      BY <2>4, <3>3, <3>4 DEF SizesInv, Removable
    <3>6. (fs \cup gone) \cap Below(report[k].path) = part[k]
      BY <3>1, <3>4
    <3>7. Bytes[k] = report[k].bytes
      BY <2>4 DEF Bytes
    <3>. QED  BY <3>2, <3>5, <3>6, <3>7
  <2>6. \A j, k \in Done : j # k => part[j] \cap part[k] = {}
    <3> SUFFICES ASSUME NEW j \in Done, NEW k \in Done, j # k,
                        Below(report[j].path) \cap Below(report[k].path) # {}
                 PROVE  FALSE
      OBVIOUS
    <3>1. report[j].path # report[k].path
      BY <2>4 DEF AInv, ListInv
    <3>2. report[j].path \in Below(report[k].path) \/ report[k].path \in Below(report[j].path)
      BY BelowFacts
    <3>. QED  BY <2>4, <3>1, <3>2 DEF Apart
  <2>7. UNION {part[k] : k \in Done} = gone
    <3>1. ASSUME NEW q \in gone PROVE \E k \in Done : q \in part[k]
      <4>1. PICK p \in ItemPaths : q \in Below(p)
        <5>1. \A p \in ItemPaths : p \in Path
          BY CleanerAssumption DEF ItemPaths, AInv, ListInv, AccountTypes, Candidates
        <5>. QED  BY <5>1, BelowFacts DEF OnlyListedGoes
      <4>2. PICK k \in DOMAIN report : p = report[k].path
        BY <4>1 DEF ItemPaths
      <4>3. k \in Done
        BY <2>1, <4>1, <4>2
      <4>. QED  BY <4>1, <4>2, <4>3
    <3>2. \A k \in Done : part[k] \subseteq gone
      OBVIOUS
    <3> HIDE DEF part, Done
    <3>. QED  BY <3>1, <3>2
  <2>8. IsFiniteSet(Done)
    <3>1. IsFiniteSet(1 .. Handled)
      BY BytesFacts, FS_Interval DEF AInv
    <3>. QED  BY <3>1, FS_Subset
  <2> HIDE DEF part, Done
  <2>9. Sum(Weight, UNION {part[k] : k \in Done}) = Sum(Bytes, Done)
    BY <2>5, <2>6, <2>8, SumParts
  <2>. QED  BY <2>2, <2>3, <2>7, <2>9
<1>2. AInv /\ SizesInv /\ [Next]_vars => SizesInv'
  BY SizesStep
<1>. QED  BY AlwaysAInv, NothingElseGoes, SizesInit, <1>1, <1>2, PTL DEF Spec

=============================================================================
