------------------------- MODULE ReportStoreProofs -------------------------
(***************************************************************************)
(* A saved report opens, for any number of requests, sizes and kills,      *)
(* unless one of its writes failed or its millisecond was taken twice.     *)
(***************************************************************************)
EXTENDS ReportStore, DataLemmas

\* What the argument needs to know of the types.
Types ==
  /\ now \in Clock
  /\ DOMAIN files = Clock
  /\ index \in Seq(Token)
  /\ pc \in [Save -> Pc]
  /\ ms \in [Save -> Clock \cup {0}]

\* Whoever has come so far has taken an id.
Timed == \A s \in Save : pc[s] \in {"create", "write", "meta", "newline", "saved"} => ms[s] \in Clock

\* A line is written late.
ListedLate ==
  \A s \in Save : Listed(s) => pc[s] \in {"newline", "saved", "dead"} /\ ms[s] \in Clock

Alone(s) == s \notin failed /\ ~SharesId(s)

\* What the file of s holds, if no one else writes to it.
Holds(s) ==
  /\ pc[s] = "write" => files[ms[s]] = <<>>
  /\ pc[s] \in {"meta", "newline", "saved"} \/ Listed(s) => files[ms[s]] = Body(s)
  /\ pc[s] \in {"newline", "saved"} => Listed(s)

HoldsOwn == \A s \in Save : Alone(s) => Holds(s)

RInv == Types /\ Timed /\ ListedLate /\ HoldsOwn

-----------------------------------------------------------------------------

\* A whole body written to an empty file.
LEMMA WholeBody ==
  ASSUME NEW s \in Save
  PROVE  Written(<<>>, SubSeq(Body(s), 1, Size[s])) = Body(s)
<1>1. Size[s] \in Nat \ {0} /\ Body(s) \in Seq(Save) /\ Len(Body(s)) = Size[s]
  BY ReportStoreAssumption DEF Body
<1>2. SubSeq(Body(s), 1, Size[s]) = Body(s)
  BY <1>1
<1>3. SubSeq(<<>>, Size[s] + 1, 0) = <<>>
  BY <1>1
<1>4. Body(s) \o <<>> = Body(s)
  BY <1>1
<1> QED
  BY <1>1, <1>2, <1>3, <1>4 DEF Written

\* What a write appends to the index lists at most the report it is of.
LEMMA AppendLists ==
  ASSUME index \in Seq(Token), NEW tok \in Token, index' = Append(index, tok)
  PROVE  /\ index' \in Seq(Token)
         /\ \A t : Listed(t)' <=> Listed(t) \/ (tok.of = t /\ tok.part = "meta")
<1>1. index' \in Seq(Token) /\ DOMAIN index' = DOMAIN index \cup {Len(index) + 1}
  BY DEF Token
<1>2. \A k \in DOMAIN index : index'[k] = index[k]
  BY DEF Token
<1>3. index'[Len(index) + 1] = tok
  OBVIOUS
<1> QED
  BY <1>1, <1>2, <1>3 DEF Listed

\* An id that is shared stays shared.
LEMMA SharedStays ==
  ASSUME Types, NEW t \in Save, ms'[t] = ms[t], SharesId(t),
         \A u \in Save : TookId(u) => TookId(u)' /\ ms'[u] = ms[u]
  PROVE  SharesId(t)'
BY DEF SharesId, Types

LEMMA InitRInv == Init => RInv
<1> SUFFICES ASSUME Init PROVE RInv
  OBVIOUS
<1>1. Types
  BY DEF Init, Types, Pc, Ended
<1>2. \A s \in Save : pc[s] = "idle" /\ ~Listed(s)
  BY DEF Init, Listed
<1> QED
  BY <1>1, <1>2 DEF RInv, Timed, ListedLate, HoldsOwn, Holds

-----------------------------------------------------------------------------
(* One lemma per step.                                                     *)

LEMMA RequestKeeps ==
  ASSUME RInv, NEW s \in Save, Request(s)
  PROVE  RInv'
<1> USE DEF RInv
<1>1. Types'
  BY DEF Request, Goto, Types, Pc, Ended
<1>2. \A t \in Save : SharesId(t) => SharesId(t)'
  BY SharedStays DEF Request, Goto, Types, TookId
<1>3. \A t \in Save : Listed(t)' <=> Listed(t)
  BY DEF Request, Listed
<1>4. ~Listed(s)
  BY DEF Request, ListedLate
<1>5. Timed' /\ ListedLate'
  BY <1>3, <1>4 DEF Request, Goto, Types, Timed, ListedLate
<1>6. HoldsOwn'
  BY <1>2, <1>3, <1>4 DEF Request, Goto, Types, HoldsOwn, Holds, Alone, Body
<1> QED
  BY <1>1, <1>5, <1>6

LEMMA TakeIdKeeps ==
  ASSUME RInv, NEW s \in Save, TakeId(s)
  PROVE  RInv'
<1> USE DEF RInv
<1>1. Types'
  BY DEF TakeId, Goto, Types, Pc, Ended
<1>2. \A t \in Save \ {s} : SharesId(t) => SharesId(t)'
  BY SharedStays DEF TakeId, Goto, Types, TookId
<1>3. \A t \in Save : Listed(t)' <=> Listed(t)
  BY DEF TakeId, Listed
<1>4. ~Listed(s) /\ pc'[s] = "create" /\ ms'[s] \in Clock
  BY DEF TakeId, Goto, Types, ListedLate
<1>5. Timed' /\ ListedLate'
  BY <1>3, <1>4 DEF TakeId, Goto, Types, Timed, ListedLate
<1>6. HoldsOwn'
  BY <1>2, <1>3, <1>4 DEF TakeId, Goto, Types, HoldsOwn, Holds, Alone, Body
<1> QED
  BY <1>1, <1>5, <1>6

\* Whoever writes to the file of t has its id.
LEMMA OthersFile ==
  ASSUME RInv, NEW s \in Save, NEW t \in Save \ {s},
         pc[s] \in {"create", "write"}, ms[t] = ms[s], ms' = ms,
         pc'[s] \in {"write", "meta"}
  PROVE  SharesId(t)'
<1>1. ms[s] \in Clock /\ ms[s] # 0
  BY ReportStoreAssumption DEF RInv, Timed
<1>2. TookId(s)'
  BY <1>1 DEF TookId
<1> QED
  BY <1>2 DEF SharesId

LEMMA CreateFileKeeps ==
  ASSUME RInv, NEW s \in Save, CreateFile(s)
  PROVE  RInv'
<1> USE DEF RInv
<1>1. Types'
  BY DEF CreateFile, Goto, Types, Pc, Ended
<1>2. \A t \in Save : SharesId(t) => SharesId(t)'
  BY SharedStays DEF CreateFile, Goto, Types, TookId
<1>3. \A t \in Save : Listed(t)' <=> Listed(t)
  BY DEF CreateFile, Listed
<1>4. ~Listed(s)
  BY DEF CreateFile, ListedLate
<1>5. Timed' /\ ListedLate'
  BY <1>3, <1>4 DEF CreateFile, Goto, Types, Timed, ListedLate
<1>6. ASSUME NEW t \in Save, Alone(t)'
      PROVE  Holds(t)'
  <2>1. Alone(t)
    BY <1>2, <1>6 DEF CreateFile, Alone
  <2>2. CASE t = s
    BY <1>3, <1>4, <1>6, <2>2 DEF CreateFile, Goto, Types, Timed, Holds, Alone, Id
  <2>3. CASE t # s
    <3>1. ms[t] # ms[s]
      BY <1>6, <2>3, OthersFile DEF CreateFile, Goto, Types, Alone
    <3>2. ms[t] \in Clock => files'[ms[t]] = files[ms[t]]
      BY <3>1 DEF CreateFile, Types, Id
    <3>3. pc'[t] = pc[t] /\ ms'[t] = ms[t]
      BY <2>3 DEF CreateFile, Goto, Types
    <3> QED
      BY <1>3, <2>1, <3>2, <3>3 DEF HoldsOwn, Holds, Body, Timed, ListedLate
  <2> QED
    BY <2>2, <2>3
<1> QED
  BY <1>1, <1>5, <1>6 DEF HoldsOwn

LEMMA WriteFileKeeps ==
  ASSUME RInv, NEW s \in Save, WriteFile(s)
  PROVE  RInv'
<1> USE DEF RInv
<1>1. Types'
  BY DEF WriteFile, Goto, Types, Pc, Ended
<1>2. \A t \in Save : SharesId(t) => SharesId(t)'
  BY SharedStays DEF WriteFile, Goto, Types, TookId
<1>3. \A t \in Save : Listed(t)' <=> Listed(t)
  BY DEF WriteFile, Listed
<1>4. ~Listed(s)
  BY DEF WriteFile, ListedLate
<1>5. Timed' /\ ListedLate'
  BY <1>3, <1>4 DEF WriteFile, Goto, Types, Timed, ListedLate
<1>6. PICK k \in 0 .. Size[s] :
        /\ files' = [files EXCEPT ![Id(s)] = Written(@, SubSeq(Body(s), 1, k))]
        /\ failed' = IF k < Size[s] THEN failed \cup {s} ELSE failed
  BY DEF WriteFile
<1>7. ASSUME NEW t \in Save, Alone(t)'
      PROVE  Holds(t)'
  <2>1. Alone(t)
    BY <1>2, <1>6, <1>7 DEF Alone
  <2>2. CASE t = s
    <3>1. k = Size[s]
      BY <1>6, <1>7, <2>2, ReportStoreAssumption DEF Alone
    <3>2. files[ms[s]] = <<>> /\ ms[s] \in Clock
      BY <2>1, <2>2 DEF WriteFile, HoldsOwn, Holds, Timed
    <3>3. files'[ms[s]] = Body(s)
      BY <1>6, <3>1, <3>2, WholeBody DEF Types, Id
    <3> QED
      BY <1>3, <1>4, <2>2, <3>3 DEF WriteFile, Goto, Types, Holds, Body
  <2>3. CASE t # s
    <3>1. ms[t] # ms[s]
      BY <1>7, <2>3, OthersFile DEF WriteFile, Goto, Types, Alone
    <3>2. ms[t] \in Clock => files'[ms[t]] = files[ms[t]]
      BY <1>6, <3>1 DEF Types, Id
    <3>3. pc'[t] = pc[t] /\ ms'[t] = ms[t]
      BY <2>3 DEF WriteFile, Goto, Types
    <3> QED
      BY <1>3, <2>1, <3>2, <3>3 DEF HoldsOwn, Holds, Body, Timed, ListedLate
  <2> QED
    BY <2>2, <2>3
<1> QED
  BY <1>1, <1>5, <1>7 DEF HoldsOwn

LEMMA AppendMetaKeeps ==
  ASSUME RInv, NEW s \in Save, AppendMeta(s)
  PROVE  RInv'
<1> USE DEF RInv
<1>1. PICK part \in {"meta", "cut", "none"} :
        /\ index' = IF part = "none" THEN index ELSE Append(index, [of |-> s, part |-> part])
        /\ part = "meta" => pc' = [pc EXCEPT ![s] = "newline"] /\ failed' = failed
        /\ part # "meta" => pc' = [pc EXCEPT ![s] = "saved"] /\ failed' = failed \cup {s}
  BY DEF AppendMeta, Append1, Goto, AfterMeta
<1>2. [of |-> s, part |-> part] \in Token \/ part = "none"
  BY DEF Token
<1>3. /\ index' \in Seq(Token)
      /\ \A t \in Save : Listed(t)' <=> Listed(t) \/ (t = s /\ part = "meta")
  <2>1. CASE part = "none"
    BY <1>1, <2>1 DEF Types, Listed
  <2>2. CASE part # "none"
    BY <1>1, <1>2, <2>2, AppendLists DEF Types
  <2> QED
    BY <2>1, <2>2
<1>4. Types'
  BY <1>1, <1>3 DEF AppendMeta, Types, Pc, Ended
<1>5. \A t \in Save : SharesId(t) => SharesId(t)'
  BY <1>1, SharedStays DEF AppendMeta, Types, TookId
<1>6. ms[s] \in Clock
  BY DEF AppendMeta, Timed
<1>7. Timed' /\ ListedLate'
  BY <1>1, <1>3, <1>6 DEF AppendMeta, Types, Timed, ListedLate
<1>8. ASSUME NEW t \in Save, Alone(t)'
      PROVE  Holds(t)'
  <2>1. Alone(t) /\ files' = files /\ ms' = ms
    BY <1>1, <1>5, <1>8 DEF AppendMeta, Alone
  <2>2. CASE t = s
    <3>1. part = "meta"
      BY <1>1, <1>8, <2>2 DEF Alone
    <3> QED
      BY <1>1, <1>3, <2>1, <2>2, <3>1 DEF AppendMeta, Types, HoldsOwn, Holds, Body
  <2>3. CASE t # s
    BY <1>1, <1>3, <2>1, <2>3 DEF Types, HoldsOwn, Holds, Body
  <2> QED
    BY <2>2, <2>3
<1> QED
  BY <1>4, <1>7, <1>8 DEF HoldsOwn

LEMMA AppendNewlineKeeps ==
  ASSUME RInv, NEW s \in Save, AppendNewline(s)
  PROVE  RInv'
<1> USE DEF RInv
<1>1. /\ index' \in Seq(Token)
      /\ \A t \in Save : Listed(t)' <=> Listed(t)
  <2>1. CASE index' = index
    BY <2>1 DEF Types, Listed
  <2>2. CASE Append1(s, "newline")
    <3>1. [of |-> s, part |-> "newline"] \in Token
      BY DEF Token
    <3> QED
      BY <2>2, <3>1, AppendLists DEF Types, Append1
  <2> QED
    BY <2>1, <2>2 DEF AppendNewline
<1>2. Types'
  BY <1>1 DEF AppendNewline, Goto, Types, Pc, Ended
<1>3. \A t \in Save : SharesId(t) => SharesId(t)'
  BY SharedStays DEF AppendNewline, Goto, Types, TookId
<1>4. Timed' /\ ListedLate'
  BY <1>1 DEF AppendNewline, Goto, Types, Timed, ListedLate
<1>5. \A t \in Save : Alone(t)' => Alone(t)
  BY <1>3 DEF AppendNewline, Alone
<1>6. HoldsOwn'
  BY <1>1, <1>5 DEF AppendNewline, Goto, Types, HoldsOwn, Holds, Body
<1> QED
  BY <1>2, <1>4, <1>6

LEMMA CrashKeeps ==
  ASSUME RInv, Crash
  PROVE  RInv'
<1> USE DEF RInv
<1>1. Types'
  BY DEF Crash, Types, Pc, Ended
<1>2. \A t \in Save : SharesId(t) => SharesId(t)'
  BY SharedStays DEF Crash, Types, TookId, Ended
<1>3. \A t \in Save : Listed(t)' <=> Listed(t)
  BY DEF Crash, Listed
<1>4. \A t \in Save : pc'[t] = pc[t] \/ pc'[t] = "dead"
  BY DEF Crash, Types
<1>5. Timed' /\ ListedLate'
  BY <1>3, <1>4 DEF Crash, Types, Timed, ListedLate, Ended
<1>6. HoldsOwn'
  BY <1>2, <1>3, <1>4 DEF Crash, Types, HoldsOwn, Holds, Alone, Body
<1> QED
  BY <1>1, <1>5, <1>6

\* The clock, or nothing.
LEMMA RestKeeps ==
  ASSUME RInv, now' \in Clock, UNCHANGED <<files, index, pc, ms, failed>>
  PROVE  RInv'
BY DEF RInv, Types, Timed, ListedLate, HoldsOwn, Holds, Alone, SharesId, TookId, Listed, Body

-----------------------------------------------------------------------------

LEMMA RStep ==
  ASSUME RInv, [Next]_vars
  PROVE  RInv'
<1>1. CASE Crash
  BY <1>1, CrashKeeps
<1>2. CASE Tick
  BY <1>2, RestKeeps DEF Tick
<1>3. ASSUME NEW s \in Save, SaveStep(s) PROVE RInv'
  BY <1>3, RequestKeeps, TakeIdKeeps, CreateFileKeeps, WriteFileKeeps,
     AppendMetaKeeps, AppendNewlineKeeps DEF SaveStep
<1>4. CASE UNCHANGED vars
  BY <1>4, RestKeeps DEF vars, RInv, Types
<1>. QED  BY <1>1, <1>2, <1>3, <1>4 DEF Next

(***************************************************************************)
(* SavedOpens for every set of requests: a report that is listed, or was   *)
(* said to be saved, opens with its own data but for the exceptions named. *)
(***************************************************************************)
THEOREM SavedReportsOpen == Spec => []SavedOpens
<1>1. RInv /\ [Next]_vars => RInv'
  BY RStep
<1>2. RInv => SavedOpens
  BY DEF RInv, SavedOpens, HoldsOwn, Holds, Alone, GetReport, Id
<1>. QED  BY InitRInv, <1>1, <1>2, PTL DEF Spec

-----------------------------------------------------------------------------
(* The lines of the index.                                                 *)

\* A cut line is of a failed save; a line of u is ended, or u will end it, or
\* u cannot any more.
EndedLater(u, k) ==
  \/ u \in failed
  \/ pc[u] \in {"newline", "dead"}
  \/ \E j \in DOMAIN index : j > k /\ index[j] = [of |-> u, part |-> "newline"]

LinesInv ==
  \A k \in DOMAIN index :
    /\ index[k].part = "cut" => index[k].of \in failed
    /\ index[k].part = "meta" => EndedLater(index[k].of, k)

LEMMA LinesInit == Init => LinesInv
BY DEF Init, LinesInv

LEMMA TokensAreOfSaves ==
  ASSUME index \in Seq(Token)
  PROVE  /\ Len(index) \in Nat /\ DOMAIN index = 1 .. Len(index)
         /\ \A k \in DOMAIN index : index[k] \in Token
         /\ \A k \in DOMAIN index : index[k].of \in Save
<1>1. Len(index) \in Nat /\ DOMAIN index = 1 .. Len(index)
  OBVIOUS
<1>2. \A k \in DOMAIN index : index[k] \in Token
  OBVIOUS
<1>. QED  BY <1>1, <1>2 DEF Token

\* A step that appends nothing, and of which no one's line ends unfinished.
LEMMA LinesStay ==
  ASSUME LinesInv, index \in Seq(Token), index' = index, failed \subseteq failed',
         \A u \in Save :
           pc[u] \in {"newline", "dead"} => u \in failed' \/ pc'[u] \in {"newline", "dead"}
  PROVE  LinesInv'
BY TokensAreOfSaves DEF LinesInv, EndedLater

LEMMA LinesGrow ==
  ASSUME LinesInv, index \in Seq(Token), NEW tok \in Token, index' = Append(index, tok),
         failed \subseteq failed',
         \A u \in Save : pc[u] \in {"newline", "dead"} =>
           \/ u \in failed' \/ pc'[u] \in {"newline", "dead"}
           \/ tok = [of |-> u, part |-> "newline"],
         tok.part = "cut" => tok.of \in failed',
         tok.part = "meta" => pc'[tok.of] = "newline"
  PROVE  LinesInv'
<1>1. /\ Len(index) \in Nat /\ DOMAIN index = 1 .. Len(index)
      /\ \A k \in DOMAIN index : index[k].of \in Save
  BY TokensAreOfSaves
<1>2. /\ DOMAIN index' = 1 .. Len(index) + 1 /\ index'[Len(index) + 1] = tok
      /\ \A k \in DOMAIN index : index'[k] = index[k]
  BY <1>1
<1>3. \A k \in DOMAIN index : k \in DOMAIN index' /\ Len(index) + 1 > k /\ Len(index) + 1 \in DOMAIN index'
  BY <1>1, <1>2
<1>4. \A k \in DOMAIN index : \A u \in Save : EndedLater(u, k) => EndedLater(u, k)'
  BY <1>2, <1>3 DEF EndedLater
<1>5. \A k \in DOMAIN index' : k \in DOMAIN index \/ k = Len(index) + 1
  BY <1>1, <1>2
<1>6. \A k \in DOMAIN index :
        /\ index'[k].part = "cut" => index'[k].of \in failed'
        /\ index'[k].part = "meta" => EndedLater(index[k].of, k)'
  <2> SUFFICES ASSUME NEW k \in DOMAIN index
               PROVE  /\ index'[k].part = "cut" => index'[k].of \in failed'
                      /\ index'[k].part = "meta" => EndedLater(index[k].of, k)'
    OBVIOUS
  <2>1. /\ index[k].part = "cut" => index[k].of \in failed
        /\ index[k].part = "meta" => EndedLater(index[k].of, k)
    BY DEF LinesInv
  <2>2. PICK u \in Save : u = index[k].of
    BY <1>1
  <2>3. index[k].part = "meta" => EndedLater(u, k)'
    BY <1>4, <2>1, <2>2
  <2>. QED  BY <1>2, <2>1, <2>2, <2>3 DEF EndedLater
<1>7. PICK l : l = Len(index) + 1
  OBVIOUS
<1>8. /\ index'[l] = tok
      /\ tok.part = "cut" => tok.of \in failed'
      /\ tok.part = "meta" => EndedLater(tok.of, l)'
  BY <1>2, <1>7 DEF EndedLater
<1>. QED  BY <1>2, <1>5, <1>6, <1>7, <1>8 DEF LinesInv, EndedLater

LEMMA LinesStep ==
  ASSUME RInv, LinesInv, [Next]_vars
  PROVE  LinesInv'
<1>1. index \in Seq(Token) /\ pc \in [Save -> Pc]
  BY DEF RInv, Types
<1>2. CASE \E s \in Save : AppendMeta(s)
  <2>1. PICK s \in Save : AppendMeta(s)
    BY <1>2
  <2>2. pc[s] = "meta" /\ \A u \in Save \ {s} : pc'[u] = pc[u]
    BY <1>1, <2>1 DEF AppendMeta, Goto
  <2>3. CASE Append1(s, "meta") /\ failed' = failed /\ pc'[s] = "newline"
    <3>1. [of |-> s, part |-> "meta"] \in Token
      BY DEF Token
    <3>. QED  BY <1>1, <2>2, <2>3, <3>1, LinesGrow DEF Append1
  <2>4. CASE Append1(s, "cut") /\ failed' = failed \cup {s}
    <3>1. [of |-> s, part |-> "cut"] \in Token
      BY DEF Token
    <3>. QED  BY <1>1, <2>2, <2>4, <3>1, LinesGrow DEF Append1
  <2>5. CASE index' = index /\ failed' = failed \cup {s}
    BY <1>1, <2>2, <2>5, LinesStay
  <2>. QED  BY <1>1, <2>1, <2>3, <2>4, <2>5 DEF AppendMeta, Goto, AfterMeta
<1>3. CASE \E s \in Save : AppendNewline(s)
  <2>1. PICK s \in Save : AppendNewline(s)
    BY <1>3
  <2>2. \A u \in Save \ {s} : pc'[u] = pc[u]
    BY <1>1, <2>1 DEF AppendNewline, Goto
  <2>3. CASE Append1(s, "newline") /\ failed' = failed
    <3>1. [of |-> s, part |-> "newline"] \in Token
      BY DEF Token
    <3>. QED  BY <1>1, <2>2, <2>3, <3>1, LinesGrow DEF Append1
  <2>4. CASE index' = index /\ failed' = failed \cup {s}
    BY <1>1, <2>2, <2>4, LinesStay
  <2>. QED  BY <2>1, <2>3, <2>4 DEF AppendNewline
<1>4. CASE Crash
  <2>1. \A u \in Save : pc[u] \in {"newline", "dead"} => pc'[u] = "dead"
    BY <1>1, <1>4 DEF Crash, Ended
  <2>2. index' = index /\ failed' = failed
    BY <1>4 DEF Crash
  <2>. QED  BY <1>1, <2>1, <2>2, LinesStay
<1>5. ASSUME NEW s \in Save, Request(s) \/ TakeId(s) \/ CreateFile(s) \/ WriteFile(s)
      PROVE  LinesInv'
  <2>1. index' = index /\ failed \subseteq failed' /\ pc[s] \notin {"newline", "dead"}
    BY <1>5 DEF Request, TakeId, CreateFile, WriteFile
  <2>2. \A u \in Save \ {s} : pc'[u] = pc[u]
    BY <1>1, <1>5 DEF Request, TakeId, CreateFile, WriteFile, Goto
  <2>. QED  BY <1>1, <2>1, <2>2, LinesStay
<1>6. CASE Tick \/ UNCHANGED vars
  BY <1>1, <1>6, LinesStay DEF Tick, vars
<1>. QED  BY <1>2, <1>3, <1>4, <1>5, <1>6 DEF Next, SaveStep

(***************************************************************************)
(* The list of reports is whole but for the two causes named, whatever the *)
(* number of requests, their interleaving and the kills in between: an     *)
(* entry that does not parse is a failed write, or follows a line that was *)
(* not ended when the entry was written.                                   *)
(***************************************************************************)
THEOREM OnlyTornLinesBreakTheList == Spec => []ListBrokenOnlyByTornLine
<1>1. RInv /\ LinesInv => ListBrokenOnlyByTornLine
  <2> SUFFICES ASSUME RInv, LinesInv, NEW k \in NotBlank
               PROVE  \/ WholeLine(k)
                      \/ index[k].part = "cut" /\ index[k].of \in failed
                      \/ ~BeginsLine(k) /\ Unfinished(index[k - 1].of, k)
    BY DEF ListBrokenOnlyByTornLine
  <2>1. /\ k \in DOMAIN index /\ DOMAIN index = 1 .. Len(index) /\ Len(index) \in Nat
        /\ \A j \in DOMAIN index : index[j] \in Token
    BY DEF NotBlank, RInv, Types
  <2>2. index[k].part \in {"meta", "cut"}
    BY <2>1 DEF NotBlank, Token
  <2>3. CASE index[k].part = "cut"
    BY <2>1, <2>3 DEF LinesInv
  <2>4. CASE index[k].part = "meta" /\ BeginsLine(k)
    BY <2>4 DEF WholeLine
  <2>5. CASE ~BeginsLine(k)
    <3>1. k - 1 \in DOMAIN index /\ index[k - 1].part \in {"meta", "cut"}
      BY <2>1, <2>5 DEF BeginsLine, Token
    <3>2. index[k - 1].of \in failed \/ EndedLater(index[k - 1].of, k - 1)
      BY <3>1 DEF LinesInv
    <3>3. \A j \in DOMAIN index : j > k - 1 /\ index[j].part = "newline" => j > k
      BY <2>1, <2>2
    <3>. QED  BY <2>5, <3>2, <3>3 DEF EndedLater, Unfinished
  <2>. QED  BY <2>2, <2>3, <2>4, <2>5
<1>2. RInv /\ LinesInv /\ [Next]_vars => (RInv /\ LinesInv)'
  BY RStep, LinesStep
<1>. QED  BY InitRInv, LinesInit, <1>1, <1>2, PTL DEF Spec

-----------------------------------------------------------------------------
(* The length of a file.                                                   *)

Most == Max({Size[s] : s \in Save})

\* What a file may hold: no more pieces than the longest report.
Pieces(q) == Save # {} /\ q \in Seq(Save) /\ Len(q) <= Most

LEMMA MostIsMost ==
  ASSUME NEW s \in Save
  PROVE  Most \in Nat /\ Size[s] <= Most
<1> DEFINE S == {Size[u] : u \in Save}
<1>1. IsFiniteSet(S)
  BY FiniteImage, ReportStoreAssumption
<1>2. S \subseteq Nat /\ S # {} /\ Size[s] \in S
  BY ReportStoreAssumption
<1>3. \E m \in S : \A l \in S : l <= m
  <2> HIDE DEF S
  <2>. QED  BY <1>1, <1>2, FiniteMaximum
<1>4. \E m \in S : \A l \in S : m >= l
  BY <1>2, <1>3
<1>5. Most \in S /\ \A l \in S : Most >= l
  BY <1>4 DEF Most, Max
<1>. QED  BY <1>2, <1>5

LEMMA PiecesAreBounded ==
  ASSUME NEW q, Pieces(q)
  PROVE  q \in BoundedSeq(Save, Most)
<1>1. Most \in Nat
  BY MostIsMost DEF Pieces
<1>2. Len(q) \in 0 .. Most /\ q \in [1 .. Len(q) -> Save]
  BY <1>1 DEF Pieces
<1>. QED  BY <1>2 DEF BoundedSeq, SeqOf

LEMMA WrittenPieces ==
  ASSUME NEW s \in Save, NEW k \in 0 .. Size[s], NEW old, Pieces(old)
  PROVE  Pieces(Written(old, SubSeq(Body(s), 1, k)))
<1>1. /\ Size[s] \in Nat \ {0} /\ k \in Nat /\ k <= Size[s] /\ Most \in Nat /\ Size[s] <= Most
  BY MostIsMost, ReportStoreAssumption
<1>2. Body(s) \in Seq(Save) /\ Len(Body(s)) = Size[s]
  BY <1>1 DEF Body
<1>3. PICK new : new = SubSeq(Body(s), 1, k)
  OBVIOUS
<1>4. new \in Seq(Save) /\ Len(new) = k
  BY <1>1, <1>2, <1>3
<1>5. old \in Seq(Save) /\ Len(old) \in Nat /\ Len(old) <= Most
  BY DEF Pieces
<1>6. PICK rest : rest = SubSeq(old, k + 1, Len(old))
  OBVIOUS
<1>7. /\ rest \in Seq(Save)
      /\ Len(rest) = IF k + 1 <= Len(old) THEN Len(old) - (k + 1) + 1 ELSE 0
  BY <1>1, <1>5, <1>6, SubSeqProperties
<1>8. new \o rest \in Seq(Save) /\ Len(new \o rest) = k + Len(rest)
  BY <1>4, <1>7
<1>9. Len(new \o rest) <= Most
  BY <1>1, <1>5, <1>7, <1>8
<1>. QED  BY <1>3, <1>4, <1>6, <1>8, <1>9 DEF Written, Pieces

FilesInv ==
  /\ \A t \in Clock : files[t] = NoFile \/ Pieces(files[t])
  /\ \A s \in Save : pc[s] = "write" => Pieces(files[ms[s]])
  /\ failed \subseteq Save
  /\ crashes \in 0 .. MaxCrashes

LEMMA FilesInit == Init => FilesInv
BY ReportStoreAssumption DEF Init, FilesInv

LEMMA FilesStep ==
  ASSUME RInv, FilesInv, [Next]_vars
  PROVE  FilesInv'
<1>1. DOMAIN files = Clock /\ pc \in [Save -> Pc] /\ Timed /\ ms \in [Save -> Clock \cup {0}]
  BY DEF RInv, Types
<1>2. \A q : Pieces(q)' <=> Pieces(q)
  BY DEF Pieces, Most
<1>3. ASSUME NEW s \in Save, CreateFile(s) PROVE FilesInv'
  <2>1. Pieces(<<>>)
    BY MostIsMost DEF Pieces
  <2>2. ms[s] \in Clock /\ crashes' = crashes /\ ms' = ms
    BY <1>1, <1>3 DEF CreateFile, Timed
  <2>3. CASE files' = [files EXCEPT ![ms[s]] = <<>>] /\ failed' = failed
    BY <1>1, <1>2, <1>3, <2>1, <2>2, <2>3 DEF FilesInv, CreateFile, Goto
  <2>4. CASE files' = files /\ failed' = failed \cup {s} /\ Goto(s, "meta")
    BY <1>1, <1>2, <2>2, <2>4 DEF FilesInv, Goto
  <2>. QED  BY <1>3, <2>3, <2>4 DEF CreateFile, Id
<1>4. ASSUME NEW s \in Save, WriteFile(s) PROVE FilesInv'
  <2>1. PICK k \in 0 .. Size[s] :
          /\ files' = [files EXCEPT ![ms[s]] = Written(files[ms[s]], SubSeq(Body(s), 1, k))]
          /\ failed' \subseteq failed \cup {s}
    BY <1>4 DEF WriteFile, Id
  <2>2. /\ ms[s] \in Clock /\ crashes' = crashes /\ ms' = ms /\ pc[s] = "write"
        /\ pc' = [pc EXCEPT ![s] = "meta"]
    BY <1>1, <1>4 DEF WriteFile, Timed, Goto
  <2>3. Pieces(Written(files[ms[s]], SubSeq(Body(s), 1, k)))
    BY <2>2, WrittenPieces DEF FilesInv
  <2>. QED  BY <1>1, <1>2, <2>1, <2>2, <2>3 DEF FilesInv
<1>5. CASE Crash
  BY <1>1, <1>2, <1>5, ReportStoreAssumption DEF FilesInv, Crash
<1>6. ASSUME files' = files, failed' \subseteq Save, crashes' = crashes,
             \A s \in Save : pc'[s] = "write" => pc[s] = "write" /\ ms'[s] = ms[s]
      PROVE  FilesInv'
  BY <1>2, <1>6 DEF FilesInv
<1>7. ASSUME NEW s \in Save, Request(s) \/ TakeId(s) \/ AppendMeta(s) \/ AppendNewline(s)
      PROVE  FilesInv'
  <2>1. /\ files' = files /\ failed' \subseteq Save /\ crashes' = crashes
        /\ pc' = [pc EXCEPT ![s] = pc'[s]] /\ pc'[s] # "write"
        /\ \A t \in Save \ {s} : ms'[t] = ms[t]
    BY <1>1, <1>7 DEF Request, TakeId, AppendMeta, AppendNewline, Goto, AfterMeta, FilesInv
  <2>. QED  BY <1>1, <1>6, <2>1
<1>8. CASE Tick \/ UNCHANGED vars
  BY <1>6, <1>8 DEF Tick, vars, FilesInv
<1>. QED  BY <1>3, <1>4, <1>5, <1>7, <1>8 DEF Next, SaveStep

(***************************************************************************)
(* The types: in particular, a file that two saves with one id both write  *)
(* never holds more than the longer of their reports.                      *)
(***************************************************************************)
THEOREM StoreTypeCorrect == Spec => []TypeOK
<1>1. RInv /\ FilesInv => TypeOK
  <2> SUFFICES ASSUME RInv, FilesInv PROVE TypeOK
    OBVIOUS
  <2>1. \A t \in Clock : files[t] = NoFile \/ files[t] \in BoundedSeq(Save, Most)
    BY PiecesAreBounded DEF FilesInv
  <2>. QED  BY <2>1 DEF RInv, Types, FilesInv, TypeOK, Most
<1>2. RInv /\ FilesInv /\ [Next]_vars => (RInv /\ FilesInv)'
  BY RStep, FilesStep
<1>. QED  BY InitRInv, FilesInit, <1>1, <1>2, PTL DEF Spec

=============================================================================
