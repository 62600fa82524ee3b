---------------------------- MODULE ReportStore ----------------------------
(***************************************************************************)
(* The saved reports: one file per report, and a line for it in an index   *)
(* that is only appended to.  Requests to save run concurrently, without a *)
(* lock; each is a scan or an import followed by save_report.  Writes may  *)
(* fail, with a part of the data written, and the process may be killed.   *)
(*                                                                         *)
(* Listing and opening change nothing: they are operators on the files.    *)
(***************************************************************************)
EXTENDS Integers, SequencesExt

CONSTANTS
  Save,       \* requests to save
  Source,     \* what each would save: Source[s] is fs, rclone, cache or json
  Size,       \* Size[s]: the length of the file of s, in pieces
  Clock,      \* the times in milliseconds that are met
  MaxCrashes  \* bound on kills of the process

ASSUME ReportStoreAssumption ==
  /\ IsFiniteSet(Save)
  /\ Source \in [Save -> {"fs", "rclone", "cache", "json"}]
  /\ Size \in [Save -> Nat \ {0}]
  /\ Clock \subseteq Nat \ {0}
  /\ MaxCrashes \in Nat

VARIABLES
  now,      \* SystemTime::now; it may be set back
  files,    \* files[i]: the pieces in {i}.json, each named by its save
  index,    \* the content of index.ndjson
  pc,       \* where the request s is
  ms,       \* the time at which s took its id
  failed,   \* saves of which a write failed, which the code ignores
  crashes   \* kills of the process so far

vars == <<now, files, index, pc, ms, failed, crashes>>

NoFile == <<"no file">>

Body(s) == [k \in 1 .. Size[s] |-> s]

\* index.ndjson is a sequence of what the calls of write appended.
Token == [of : Save, part : {"meta", "cut", "newline"}]

Init ==
  /\ now \in Clock
  /\ files = [i \in Clock |-> NoFile]
  /\ index = <<>>
  /\ pc = [s \in Save |-> "idle"]
  /\ ms = [s \in Save |-> 0]
  /\ failed = {}
  /\ crashes = 0

Goto(s, place) == pc' = [pc EXCEPT ![s] = place]

-----------------------------------------------------------------------------

\* A folder is scanned, and saved whatever came of it; a remote that cannot
\* be listed, or a file that is none of ours, is refused.
Request(s) ==
  /\ pc[s] = "idle"
  /\ \/ Goto(s, "id")
     \/ Source[s] # "fs" /\ Goto(s, "refused")
  /\ UNCHANGED <<now, files, index, ms, failed, crashes>>

IdPerSecond(s) == (ms[s] \div 1000) * 1000

Id(s) == ms[s]

TakeId(s) ==
  /\ pc[s] = "id"
  /\ ms' = [ms EXCEPT ![s] = now]
  /\ Goto(s, "create")
  /\ UNCHANGED <<now, files, index, failed, crashes>>

\* The first half of fs::write: the file is created, or emptied.
CreateFile(s) ==
  /\ pc[s] = "create"
  /\ \/ /\ files' = [files EXCEPT ![Id(s)] = <<>>]
        /\ Goto(s, "write")
        /\ UNCHANGED failed
     \/ /\ failed' = failed \cup {s}
        /\ Goto(s, "meta")
        /\ UNCHANGED files
  /\ UNCHANGED <<now, index, ms, crashes>>

WrittenAtEnd(old, new) == old \o new

\* A write at offset 0 leaves what lies beyond it.
Written(old, new) == new \o SubSeq(old, Len(new) + 1, Len(old))

\* The second half: all of it, or a part if it fails.
WriteFile(s) ==
  /\ pc[s] = "write"
  /\ \E k \in 0 .. Size[s] :
       /\ files' = [files EXCEPT ![Id(s)] = Written(@, SubSeq(Body(s), 1, k))]
       /\ failed' = IF k < Size[s] THEN failed \cup {s} ELSE failed
  /\ Goto(s, "meta")
  /\ UNCHANGED <<now, index, ms, crashes>>

AfterMetaNoNewline == "saved"

AfterMeta == "newline"

Append1(s, part) == index' = Append(index, [of |-> s, part |-> part])

\* writeln! on an unbuffered file makes two calls of write.  The first one
\* appends the line, or a part of it, or fails; then there is no second one.
\* Either way the answer is {"ok":true}.
AppendMeta(s) ==
  /\ pc[s] = "meta"
  /\ \/ /\ Append1(s, "meta")
        /\ Goto(s, AfterMeta)
        /\ UNCHANGED failed
     \/ /\ Append1(s, "cut") \/ UNCHANGED index
        /\ Goto(s, "saved")
        /\ failed' = failed \cup {s}
  /\ UNCHANGED <<now, files, ms, crashes>>

AppendNewline(s) ==
  /\ pc[s] = "newline"
  /\ \/ Append1(s, "newline") /\ UNCHANGED failed
     \/ failed' = failed \cup {s} /\ UNCHANGED index
  /\ Goto(s, "saved")
  /\ UNCHANGED <<now, files, ms, crashes>>

SaveStep(s) ==
  \/ Request(s) \/ TakeId(s) \/ CreateFile(s) \/ WriteFile(s)
  \/ AppendMeta(s) \/ AppendNewline(s)

Ended == {"idle", "refused", "saved", "dead"}

\* The process is killed and started again; what is written stays written.
Crash ==
  /\ crashes < MaxCrashes
  /\ crashes' = crashes + 1
  /\ pc' = [s \in Save |-> IF pc[s] \in Ended THEN pc[s] ELSE "dead"]
  /\ UNCHANGED <<now, files, index, ms, failed>>

Tick ==
  /\ now' \in Clock
  /\ UNCHANGED <<files, index, pc, ms, failed, crashes>>

Next == Crash \/ Tick \/ \E s \in Save : SaveStep(s)

Spec == Init /\ [][Next]_vars

-----------------------------------------------------------------------------

\* get_report, for an id: the parsed file, if it is one report's.
GetReport(i) == {s \in Save : files[i] = Body(s)}

\* list_reports joins the lines that are not blank: an array if each of them
\* is one whole meta object.
NotBlank == {k \in DOMAIN index : index[k].part # "newline"}

BeginsLine(k) == k = 1 \/ index[k - 1].part = "newline"

WholeLine(k) == index[k].part = "meta" /\ BeginsLine(k)

ListParses == \A k \in NotBlank : WholeLine(k)

Pc == {"id", "create", "write", "meta", "newline"} \cup Ended

TypeOK ==
  /\ now \in Clock
  /\ \A i \in DOMAIN files :
       files[i] = NoFile \/ files[i] \in BoundedSeq(Save, Max({Size[s] : s \in Save}))
  /\ DOMAIN files = Clock
  /\ index \in Seq(Token)
  /\ pc \in [Save -> Pc]
  /\ ms \in [Save -> Clock \cup {0}]
  /\ failed \subseteq Save
  /\ crashes \in 0 .. MaxCrashes

Listed(s) == \E k \in DOMAIN index : index[k].of = s /\ index[k].part = "meta"

TookId(s) == pc[s] \notin {"idle", "id", "refused"} /\ ms[s] # 0

SharesId(s) == \E u \in Save \ {s} : TookId(u) /\ ms[u] = ms[s]

(***************************************************************************)
(* A report that is in the list, or that the user was told is saved, is in *)
(* the list and opens with the data it was saved with, whatever other      *)
(* requests do and wherever the process is killed.  The exceptions are     *)
(* those of the code: a write of this report failed, which is ignored      *)
(* (main.rs:292-294), or another report was saved in the same millisecond  *)
(* and took the same id (:285).                                            *)
(***************************************************************************)
SavedOpens ==
  \A s \in Save : Listed(s) \/ pc[s] = "saved" =>
    \/ Listed(s) /\ s \in GetReport(Id(s))
    \/ s \in failed
    \/ SharesId(s)

\* The line of u is not ended yet when the next one begins.
Unfinished(u, k) ==
  \/ u \in failed
  \/ pc[u] \in {"newline", "dead"}
  \/ \E j \in DOMAIN index : j > k /\ index[j] = [of |-> u, part |-> "newline"]

(***************************************************************************)
(* The list of reports is whole (main.rs:265-268), but for two causes: a   *)
(* write failed, or a line was begun before an earlier one was ended,      *)
(* since writeln! (:294) makes two writes: by two requests at once, or by  *)
(* one after the process was killed between the two.                       *)
(***************************************************************************)
ListBrokenOnlyByTornLine ==
  \A k \in NotBlank :
    \/ WholeLine(k)
    \/ index[k].part = "cut" /\ index[k].of \in failed
    \/ ~BeginsLine(k) /\ Unfinished(index[k - 1].of, k)

=============================================================================
