---------------------------- MODULE FileJournal -----------------------------
(***************************************************************************)
(* FileJournal (src/persistence/file-journal.ts): records appended to a      *)
(* file one at a time, rotation of the file into numbered archives, close,   *)
(* and what restore() can read back after the process has crashed.          *)
(*                                                                         *)
(* record() chains its write to the promise of the one before it; a write    *)
(* suspends at each file-system call, any of which may fail.  A crash        *)
(* forgets the journal object and everything it had queued, and keeps the    *)
(* files; the next process makes a new journal on the same path.            *)
(*                                                                         *)
(* A file is a sequence of pieces, whole lines and torn ones, and its size    *)
(* is their number.  The list of the last ten errors is left out.           *)
(***************************************************************************)
EXTENDS Naturals, Sequences

CONSTANTS MaxRecords,   \* bound on the calls of record()
          MaxFileSize,  \* maxFileSizeBytes in pieces; 0 when the journal does not rotate
          MaxFiles      \* archives kept

ASSUME JournalAssumption == /\ MaxRecords \in Nat
                            /\ MaxFileSize \in Nat
                            /\ MaxFiles \in Nat \ {0}

\* Calls of record(), numbered in the order they are made; 0 stands for no call.
Records == 1..MaxRecords
None == 0

VARIABLES
  closed,     \* record() is refused
  writeQueue, \* the record whose promise is the tail of the queue
  pc,         \* where each call of record() is
  after,      \* the call each one is chained to
  slot,       \* the archive a rotating call renames next, 0 for the current file
  closeCall,  \* close(): none, the tail it awaits, or done
  files,      \* the current file (0) and the archives, oldest last; empty when absent
  written,    \* history: every piece that reached the disk, in order
  failed      \* history: calls that saw a file-system call of their own fail

queueVars == <<closed, writeQueue, pc, after, slot, closeCall>>
vars == <<queueVars, files, written, failed>>

Piece == [record : Records, whole : BOOLEAN]

TypeOK ==
  /\ closed \in BOOLEAN
  /\ writeQueue \in Records \cup {None}
  /\ pc \in [Records -> {"new", "waiting", "rename", "append",
                         "resolved", "rejected", "refused", "lost"}]
  /\ after \in [Records -> Records \cup {None}]
  /\ slot \in [Records -> 0..(MaxFiles - 1)]
  /\ closeCall \in [status : {"none", "draining", "done"}, tail : Records \cup {None}]
  /\ files \in [0..MaxFiles -> Seq(Piece)]
  /\ written \in Seq(Piece)
  /\ failed \in SUBSET Records

Init ==
  /\ closed = FALSE
  /\ writeQueue = None
  /\ pc = [r \in Records |-> "new"]
  /\ after = [r \in Records |-> None]
  /\ slot = [r \in Records |-> 0]
  /\ closeCall = [status |-> "none", tail |-> None]
  /\ files = [i \in 0..MaxFiles |-> <<>>]
  /\ written = <<>>
  /\ failed = {}

\* Mutant: a failed write holds up the queue.
settledWhenResolved(r) == r # None => pc[r] = "resolved"

\* The promise of a call is settled; catch() makes a rejected one as good as any.
settled(r) == r # None => pc[r] \in {"resolved", "rejected"}

-----------------------------------------------------------------------------
(* The journal.                                                            *)

record(r) ==
  /\ pc[r] = "new" /\ \A q \in 1..(r - 1) : pc[q] # "new"
  /\ IF closed
     THEN /\ pc' = [pc EXCEPT ![r] = "refused"]
          /\ UNCHANGED <<writeQueue, after>>
     ELSE /\ pc' = [pc EXCEPT ![r] = "waiting"]
          /\ after' = [after EXCEPT ![r] = writeQueue]
          /\ writeQueue' = r
  /\ UNCHANGED <<closed, slot, closeCall, files, written, failed>>

\* Mutant: the write does not wait for the one before it.
rotateAtOnce(r) ==
  /\ pc[r] = "waiting"
  /\ IF MaxFileSize > 0 /\ Len(files[0]) >= MaxFileSize
     THEN /\ pc' = [pc EXCEPT ![r] = "rename"]
          /\ slot' = [slot EXCEPT ![r] = MaxFiles - 1]
     ELSE /\ pc' = [pc EXCEPT ![r] = "append"]
          /\ UNCHANGED slot
  /\ UNCHANGED <<closed, writeQueue, after, closeCall, files, written, failed>>

\* Mutant: the rejection of the write before is passed on.
rotateUnlessRejected(r) ==
  /\ pc[r] = "waiting" /\ settled(after[r])
  /\ IF after[r] # None /\ pc[after[r]] = "rejected"
     THEN /\ pc' = [pc EXCEPT ![r] = "rejected"]
          /\ UNCHANGED slot
     ELSE /\ pc' = [pc EXCEPT ![r] = "append"]
          /\ UNCHANGED slot
  /\ UNCHANGED <<closed, writeQueue, after, closeCall, files, written, failed>>

\* Mutant: the rotation begins one archive too far.
rotateFromMaxFiles(r) ==
  /\ pc[r] = "waiting" /\ settled(after[r])
  /\ IF MaxFileSize > 0 /\ Len(files[0]) >= MaxFileSize
     THEN /\ pc' = [pc EXCEPT ![r] = "rename"]
          /\ slot' = [slot EXCEPT ![r] = MaxFiles]
     ELSE /\ pc' = [pc EXCEPT ![r] = "append"]
          /\ UNCHANGED slot
  /\ UNCHANGED <<closed, writeQueue, after, closeCall, files, written, failed>>

\* The write begins by asking for the size of the file.
rotateIfNeeded(r) ==
  /\ pc[r] = "waiting" /\ settled(after[r])
  /\ IF MaxFileSize > 0 /\ Len(files[0]) >= MaxFileSize
     THEN /\ pc' = [pc EXCEPT ![r] = "rename"]
          /\ slot' = [slot EXCEPT ![r] = MaxFiles - 1]
     ELSE /\ pc' = [pc EXCEPT ![r] = "append"]
          /\ UNCHANGED slot
  /\ UNCHANGED <<closed, writeQueue, after, closeCall, files, written, failed>>

\* One rename, oldest archive first; it replaces its target, and a missing file is skipped.
rotate(r) ==
  /\ pc[r] = "rename"
  /\ LET i == slot[r] IN
       files' = IF files[i] = <<>> THEN files
                ELSE [files EXCEPT ![i + 1] = files[i], ![i] = <<>>]
  /\ IF slot[r] = 0
     THEN pc' = [pc EXCEPT ![r] = "append"] /\ UNCHANGED slot
     ELSE slot' = [slot EXCEPT ![r] = @ - 1] /\ UNCHANGED pc
  /\ UNCHANGED <<closed, writeQueue, after, closeCall, written, failed>>

\* What an append leaves on the disk.
Put(piece) == /\ files' = [files EXCEPT ![0] = Append(@, piece)]
              /\ written' = Append(written, piece)

writeOnce(r) ==
  /\ pc[r] = "append"
  /\ Put([record |-> r, whole |-> TRUE])
  /\ pc' = [pc EXCEPT ![r] = "resolved"]
  /\ UNCHANGED <<closed, writeQueue, after, slot, closeCall, failed>>

\* A stat, a rename or the append fails; a failed append may have written a part of the line.
FsFails(r) ==
  /\ \/ pc[r] = "waiting" /\ settled(after[r]) /\ MaxFileSize > 0
     \/ pc[r] \in {"rename", "append"}
  /\ \/ UNCHANGED <<files, written>>
     \/ pc[r] = "append" /\ Put([record |-> r, whole |-> FALSE])
  /\ pc' = [pc EXCEPT ![r] = "rejected"]
  /\ failed' = failed \cup {r}
  /\ UNCHANGED <<closed, writeQueue, after, slot, closeCall>>

\* Mutant: records are still taken while the journal drains.
closeTakesRecords ==
  /\ closeCall.status = "none"
  /\ closeCall' = [status |-> "draining", tail |-> writeQueue]
  /\ UNCHANGED <<closed, writeQueue, pc, after, slot, files, written, failed>>

close ==
  /\ closeCall.status = "none"
  /\ closed' = TRUE
  /\ closeCall' = [status |-> "draining", tail |-> writeQueue]
  /\ UNCHANGED <<writeQueue, pc, after, slot, files, written, failed>>

closeReturns ==
  /\ closeCall.status = "draining" /\ settled(closeCall.tail)
  /\ closeCall' = [status |-> "done", tail |-> None]
  /\ UNCHANGED <<closed, writeQueue, pc, after, slot, files, written, failed>>

-----------------------------------------------------------------------------
(* The process.                                                            *)

Pending == {r \in Records : pc[r] \in {"waiting", "rename", "append"}}

\* An append under way may have reached the disk, in part or as a whole.
Crash ==
  /\ \/ UNCHANGED <<files, written>>
     \/ \E r \in Records, whole \in BOOLEAN :
          pc[r] = "append" /\ Put([record |-> r, whole |-> whole])
  /\ pc' = [r \in Records |-> IF r \in Pending THEN "lost" ELSE pc[r]]
  /\ closed' = FALSE
  /\ writeQueue' = None
  /\ closeCall' = [status |-> "none", tail |-> None]
  /\ UNCHANGED <<after, slot, failed>>

Write(r) == rotateIfNeeded(r) \/ rotate(r) \/ writeOnce(r) \/ FsFails(r)

Next == \/ \E r \in Records : record(r) \/ Write(r)
        \/ close \/ closeReturns
        \/ Crash

\* File-system calls return.
Fairness == \A r \in Records : WF_vars(Write(r))

Spec == Init /\ [][Next]_vars
FairSpec == Spec /\ Fairness

-----------------------------------------------------------------------------
(* Restoring.                                                              *)

\* A line ends with the newline of a whole piece, so a piece that follows a torn one is on
\* the torn one's line, which does not parse.
parses(file, i) == file[i].whole /\ (i > 1 => file[i - 1].whole)

restore == {files[0][i].record : i \in {j \in DOMAIN files[0] : parses(files[0], j)}}

-----------------------------------------------------------------------------
(* Properties.                                                             *)

\* The file i holds what was written from after start[i] up to where the next newer file begins.
End(start, i) == IF i = 0 THEN Len(written) ELSE start[i - 1]
HoldsPart(start, i) ==
  start[i] <= End(start, i) /\ files[i] = SubSeq(written, start[i] + 1, End(start, i))
OnDisk(start) == \A i \in 0..MaxFiles : HoldsPart(start, i)

\* Two calls never write at the same time, whichever of them fail.
OneWriter ==
  \A r, q \in Records :
    pc[r] \in {"rename", "append"} /\ pc[q] \in {"rename", "append"} => r = q

\* Read from the oldest archive to the current file, the disk holds the last pieces
\* written, in order and without a hole: a rotation interrupted by an error or a crash
\* between two renames, and resumed by a later one, drops nothing but the oldest archive.
\* Meanwhile no two calls write at the same time, whichever of them fail.
DiskIsSuffix ==
  TypeOK /\ OneWriter /\ \E start \in [0..MaxFiles -> 0..Len(written)] : OnDisk(start)

\* When close() returns nothing is queued or being written, and the journal stays quiet
\* until the process is started again.
ClosedIsQuiet == closeCall.status = "done" => Pending = {}

\* A record that is rejected failed by itself: the failure of a write is never passed on
\* to the writes queued behind it.
FailureIsOwn == \A r \in Records : pc[r] = "rejected" => r \in failed

\* Every record accepted is settled, or lost with the process, whatever fails before it.
RecordSettles ==
  \A r \in Records : pc[r] = "waiting" ~> pc[r] \in {"resolved", "rejected", "lost"}

\* "Corrupt lines (e.g., from a mid-write crash) are reported separately"
\* (docs/guides/persistence.md:52), so the entries of complete writes are restored.  The
\* first append after a torn line continues that line, and restore reports both as one
\* corrupt line, although record() resolved.
ResolvedIsRestored ==
  \A i \in DOMAIN files[0] : pc[files[0][i].record] = "resolved" => files[0][i].record \in restore
=============================================================================
