-------------------------- MODULE ServerFilesProofs --------------------------
(***************************************************************************)
(* What the rows of the server name is on its disk, for uploads into a     *)
(* space and for the attachments of tickets, for every finite set of files, *)
(* every set of tickets and all bounds.                                    *)
(*                                                                         *)
(* The first part is about UploadSession alone, for any uploads, any number *)
(* of parts, names, crashes and lost answers: types, the parts of an upload, *)
(* and where the files of finished uploads are, and how often, which depends *)
(* on who may still rename a file into the folder.                         *)
(*                                                                         *)
(* AttachmentsKept says where the file of an attachment is, and is not     *)
(* inductive: a drain removes what the garbage names, the sweep moves what *)
(* the journals name, and a commit makes rows name what journals name.  So *)
(* FilesInv also says what folders, garbage, journals and the transaction  *)
(* hold, and that a file is never at two places.                           *)
(***************************************************************************)
EXTENDS MCServerFiles, WellFoundedInduction, FiniteSetTheorems, TLAPS

-----------------------------------------------------------------------------
(* the uploads of UploadSession *)

\* Who finishes owns the row of its task, and a part is only written for a task that
\* still lacks it.
Owners ==
    /\ ~Unlocked => finisher.task \in Task /\ row[finisher.task] = "finishing"
    /\ \A t \in Task : row[t] \in {"writing", "stored"} =>
           task[t].status = "active" /\ task[t].parts < Parts

Typed == TypeOK /\ Owners

TaskRow == [status : {"none", "active", "review"} \cup Ended, keep : BOOLEAN,
            parts : 0..Parts, live : BOOLEAN, entry : Name \cup {None}]

\* An upload that may go on has its parts in a folder that is not 48 hours old, also while
\* a part is on its way and the task expires behind it; so has the folder of a task that
\* is still to be created.
InFolder(t) ==
    /\ Open(t) \/ row[t] \in {"writing", "stored"} =>
           ~old[t] /\ 1..task[t].parts \subseteq stored[t]
    /\ row[t] = "stored" => task[t].parts + 1 \in stored[t]
    /\ task[t].status = "none" => ~old[t]

\* What a request or a sweep still removes belongs to a task that ended.
Folders ==
    /\ \A t \in Task : InFolder(t)
    /\ \A t \in doomed : task[t].status \in Ended

\* PartsKept is not inductive: it says nothing of a part that is being written, nor of
\* the age of the folder by which the sweep decides.
Kept == Typed /\ Folders

-----------------------------------------------------------------------------
(* The least free name *)

Less == {p \in Nat \X Nat : p[1] < p[2]}

LEMMA LessIsWellFounded == IsWellFoundedOn(Less, Nat)
<1>1. OpToRel(<, Nat) = Less
  BY DEF OpToRel, Less
<1>2. QED
  BY <1>1, NatLessThanWellFounded, Zenon

LEMMA LeastNumber ==
    ASSUME NEW S \in SUBSET Nat, S # {}
    PROVE  \E k \in S : \A l \in S : k <= l
<1>1. PICK k \in S : \A l \in S : <<l, k>> \notin Less
  BY LessIsWellFounded, WFMin, Zenon
<1>2. \A l \in S : ~ (l < k)
  BY <1>1 DEF Less
<1>3. QED
  BY <1>2

LEMMA AvailableIsFree ==
    ASSUME FreeNames # {}
    PROVE  Available \in FreeNames
<1>1. FreeNames \in SUBSET Nat
  BY UploadBounds DEF FreeNames, Name
<1>2. \E k \in FreeNames : \A l \in FreeNames : k <= l
  BY <1>1, LeastNumber
<1>3. QED
  BY <1>2 DEF Available

-----------------------------------------------------------------------------
(* Types *)

LEMMA TypedInit ==
    ASSUME Init
    PROVE  Typed
BY UploadBounds DEF Init, Typed, TypeOK, Owners, Unlocked, Nobody, Ended

LEMMA TypedTask ==
    ASSUME Typed, TaskNext
    PROVE  Typed'
<1>1. ASSUME NEW t \in Task, NEW keep \in BOOLEAN, Create(t, keep)
      PROVE  Typed'
  BY <1>1, UploadBounds DEF Create, disk, Typed, TypeOK, Owners, Unlocked
<1>2. ASSUME NEW t \in Task, BeginPart(t)
      PROVE  Typed'
  BY <1>2 DEF BeginPart, Open, Typed, TypeOK, Owners, Unlocked
<1>3. ASSUME NEW t \in Task, StorePart(t)
      PROVE  Typed'
  BY <1>3, UploadBounds DEF StorePart, Typed, TypeOK, Owners, Unlocked
<1>4. ASSUME NEW t \in Task, CommitPart(t)
      PROVE  Typed'
  <2>1. task[t] \in TaskRow /\ task[t].parts + 1 \in 0..Parts
    BY <1>4, UploadBounds DEF CommitPart, Typed, TypeOK, Owners, TaskRow
  <2>2. task' \in [Task -> TaskRow]
    BY <1>4, <2>1 DEF CommitPart, Typed, TypeOK, TaskRow
  <2>3. /\ \A s \in Task \ {t} : task'[s] = task[s] /\ row'[s] = row[s]
        /\ row'[t] = "free"
    BY <1>4 DEF CommitPart, Typed, TypeOK
  <2>4. row' \in [Task -> {"free", "writing", "stored", "reading", "finishing"}]
    BY <1>4 DEF CommitPart, Typed, TypeOK
  <2>5. TypeOK'
    BY <1>4, <2>2, <2>4 DEF CommitPart, disk, Typed, TypeOK, TaskRow
  <2>6. Owners'
    BY <1>4, <2>3 DEF CommitPart, disk, Typed, Owners, Unlocked
  <2>7. QED
    BY <2>5, <2>6 DEF Typed
<1>5. ASSUME NEW t \in Task, row[t] # "finishing", FreeRow(t)
      PROVE  Typed'
  BY <1>5 DEF FreeRow, disk, Typed, TypeOK, Owners, Unlocked
<1>6. ASSUME NEW t \in Task, ReadTask(t)
      PROVE  Typed'
  BY <1>6 DEF ReadTask, disk, Typed, TypeOK, Owners, Unlocked
<1>7. ASSUME NEW t \in Task, ExpireTask(t)
      PROVE  Typed'
  <2>1. task' \in [Task -> TaskRow]
    <3>1. task[t] \in TaskRow
      BY DEF Typed, TypeOK, TaskRow
    <3>2. [task[t] EXCEPT !.live = FALSE] \in TaskRow
      BY <3>1 DEF TaskRow
    <3>3. task' = [task EXCEPT ![t] = [task[t] EXCEPT !.live = FALSE]]
      BY <1>7 DEF ExpireTask, Typed, TypeOK
    <3>4. QED
      BY <3>2, <3>3 DEF Typed, TypeOK, TaskRow
  <2>2. \A s \in Task : /\ task'[s].status = task[s].status
                        /\ task'[s].parts = task[s].parts
    BY <1>7 DEF ExpireTask, Typed, TypeOK
  <2>3. TypeOK'
    BY <1>7, <2>1 DEF ExpireTask, disk, Typed, TypeOK, TaskRow
  <2>4. Owners'
    BY <1>7, <2>2 DEF ExpireTask, disk, Typed, Owners, Unlocked
  <2>5. QED
    BY <2>3, <2>4 DEF Typed
<1>8. ASSUME NEW t \in Task, AgeFolder(t)
      PROVE  Typed'
  BY <1>8 DEF AgeFolder, Typed, TypeOK, Owners, Unlocked
<1>9. ASSUME NEW t \in Task, BeginFinish(t)
      PROVE  Typed'
  <2>1. (IF task[t].keep THEN Available ELSE 1) \in Name
    BY <1>9, AvailableIsFree, UploadBounds DEF BeginFinish, FreeNames, Name
  <2>2. QED
    BY <1>9, <2>1 DEF BeginFinish, Typed, TypeOK, Owners, Unlocked
<1>10. ASSUME NEW t \in Task, Cancel(t)
       PROVE  Typed'
  BY <1>10 DEF Cancel, disk, Typed, TypeOK, Owners, Unlocked, Ended
<1>11. QED
  BY <1>1, <1>2, <1>3, <1>4, <1>5, <1>6, <1>7, <1>8, <1>9, <1>10 DEF TaskNext

LEMMA SavedTypes ==
    ASSUME Typed, ~Unlocked, task' = Saved(finisher.task)
    PROVE  /\ task' \in [Task -> TaskRow]
           /\ \A t \in Task \ {finisher.task} : task'[t] = task[t]
           /\ task'[finisher.task].status \in Ended
<1>1. finisher.task \in Task /\ finisher.name \in Name \cup {None}
  BY DEF Typed, TypeOK, Owners
<1> DEFINE Status == IF finisher.phase = "published" THEN "complete" ELSE "skipped"
           Row == [task[finisher.task] EXCEPT
                       !.status = Status, !.entry = finisher.name, !.live = TRUE]
<1>2. task[finisher.task] \in TaskRow
  BY <1>1 DEF Typed, TypeOK, TaskRow
<1>3. Status \in Ended
  BY DEF Ended
<1>4. Row \in TaskRow /\ Row.status = Status
  BY <1>1, <1>2, <1>3 DEF TaskRow
<1>5. task' = [task EXCEPT ![finisher.task] = Row]
  BY DEF Saved
<1>6. task' \in [Task -> TaskRow]
  BY <1>4, <1>5 DEF Typed, TypeOK, TaskRow
<1>7. /\ \A t \in Task \ {finisher.task} : task'[t] = task[t]
      /\ task'[finisher.task] = Row
  BY <1>1, <1>5 DEF Typed, TypeOK
<1>8. QED
  BY <1>3, <1>4, <1>6, <1>7

LEMMA TypedFinish ==
    ASSUME Typed, Publish \/ CommitFinish \/ FailFinish \/ LoseCommit
    PROVE  Typed'
<1>1. CASE Publish
  <2>1. CASE finisher' = [finisher EXCEPT !.phase = "skipped"] /\ UNCHANGED file
    BY <1>1, <2>1 DEF Publish, Typed, TypeOK, Owners, Unlocked
  <2>2. CASE /\ FreeNames # {}
             /\ finisher' = [finisher EXCEPT !.phase = "published", !.name = Available]
             /\ file' = [file EXCEPT ![Available] = finisher.task]
    <3>1. Available \in Name
      BY <2>2, AvailableIsFree DEF FreeNames
    <3>2. finisher.task \in Task
      BY <1>1 DEF Publish, Typed, Owners, Unlocked
    <3>3. QED
      BY <1>1, <2>2, <3>1, <3>2 DEF Publish, Typed, TypeOK, Owners, Unlocked
  <2>3. QED
    BY <1>1, <2>1, <2>2 DEF Publish
<1>2. ASSUME ~Unlocked
      PROVE  finisher.task \in Task /\ row[finisher.task] = "finishing"
  BY <1>2 DEF Typed, Owners
<1>3. ASSUME ~Unlocked, ReleaseLocks
      PROVE  /\ Unlocked'
             /\ finisher' \in [task : Task \cup {None}, name : Name \cup {None},
                               phase : {"none", "merged", "published", "skipped"}]
             /\ row' \in [Task -> {"free", "writing", "stored", "reading", "finishing"}]
             /\ row'[finisher.task] = "free"
             /\ \A t \in Task \ {finisher.task} : row'[t] = row[t]
  BY <1>2, <1>3 DEF ReleaseLocks, Nobody, Unlocked, Typed, TypeOK
<1>4. ASSUME finisher.phase \in {"published", "skipped"}, task' = Saved(finisher.task)
      PROVE  /\ task' \in [Task -> TaskRow]
             /\ \A t \in Task \ {finisher.task} : task'[t] = task[t]
             /\ task'[finisher.task].status \in Ended
  BY <1>4, SavedTypes DEF Unlocked
<1>5. MovedBack \in [Name -> Task \cup {Outside, None}]
  BY DEF MovedBack, Typed, TypeOK
<1>6. CASE CommitFinish
  BY <1>2, <1>3, <1>4, <1>6 DEF CommitFinish, disk, TaskRow, Typed, TypeOK, Owners, Unlocked
<1>7. CASE FailFinish
  BY <1>2, <1>3, <1>5, <1>7 DEF FailFinish, TaskRow, Typed, TypeOK, Owners, Unlocked
<1>8. CASE LoseCommit
  BY <1>2, <1>3, <1>4, <1>5, <1>8 DEF LoseCommit, TaskRow, Typed, TypeOK, Owners, Unlocked
<1>9. QED
  BY <1>1, <1>6, <1>7, <1>8

LEMMA SweptTypes ==
    ASSUME Typed, NEW t \in Task
    PROVE  /\ Swept(t) \in TaskRow
           /\ row[t] # "free" => Swept(t) = task[t]
           /\ Swept(t).parts = task[t].parts
           /\ task[t].status \in Ended => Swept(t) = task[t]
           /\ Swept(t).status = "active" => Swept(t) = task[t]
<1>1. CASE t \notin Of("active")
  BY <1>1 DEF Swept, TaskRow, Typed, TypeOK, Of, Known
<1>2. CASE t \in Of("active") /\ Recoverable(t)
  <2>1. task[t] \in TaskRow /\ receipt[t] \in Name /\ row[t] = "free"
    BY <1>2 DEF Recoverable, TaskRow, Typed, TypeOK, Of, Known
  <2>2. Swept(t) = [task[t] EXCEPT !.status = "complete", !.entry = receipt[t],
                                   !.live = TRUE]
    BY <1>2 DEF Swept
  <2>3. task[t].status = "active"
    BY <1>2 DEF Of
  <2>4. QED
    BY <2>1, <2>2, <2>3 DEF TaskRow, Ended
<1>3. CASE t \in Of("active") /\ ~Recoverable(t)
  BY <1>3 DEF Swept, TaskRow, Typed, TypeOK, Of, Known, Ended
<1>4. QED
  BY <1>1, <1>2, <1>3

LEMMA TypedSweep ==
    ASSUME Typed, Sweep
    PROVE  Typed'
<1>1. /\ task' \in [Task -> TaskRow]
      /\ \A t \in Task : row[t] # "free" => task'[t] = task[t]
  BY SweptTypes DEF Sweep
<1>2. rows' \subseteq Name
  BY DEF Sweep, Of, Known, Recoverable, Disputed, Typed, TypeOK
<1>3. doomed' \subseteq Task /\ unknown' \subseteq Task
  BY DEF Sweep, Known, Typed, TypeOK
<1>4. QED
  BY <1>1, <1>2, <1>3 DEF Sweep, TaskRow, disk, Typed, TypeOK, Owners, Unlocked

LEMMA TypedFolder ==
    ASSUME Typed, FolderNext
    PROVE  Typed'
<1>1. ASSUME NEW t \in Task, RemoveFolder(t) \/ RemoveUnknown(t)
      PROVE  Typed'
  BY <1>1 DEF RemoveFolder, RemoveUnknown, EmptyFolder, Typed, TypeOK, Owners, Unlocked
<1>2. ASSUME NEW k \in Name, Register(k)
      PROVE  Typed'
  BY <1>2 DEF Register, disk, Typed, TypeOK, Owners, Unlocked
<1>3. ASSUME NEW k \in Name, PlaceOutside(k)
      PROVE  Typed'
  BY <1>3 DEF PlaceOutside, Typed, TypeOK, Owners, Unlocked
<1>4. ASSUME NEW k \in Name, DeleteEntry(k)
      PROVE  Typed'
  <2>1. \A t \in Task : /\ task'[t].status = task[t].status
                        /\ task'[t].parts = task[t].parts
    BY <1>4 DEF DeleteEntry, Typed, TypeOK
  <2>2. task' \in [Task -> TaskRow]
    BY <1>4 DEF DeleteEntry, TaskRow, Typed, TypeOK
  <2>3. QED
    BY <1>4, <2>1, <2>2 DEF DeleteEntry, TaskRow, disk, Typed, TypeOK, Owners, Unlocked
<1>5. ASSUME NEW failed \in SUBSET Name, Drain(failed)
      PROVE  Typed'
  BY <1>5 DEF Drain, Without, Typed, TypeOK, Owners, Unlocked
<1>6. ASSUME NEW gone \in SUBSET Name, Crash(gone)
      PROVE  Typed'
  BY <1>6 DEF Crash, Without, Nobody, Typed, TypeOK, Owners, Unlocked
<1>7. QED
  BY <1>1, <1>2, <1>3, <1>4, <1>5, <1>6 DEF FolderNext

LEMMA TypedStep ==
    ASSUME Typed, [Next]_vars
    PROVE  Typed'
<1>1. CASE UNCHANGED vars
  BY <1>1 DEF vars, disk, Typed, TypeOK, Owners, Unlocked
<1>2. CASE Next
  BY <1>2, TypedTask, TypedFinish, TypedSweep, TypedFolder DEF Next
<1>3. QED
  BY <1>1, <1>2

\* Rows, files, folders and transactions keep their shapes, whatever is uploaded,
\* placed, deleted or lost.
THEOREM TypeCorrect == Spec => []TypeOK
<1>1. Typed => TypeOK
  BY DEF Typed
<1>2. QED
  BY <1>1, TypedInit, TypedStep, PTL DEF Spec

-----------------------------------------------------------------------------
(* Parts *)

LEMMA FoldersInit ==
    ASSUME Init
    PROVE  Folders
BY DEF Init, Folders, InFolder, Open

\* A task whose row, folder and transaction are as before is as before.
LEMMA SameFolder ==
    ASSUME Kept, NEW t \in Task,
           task'[t].status = task[t].status, task'[t].parts = task[t].parts,
           task'[t].live => task[t].live,
           stored'[t] = stored[t], old'[t] => old[t],
           row'[t] \in {"writing", "stored"} => row'[t] = row[t]
    PROVE  InFolder(t)'
BY DEF Kept, Folders, InFolder, Open

LEMMA FoldersTask ==
    ASSUME Kept, TaskNext
    PROVE  Folders'
<1> USE DEF Ended
<1>1. ASSUME NEW t \in Task, NEW keep \in BOOLEAN, Create(t, keep)
      PROVE  Folders'
  <2>1. \A s \in Task \ {t} : InFolder(s)'
    BY <1>1, SameFolder DEF Create, disk, Kept, Typed, TypeOK
  <2>2. /\ task'[t].parts = 0 /\ task[t].status = "none"
        /\ \A s \in Task \ {t} : task'[s] = task[s]
    BY <1>1 DEF Create, Kept, Typed, TypeOK
  <2>3. InFolder(t)'
    BY <1>1, <2>2 DEF Create, disk, Kept, Folders, InFolder, Typed, Owners
  <2>4. \A s \in doomed' : task'[s].status \in Ended
    BY <1>1, <2>2 DEF Create, Kept, Folders, Typed, TypeOK
  <2>5. QED
    BY <2>1, <2>3, <2>4 DEF Folders
<1>2. ASSUME NEW t \in Task, BeginPart(t)
      PROVE  Folders'
  BY <1>2 DEF BeginPart, Kept, Folders, InFolder, Open, Typed, TypeOK
<1>3. ASSUME NEW t \in Task, StorePart(t)
      PROVE  Folders'
  BY <1>3 DEF StorePart, Kept, Folders, InFolder, Open, Typed, TypeOK
<1>4. ASSUME NEW t \in Task, CommitPart(t)
      PROVE  Folders'
  <2>1. \A s \in Task \ {t} : InFolder(s)'
    BY <1>4, SameFolder DEF CommitPart, disk, Kept, Typed, TypeOK
  <2>2. /\ task'[t].parts = task[t].parts + 1 /\ task'[t].status = task[t].status
        /\ row'[t] = "free" /\ task[t].parts \in Nat
        /\ \A s \in Task \ {t} : task'[s] = task[s]
    BY <1>4, UploadBounds DEF CommitPart, Kept, Typed, TypeOK
  <2>3. /\ ~old[t] /\ 1..task[t].parts \subseteq stored[t]
        /\ task[t].parts + 1 \in stored[t]
    BY <1>4 DEF CommitPart, Kept, Folders, InFolder
  <2>4. 1..(task[t].parts + 1) \subseteq stored[t]
    BY <2>2, <2>3
  <2>5. InFolder(t)'
    BY <1>4, <2>2, <2>3, <2>4 DEF CommitPart, disk, InFolder
  <2>6. \A s \in doomed' : task'[s].status \in Ended
    BY <1>4, <2>2 DEF CommitPart, Kept, Folders, Typed, TypeOK
  <2>7. QED
    BY <2>1, <2>5, <2>6 DEF Folders
<1>5. ASSUME NEW t \in Task, FreeRow(t) \/ ReadTask(t)
      PROVE  Folders'
  BY <1>5 DEF FreeRow, ReadTask, disk, Kept, Folders, InFolder, Open, Typed, TypeOK
<1>6. ASSUME NEW t \in Task, ExpireTask(t)
      PROVE  Folders'
  <2>1. \A s \in Task : /\ task'[s].status = task[s].status
                        /\ task'[s].parts = task[s].parts
                        /\ task'[s].live => task[s].live
    BY <1>6 DEF ExpireTask, Kept, Typed, TypeOK
  <2>2. QED
    BY <1>6, <2>1, SameFolder DEF ExpireTask, disk, Kept, Folders, Typed, TypeOK
<1>7. ASSUME NEW t \in Task, AgeFolder(t)
      PROVE  Folders'
  BY <1>7 DEF AgeFolder, Kept, Folders, InFolder, Open, Typed, TypeOK
<1>8. ASSUME NEW t \in Task, BeginFinish(t)
      PROVE  Folders'
  BY <1>8 DEF BeginFinish, Kept, Folders, InFolder, Open, Typed, TypeOK
<1>9. ASSUME NEW t \in Task, Cancel(t)
      PROVE  Folders'
  <2>1. /\ task'[t].status = "cancelled" /\ row[t] = "free"
        /\ \A s \in Task \ {t} : task'[s] = task[s]
    BY <1>9 DEF Cancel, Kept, Typed, TypeOK
  <2>2. \A s \in Task \ {t} : InFolder(s)'
    BY <1>9, <2>1, SameFolder DEF Cancel, disk
  <2>3. InFolder(t)'
    BY <1>9, <2>1 DEF Cancel, disk, InFolder, Open
  <2>4. \A s \in doomed' : task'[s].status \in Ended
    BY <1>9, <2>1 DEF Cancel, Kept, Folders, Typed, TypeOK
  <2>5. QED
    BY <2>2, <2>3, <2>4 DEF Folders
<1>10. QED
  BY <1>1, <1>2, <1>3, <1>4, <1>5, <1>6, <1>7, <1>8, <1>9 DEF TaskNext

LEMMA FoldersFinish ==
    ASSUME Kept, Publish \/ CommitFinish \/ FailFinish \/ LoseCommit
    PROVE  Folders'
<1>1. CASE Publish
  <2>1. \A t \in Task : InFolder(t)'
    BY <1>1, SameFolder DEF Publish
  <2>2. QED
    BY <1>1, <2>1 DEF Publish, Kept, Folders
<1>2. ASSUME ~Unlocked
      PROVE  finisher.task \in Task
  BY <1>2 DEF Kept, Typed, Owners
<1>3. ASSUME ~Unlocked, ReleaseLocks
      PROVE  \A t \in Task : row'[t] \in {"writing", "stored"} => row'[t] = row[t]
  BY <1>2, <1>3 DEF ReleaseLocks, Kept, Typed, TypeOK
<1>4. ASSUME CommitFinish \/ LoseCommit
      PROVE  Folders'
  <2>1. ~Unlocked /\ finisher.task \in Task
    BY <1>2, <1>4 DEF CommitFinish, LoseCommit, Unlocked
  <2>2. PICK t \in Task : t = finisher.task
    BY <2>1
  <2>3. task' = Saved(finisher.task)
    BY <1>4 DEF CommitFinish, LoseCommit
  <2>4. /\ task'[t].status \in Ended
        /\ \A s \in Task \ {t} : task'[s] = task[s]
    BY <2>1, <2>2, <2>3, SavedTypes DEF Kept
  <2>5. row'[t] = "free"
    BY <1>4, <2>2 DEF CommitFinish, LoseCommit, ReleaseLocks, Kept, Typed, TypeOK
  <2>6. UNCHANGED <<stored, old>> /\ ReleaseLocks
    BY <1>4 DEF CommitFinish, LoseCommit, disk
  <2>7. \A s \in Task \ {t} : InFolder(s)'
    BY <1>3, <2>1, <2>4, <2>6, SameFolder
  <2>8. InFolder(t)'
    BY <2>4, <2>5 DEF InFolder, Open, Ended
  <2>9. doomed' \subseteq doomed \cup {t}
    BY <1>4, <2>2 DEF CommitFinish, LoseCommit
  <2>10. \A s \in doomed' : task'[s].status \in Ended
    BY <2>4, <2>9 DEF Kept, Folders, Typed, TypeOK
  <2>11. QED
    BY <2>7, <2>8, <2>10 DEF Folders
<1>5. CASE FailFinish
  <2>1. \A t \in Task : InFolder(t)'
    BY <1>3, <1>5, SameFolder DEF FailFinish
  <2>2. QED
    BY <1>5, <2>1 DEF FailFinish, Kept, Folders
<1>6. QED
  BY <1>1, <1>4, <1>5

LEMMA FoldersSweep ==
    ASSUME Kept, Sweep
    PROVE  Folders'
<1>1. \A t \in Task : task'[t] = Swept(t)
  BY DEF Sweep
<1>2. ASSUME NEW t \in Task
      PROVE  InFolder(t)'
  <2>1. CASE task'[t] = task[t]
    BY <2>1, SameFolder DEF Sweep, disk
  <2>2. CASE task'[t] # task[t]
    <3>1. row[t] = "free" /\ task'[t].status # "active" /\ task'[t].status # "none"
      <4>1. t \in Of("active")
        BY <1>1, <2>2 DEF Swept
      <4>2. row[t] = "free" /\ task[t] \in TaskRow
        BY <4>1 DEF Of, Known, Kept, Typed, TypeOK, TaskRow
      <4>3. Swept(t) # task[t]
        BY <1>1, <2>2
      <4>4. Swept(t).status \in {"complete", "review", "expired"}
        BY <4>1, <4>2, <4>3 DEF Swept, TaskRow
      <4>5. QED
        BY <1>1, <4>2, <4>4
    <3>2. QED
      BY <3>1 DEF Sweep, disk, InFolder, Open
  <2>3. QED
    BY <2>1, <2>2
<1>3. \A t \in doomed' : task'[t].status \in Ended
  <2>1. \A t \in doomed : task'[t].status \in Ended
    BY <1>1, SweptTypes DEF Kept, Folders, Typed, TypeOK
  <2>2. doomed' = doomed \cup {t \in Known : HasFolder(t) /\ Swept(t).status \in Ended}
    BY DEF Sweep
  <2>3. QED
    BY <1>1, <2>1, <2>2 DEF Known
<1>4. QED
  BY <1>2, <1>3 DEF Folders

LEMMA FoldersFolder ==
    ASSUME Kept, FolderNext
    PROVE  Folders'
<1>1. ASSUME NEW t \in Task, RemoveFolder(t) \/ RemoveUnknown(t)
      PROVE  Folders'
  <2>1. task[t].status \in Ended \/ old[t]
    BY <1>1 DEF RemoveFolder, RemoveUnknown, Abandoned, Kept, Folders
  <2>2. /\ task[t].status # "none"
        /\ ~Open(t) /\ row[t] \notin {"writing", "stored"}
    BY <2>1 DEF Kept, Folders, InFolder, Typed, Owners, Ended, Open
  <2>3. UNCHANGED <<task, row>> /\ doomed' \subseteq doomed
    BY <1>1 DEF RemoveFolder, RemoveUnknown, EmptyFolder
  <2>4. InFolder(t)'
    BY <2>2, <2>3 DEF InFolder, Open
  <2>5. \A s \in Task \ {t} : stored'[s] = stored[s] /\ old'[s] = old[s]
    BY <1>1 DEF RemoveFolder, RemoveUnknown, EmptyFolder, Kept, Typed, TypeOK
  <2>6. \A s \in Task \ {t} : InFolder(s)'
    BY <2>3, <2>5, SameFolder
  <2>7. QED
    BY <2>3, <2>4, <2>6 DEF Kept, Folders
<1>2. ASSUME NEW k \in Name, Register(k) \/ PlaceOutside(k)
      PROVE  Folders'
  BY <1>2 DEF Register, PlaceOutside, disk, Kept, Folders, InFolder, Open
<1>3. ASSUME NEW k \in Name, DeleteEntry(k)
      PROVE  Folders'
  <2>1. \A t \in Task : /\ task'[t].status = task[t].status
                        /\ task'[t].parts = task[t].parts
                        /\ task'[t].live = task[t].live
    BY <1>3 DEF DeleteEntry, Kept, Typed, TypeOK
  <2>2. \A t \in Task : InFolder(t)'
    BY <1>3, <2>1, SameFolder DEF DeleteEntry, disk
  <2>3. QED
    BY <1>3, <2>1, <2>2 DEF DeleteEntry, Kept, Folders, Typed, TypeOK
<1>4. ASSUME NEW failed \in SUBSET Name, Drain(failed)
      PROVE  Folders'
  BY <1>4 DEF Drain, Kept, Folders, InFolder, Open
<1>5. ASSUME NEW gone \in SUBSET Name, Crash(gone)
      PROVE  Folders'
  BY <1>5 DEF Crash, Kept, Folders, InFolder, Open
<1>6. QED
  BY <1>1, <1>2, <1>3, <1>4, <1>5 DEF FolderNext

LEMMA KeptStep ==
    ASSUME Kept, [Next]_vars
    PROVE  Kept'
<1>1. Typed'
  BY TypedStep DEF Kept
<1>2. ASSUME UNCHANGED vars
      PROVE  Folders'
  BY <1>2 DEF vars, disk, Kept, Folders, InFolder, Open
<1>3. ASSUME Next
      PROVE  Folders'
  BY <1>3, FoldersTask, FoldersFinish, FoldersSweep, FoldersFolder DEF Next
<1>4. QED
  BY <1>1, <1>2, <1>3 DEF Kept

\* An upload that may be resumed has every part its row counts, after any failed finishes,
\* crashes, listings and sweeps.
THEOREM PartsKeptAlways == Spec => []PartsKept
<1>1. Init => Kept
  BY TypedInit, FoldersInit DEF Kept
<1>2. Kept => PartsKept
  BY DEF Kept, Folders, InFolder, PartsKept
<1>3. QED
  BY <1>1, <1>2, KeptStep, PTL DEF Spec

-----------------------------------------------------------------------------
(* The files of finished uploads *)

Copies(t) == {k \in Name : file[k] = t}

Published(t) == finisher.phase = "published" /\ finisher.task = t

\* A task that may still rename its file into the folder.
MayPublish(t) == task[t].status \in {"none", "active"} /\ ~Published(t)

\* A task whose entry must be on the disk.
InPlace(t) == task[t].status = "complete" /\ task[t].entry # None /\ t \notin lost

\* The finish that owns the lock works on an active task; the file it renamed is in a place
\* that belongs to nobody else.
Renamed ==
    /\ ~Unlocked => task[finisher.task].status = "active"
    /\ finisher.phase = "published" =>
           /\ finisher.name \in Name /\ file[finisher.name] = finisher.task
           /\ \A s \in Task : InPlace(s) => task[s].entry # finisher.name
    /\ finisher.phase # "published" => finisher.name = None

\* Only a death of the server leaves a file behind an upload that may rename another one.
Counted ==
    \A t \in Task : /\ Cardinality(Copies(t)) <= 1 + crashes
                    /\ MayPublish(t) => Cardinality(Copies(t)) <= crashes

\* SavedHasBytes and OneCopyPerCrash are not inductive: neither says what a finish under
\* way has renamed, nor for whom it is too late.
Filed == Typed /\ Renamed /\ Counted /\ SavedHasBytes

-----------------------------------------------------------------------------
(* Counting *)

LEMMA CopiesFinite ==
    ASSUME NEW t \in Task
    PROVE  /\ IsFiniteSet(Copies(t)) /\ Cardinality(Copies(t)) \in Nat
           /\ Copies(t) \subseteq Name
<1>1. IsFiniteSet(Name)
  BY FS_Interval, UploadBounds DEF Name
<1>2. Copies(t) \subseteq Name
  BY DEF Copies
<1>3. QED
  BY <1>1, <1>2, FS_Subset, FS_CardinalityType

\* No file is renamed into the folder, and no task may rename one that might not before.
LEMMA CountedFrame ==
    ASSUME Typed, Counted, crashes' \in Nat, crashes' >= crashes,
           \A k \in Name : file'[k] = file[k] \/ file'[k] \in {None, Outside},
           \A t \in Task : MayPublish(t)' => MayPublish(t)
    PROVE  Counted'
<1>1. SUFFICES ASSUME NEW t \in Task
               PROVE  /\ Cardinality(Copies(t)') <= 1 + crashes'
                      /\ MayPublish(t)' => Cardinality(Copies(t)') <= crashes'
  BY DEF Counted
<1>2. Copies(t)' \subseteq Copies(t)
  BY BytesAssumption DEF Copies
<1>3. /\ Cardinality(Copies(t)') \in Nat /\ Cardinality(Copies(t)) \in Nat
      /\ Cardinality(Copies(t)') <= Cardinality(Copies(t))
  BY <1>2, CopiesFinite, FS_Subset, FS_CardinalityType
<1>4. /\ crashes \in Nat
      /\ Cardinality(Copies(t)) <= 1 + crashes
      /\ MayPublish(t) => Cardinality(Copies(t)) <= crashes
  BY DEF Counted, Typed, TypeOK
<1>5. QED
  BY <1>3, <1>4

\* After a death of the server every task may rename its file again.
LEMMA CountedCrash ==
    ASSUME Typed, Counted, crashes' = crashes + 1,
           \A k \in Name : file'[k] = file[k] \/ file'[k] \in {None, Outside}
    PROVE  Counted'
<1>1. SUFFICES ASSUME NEW t \in Task
               PROVE  Cardinality(Copies(t)') <= crashes'
                      /\ Cardinality(Copies(t)') <= 1 + crashes'
  BY DEF Counted
<1>2. Copies(t)' \subseteq Copies(t)
  BY BytesAssumption DEF Copies
<1>3. /\ Cardinality(Copies(t)') \in Nat /\ Cardinality(Copies(t)) \in Nat
      /\ Cardinality(Copies(t)') <= Cardinality(Copies(t))
  BY <1>2, CopiesFinite, FS_Subset, FS_CardinalityType
<1>4. crashes \in Nat /\ Cardinality(Copies(t)) <= 1 + crashes
  BY DEF Counted, Typed, TypeOK
<1>5. QED
  BY <1>3, <1>4

-----------------------------------------------------------------------------
(* The steps *)

LEMMA FiledInit ==
    ASSUME Init
    PROVE  Filed
<1>1. Typed
  BY TypedInit
<1>2. \A t \in Task : Copies(t) = {}
  BY BytesAssumption DEF Init, Copies
<1>3. Counted
  <2>1. \A t \in Task : Cardinality(Copies(t)) = 0
    BY <1>2, FS_EmptySet
  <2>2. crashes = 0
    BY DEF Init
  <2>3. QED
    BY <2>1, <2>2 DEF Counted
<1>4. Renamed /\ SavedHasBytes
  BY DEF Init, Renamed, SavedHasBytes, Unlocked, Nobody
<1>5. QED
  BY <1>1, <1>3, <1>4 DEF Filed

\* What a request about a task, a finish that only begins included, leaves alone.
LEMMA TaskFrame ==
    ASSUME Typed, TaskNext
    PROVE  /\ UNCHANGED <<file, rows, lost, crashes>>
           /\ \A s \in Task : InPlace(s)' => InPlace(s) /\ task'[s].entry = task[s].entry
           /\ \A s \in Task : task'[s].status \in {"none", "active"} =>
                                  task[s].status \in {"none", "active"}
           /\ \/ /\ finisher' = finisher
                 /\ ~Unlocked => task'[finisher.task].status = task[finisher.task].status
              \/ /\ finisher.phase = "none" /\ task' = task
                 /\ \E t \in Task : /\ task[t].status = "active"
                                    /\ finisher' = [task |-> t, phase |-> "merged",
                                                    name |-> None]
<1> DEFINE Frame ==
        /\ UNCHANGED <<file, rows, lost, crashes>>
        /\ \A s \in Task : InPlace(s)' => InPlace(s) /\ task'[s].entry = task[s].entry
        /\ \A s \in Task : task'[s].status \in {"none", "active"} =>
                               task[s].status \in {"none", "active"}
        /\ \/ /\ finisher' = finisher
              /\ ~Unlocked => task'[finisher.task].status = task[finisher.task].status
           \/ /\ finisher.phase = "none" /\ task' = task
              /\ \E t \in Task : /\ task[t].status = "active"
                                 /\ finisher' = [task |-> t, phase |-> "merged",
                                                 name |-> None]
<1>0. ~Unlocked => finisher.task \in Task
  BY DEF Typed, Owners
<1>1. ASSUME NEW t \in Task, NEW keep \in BOOLEAN, Create(t, keep)
      PROVE  Frame
  <2>1. /\ task'[t].status = "active" /\ task[t].status = "none"
        /\ \A s \in Task \ {t} : task'[s] = task[s]
    BY <1>1 DEF Create, Typed, TypeOK
  <2>2. UNCHANGED <<file, rows, lost, crashes, finisher>> /\ Unlocked
    BY <1>1 DEF Create, disk
  <2>3. QED
    BY <2>1, <2>2 DEF InPlace
<1>2. ASSUME NEW t \in Task, BeginPart(t) \/ StorePart(t) \/ FreeRow(t) \/ ReadTask(t)
                             \/ AgeFolder(t)
      PROVE  Frame
  BY <1>2 DEF BeginPart, StorePart, FreeRow, ReadTask, AgeFolder, disk, InPlace
<1>3. ASSUME NEW t \in Task, CommitPart(t) \/ ExpireTask(t)
      PROVE  Frame
  <2>1. \A s \in Task : /\ task'[s].status = task[s].status
                        /\ task'[s].entry = task[s].entry
    BY <1>3 DEF CommitPart, ExpireTask, Typed, TypeOK
  <2>2. UNCHANGED <<file, rows, lost, crashes, finisher>>
    BY <1>3 DEF CommitPart, ExpireTask, disk
  <2>3. QED
    BY <1>0, <2>1, <2>2 DEF InPlace
<1>4. ASSUME NEW t \in Task, BeginFinish(t)
      PROVE  Frame
  BY <1>4 DEF BeginFinish, Open, Unlocked, InPlace
<1>5. ASSUME NEW t \in Task, Cancel(t)
      PROVE  Frame
  <2>1. /\ task'[t].status = "cancelled"
        /\ \A s \in Task \ {t} : task'[s] = task[s]
    BY <1>5 DEF Cancel, Typed, TypeOK
  <2>2. UNCHANGED <<file, rows, lost, crashes, finisher>> /\ Unlocked
    BY <1>5 DEF Cancel, disk
  <2>3. QED
    BY <2>1, <2>2 DEF InPlace
<1>6. QED
  BY <1>1, <1>2, <1>3, <1>4, <1>5 DEF TaskNext

LEMMA FiledTask ==
    ASSUME Filed, TaskNext
    PROVE  Renamed' /\ Counted' /\ SavedHasBytes'
<1>1. Typed /\ Renamed /\ Counted /\ SavedHasBytes /\ crashes \in Nat
  BY DEF Filed, Typed, TypeOK
<1>2. SavedHasBytes'
  BY <1>1, TaskFrame DEF SavedHasBytes, InPlace
<1>3. Renamed'
  BY <1>1, TaskFrame DEF Renamed, Unlocked
<1>4. \A s \in Task : MayPublish(s)' => MayPublish(s)
  BY <1>1, TaskFrame DEF MayPublish, Published
<1>5. Counted'
  BY <1>1, <1>4, TaskFrame, CountedFrame
<1>6. QED
  BY <1>2, <1>3, <1>5

LEMMA FiledPublish ==
    ASSUME Filed, Publish
    PROVE  Renamed' /\ Counted' /\ SavedHasBytes'
<1>1. /\ Typed /\ Renamed /\ Counted /\ SavedHasBytes /\ crashes \in Nat
      /\ finisher.phase = "merged" /\ finisher.task \in Task
      /\ task[finisher.task].status = "active" /\ finisher.name = None
      /\ UNCHANGED <<task, rows, lost, crashes>>
  BY DEF Filed, Renamed, Typed, TypeOK, Owners, Unlocked, Publish
<1>2. CASE finisher' = [finisher EXCEPT !.phase = "skipped"] /\ UNCHANGED file
  <2>1. /\ finisher'.phase = "skipped" /\ finisher'.task = finisher.task
        /\ finisher'.name = None
    BY <1>1, <1>2 DEF Typed, TypeOK
  <2>2. Renamed' /\ SavedHasBytes'
    BY <1>1, <1>2, <2>1 DEF Renamed, SavedHasBytes, Unlocked
  <2>3. \A s \in Task : MayPublish(s)' => MayPublish(s)
    BY <1>1, <2>1 DEF MayPublish, Published
  <2>4. QED
    BY <1>1, <1>2, <2>2, <2>3, CountedFrame
<1>3. CASE /\ FreeNames # {}
           /\ finisher' = [finisher EXCEPT !.phase = "published", !.name = Available]
           /\ file' = [file EXCEPT ![Available] = finisher.task]
  <2>0. PICK t \in Task : t = finisher.task
    BY <1>1
  <2>1. Available \in Name /\ file[Available] = None
    BY <1>3, AvailableIsFree DEF FreeNames
  <2>2. /\ finisher'.phase = "published" /\ finisher'.task = t
        /\ finisher'.name = Available
        /\ file'[Available] = t /\ \A k \in Name \ {Available} : file'[k] = file[k]
    BY <1>3, <2>0, <2>1 DEF Typed, TypeOK, Filed
  <2>3. \A s \in Task : InPlace(s) => task[s].entry # Available
    BY <1>1, <2>1 DEF SavedHasBytes, InPlace
  <2>4. \A s \in Task : InPlace(s)' <=> InPlace(s)
    BY <1>1 DEF InPlace
  <2>5. Renamed'
    BY <1>1, <2>0, <2>1, <2>2, <2>3, <2>4 DEF Renamed, Unlocked
  <2>6. SavedHasBytes'
    <3>1. SUFFICES ASSUME NEW s \in Task, InPlace(s)
                   PROVE  /\ task[s].entry \in rows /\ file'[task[s].entry] # None
                          /\ Bytes[file'[task[s].entry]] = Bytes[s]
      BY <1>1 DEF SavedHasBytes, InPlace
    <3>2. task[s].entry \in Name \ {Available} /\ task[s].entry \in rows
          /\ file[task[s].entry] # None /\ Bytes[file[task[s].entry]] = Bytes[s]
      BY <1>1, <2>3, <3>1 DEF SavedHasBytes, InPlace, Typed, TypeOK
    <3>3. QED
      BY <2>2, <3>2
  <2>7. Cardinality(Copies(t)') <= 1 + crashes
    <3>1. Copies(t)' = Copies(t) \cup {Available} /\ Available \notin Copies(t)
      BY <1>1, <2>1, <2>2, BytesAssumption DEF Copies
    <3>2. Cardinality(Copies(t)) <= crashes
      BY <1>1, <2>0 DEF Counted, MayPublish, Published
    <3>3. IsFiniteSet(Copies(t)) /\ Cardinality(Copies(t)) \in Nat
      BY <1>1, CopiesFinite
    <3>4. Cardinality(Copies(t)') = Cardinality(Copies(t)) + 1
      BY <3>1, <3>3, FS_AddElement
    <3>5. QED
      BY <1>1, <3>2, <3>3, <3>4
  <2>8. \A s \in Task \ {t} : Copies(s)' = Copies(s)
    BY <1>1, <2>1, <2>2, BytesAssumption DEF Copies
  <2>9. Counted'
    <3>1. SUFFICES ASSUME NEW s \in Task
                   PROVE  /\ Cardinality(Copies(s)') <= 1 + crashes'
                          /\ MayPublish(s)' => Cardinality(Copies(s)') <= crashes'
      BY DEF Counted
    <3>2. CASE s = t
      BY <1>1, <2>0, <2>2, <2>7, <3>2 DEF MayPublish, Published
    <3>3. CASE s # t
      <4>1. MayPublish(s)' => MayPublish(s)
        BY <1>1, <2>0, <3>3 DEF MayPublish, Published
      <4>2. Copies(s)' = Copies(s)
        BY <2>8, <3>3
      <4>3. QED
        BY <1>1, <4>1, <4>2 DEF Counted
    <3>4. QED
      BY <3>2, <3>3
  <2>10. QED
    BY <2>5, <2>6, <2>9
<1>4. QED
  BY <1>2, <1>3 DEF Publish

\* How a finish ends: its file stays, or goes back.
LEMMA EndFacts ==
    ASSUME Filed, CommitFinish \/ FailFinish \/ LoseCommit
    PROVE  /\ finisher.task \in Task /\ task[finisher.task].status = "active"
           /\ finisher'.phase = "none" /\ finisher'.name = None
           /\ crashes' = crashes /\ crashes \in Nat
           /\ \A s \in Task \ {finisher.task} :
                  task'[s] = task[s] /\ (s \in lost' <=> s \in lost)
           /\ rows \subseteq rows'
           /\ \A k \in Name : file'[k] = file[k] \/ file'[k] = None
           /\ \A k \in Name \ {finisher.name} : file'[k] = file[k]
<1>1. ~Unlocked
  BY DEF CommitFinish, FailFinish, LoseCommit, Unlocked
<1>2. finisher.task \in Task /\ task[finisher.task].status = "active" /\ crashes \in Nat
  BY <1>1 DEF Filed, Renamed, Typed, TypeOK, Owners
<1>3. finisher'.phase = "none" /\ finisher'.name = None /\ crashes' = crashes
  BY DEF CommitFinish, FailFinish, LoseCommit, ReleaseLocks, Nobody
<1>4. task' = task \/ task' = Saved(finisher.task)
  BY DEF CommitFinish, FailFinish, LoseCommit
<1>5. \A s \in Task \ {finisher.task} : task'[s] = task[s]
  BY <1>1, <1>4, SavedTypes DEF Filed
<1>6. /\ rows \subseteq rows'
      /\ \A s \in Task \ {finisher.task} : s \in lost' <=> s \in lost
  BY DEF CommitFinish, FailFinish, LoseCommit
<1>7. file' = file \/ file' = MovedBack
  BY DEF CommitFinish, FailFinish, LoseCommit, disk
<1>8. /\ \A k \in Name : file'[k] = file[k] \/ file'[k] = None
      /\ \A k \in Name \ {finisher.name} : file'[k] = file[k]
  BY <1>7 DEF MovedBack
<1>9. QED
  BY <1>2, <1>3, <1>5, <1>6, <1>8

\* The files of the others are where they were.
LEMMA OthersKept ==
    ASSUME Filed, CommitFinish \/ FailFinish \/ LoseCommit,
           NEW s \in Task \ {finisher.task}, InPlace(s)'
    PROVE  /\ task'[s].entry \in rows' /\ file'[task'[s].entry] # None
           /\ Bytes[file'[task'[s].entry]] = Bytes[s]
<1>1. InPlace(s) /\ task'[s] = task[s] /\ rows \subseteq rows'
  BY EndFacts DEF InPlace
<1>2. /\ task[s].entry \in Name /\ task[s].entry \in rows /\ file[task[s].entry] # None
      /\ Bytes[file[task[s].entry]] = Bytes[s]
  BY <1>1 DEF InPlace, Filed, SavedHasBytes, Typed, TypeOK
<1>3. task[s].entry # finisher.name
  BY <1>1, <1>2, BytesAssumption DEF Filed, Renamed, Name, InPlace
<1>4. file'[task[s].entry] = file[task[s].entry]
  BY <1>2, <1>3, EndFacts
<1>5. QED
  BY <1>1, <1>2, <1>4

\* The row of a task that finish has saved.
LEMMA SavedRow ==
    ASSUME Filed, CommitFinish \/ LoseCommit
    PROVE  /\ task'[finisher.task].entry = finisher.name
           /\ task'[finisher.task].status = IF finisher.phase = "published"
                                            THEN "complete" ELSE "skipped"
<1>1. finisher.task \in Task
  BY EndFacts
<1>2. task' = Saved(finisher.task)
  BY DEF CommitFinish, LoseCommit
<1>3. task[finisher.task] \in TaskRow
  BY <1>1 DEF Filed, Typed, TypeOK, TaskRow
<1> DEFINE Status == IF finisher.phase = "published" THEN "complete" ELSE "skipped"
           Row == [task[finisher.task] EXCEPT
                       !.status = Status, !.entry = finisher.name, !.live = TRUE]
<1>4. task'[finisher.task] = Row
  BY <1>1, <1>2 DEF Saved, Filed, Typed, TypeOK
<1>5. Row.entry = finisher.name /\ Row.status = Status
  BY <1>3 DEF TaskRow
<1>6. QED
  BY <1>4, <1>5

LEMMA FiledEnd ==
    ASSUME Filed, CommitFinish \/ FailFinish \/ LoseCommit
    PROVE  Renamed' /\ Counted' /\ SavedHasBytes'
<1>0. PICK t \in Task : t = finisher.task
  BY EndFacts
<1>1. /\ Typed /\ Renamed /\ Counted /\ SavedHasBytes
      /\ t = finisher.task /\ task[t].status = "active"
  BY <1>0, EndFacts DEF Filed
<1>2. Renamed'
  BY EndFacts DEF Renamed, Unlocked
<1>3. SavedHasBytes'
  <2>1. SUFFICES ASSUME InPlace(t)'
                 PROVE  /\ task'[t].entry \in rows' /\ file'[task'[t].entry] # None
                        /\ Bytes[file'[task'[t].entry]] = Bytes[t]
    BY <1>1, OthersKept DEF SavedHasBytes, InPlace
  <2>2. CommitFinish
    BY <1>1, <2>1 DEF InPlace, FailFinish, LoseCommit
  <2>3. task'[t].entry = finisher.name /\ finisher.phase = "published"
    BY <1>1, <2>1, <2>2, SavedRow DEF InPlace
  <2>4. finisher.name \in Name /\ file[finisher.name] = t
    BY <1>1, <2>3 DEF Renamed
  <2>5. finisher.name \in rows' /\ file' = file
    BY <2>2, <2>4, BytesAssumption DEF CommitFinish, disk, Name
  <2>6. QED
    BY <1>1, <2>3, <2>4, <2>5, BytesAssumption
<1>4. Counted'
  <2>1. CASE CommitFinish \/ LoseCommit
    <3>1. task'[t].status \in {"complete", "skipped"}
      BY <1>1, <2>1, SavedRow
    <3>2. \A s \in Task : MayPublish(s)' => MayPublish(s)
      BY <1>1, <3>1, EndFacts DEF MayPublish, Published
    <3>3. QED
      BY <1>1, <3>2, EndFacts, CountedFrame
  <2>2. CASE FailFinish /\ finisher.phase # "published"
    <3>1. \A s \in Task : MayPublish(s)' => MayPublish(s)
      BY <2>2 DEF FailFinish, MayPublish, Published
    <3>2. QED
      BY <1>1, <3>1, EndFacts, CountedFrame
  <2>3. CASE FailFinish /\ finisher.phase = "published"
    <3>1. \A k \in Name : file'[k] = IF k = finisher.name THEN None ELSE file[k]
      BY <2>3 DEF FailFinish, MovedBack
    <3>2. finisher.name \in Copies(t) /\ Copies(t)' = Copies(t) \ {finisher.name}
      BY <1>1, <2>3, <3>1, BytesAssumption DEF Copies, Renamed
    <3>3. /\ IsFiniteSet(Copies(t)) /\ Cardinality(Copies(t)) \in Nat
          /\ Cardinality(Copies(t)) <= 1 + crashes
      BY <1>1, CopiesFinite DEF Counted
    <3>4. Cardinality(Copies(t)') = Cardinality(Copies(t)) - 1
      BY <3>2, <3>3, FS_RemoveElement
    <3>5. Cardinality(Copies(t)') <= crashes' /\ Cardinality(Copies(t)') <= 1 + crashes'
      BY <3>3, <3>4, EndFacts
    <3>6. ASSUME NEW s \in Task \ {t}
          PROVE  /\ Cardinality(Copies(s)') <= 1 + crashes'
                 /\ MayPublish(s)' => Cardinality(Copies(s)') <= crashes'
      <4>1. Copies(s)' = Copies(s)
        BY <1>1, <2>3, <3>1, <3>6, BytesAssumption DEF Copies, Renamed
      <4>2. MayPublish(s)' => MayPublish(s)
        BY <1>1, <2>3, <3>6 DEF FailFinish, MayPublish, Published
      <4>3. QED
        BY <1>1, <4>1, <4>2, EndFacts DEF Counted
    <3>7. QED
      BY <3>5, <3>6 DEF Counted
  <2>4. QED
    BY <2>1, <2>2, <2>3
<1>5. QED
  BY <1>2, <1>3, <1>4

LEMMA FiledSweep ==
    ASSUME Filed, Sweep
    PROVE  Renamed' /\ Counted' /\ SavedHasBytes'
<1>1. /\ Typed /\ Renamed /\ Counted /\ SavedHasBytes /\ Unlocked /\ crashes \in Nat
      /\ UNCHANGED <<file, finisher, lost, crashes>>
      /\ rows \subseteq rows' /\ \A s \in Task : task'[s] = Swept(s)
  BY DEF Sweep, disk, Filed, Typed, TypeOK
<1>2. Renamed'
  BY <1>1 DEF Renamed, Unlocked
<1>3. \A s \in Task : MayPublish(s)' => MayPublish(s)
  <2>1. SUFFICES ASSUME NEW s \in Task, Swept(s).status \in {"none", "active"}
                 PROVE  task[s].status \in {"none", "active"}
    BY <1>1 DEF MayPublish, Published
  <2>2. CASE s \in Of("active")
    BY <2>2 DEF Of
  <2>3. CASE s \notin Of("active")
    BY <2>1, <2>3 DEF Swept
  <2>4. QED
    BY <2>2, <2>3
<1>4. Counted'
  BY <1>1, <1>3, CountedFrame
<1>5. SavedHasBytes'
  <2>1. SUFFICES ASSUME NEW s \in Task, InPlace(s)'
                 PROVE  /\ task'[s].entry \in rows' /\ file[task'[s].entry] # None
                        /\ Bytes[file[task'[s].entry]] = Bytes[s]
    BY <1>1 DEF SavedHasBytes, InPlace
  <2>2. CASE s \in Of("active") /\ Recoverable(s)
    <3>1. task[s] \in TaskRow
      BY <1>1 DEF Typed, TypeOK, TaskRow
    <3>2. Swept(s) = [task[s] EXCEPT !.status = "complete", !.entry = receipt[s],
                                     !.live = TRUE]
      BY <2>2 DEF Swept
    <3>3. task'[s].entry = receipt[s]
      BY <1>1, <3>1, <3>2 DEF TaskRow
    <3>4. receipt[s] \in rows'
      BY <2>2 DEF Sweep
    <3>5. QED
      BY <2>2, <3>3, <3>4 DEF Recoverable
  <2>3. CASE ~(s \in Of("active") /\ Recoverable(s))
    <3>1. Swept(s).status = "complete"
      BY <1>1, <2>1 DEF InPlace
    <3>2. s \notin Of("active")
      <4>1. task[s] \in TaskRow
        BY <1>1 DEF Typed, TypeOK, TaskRow
      <4>2. QED
        BY <2>3, <3>1, <4>1 DEF Swept, Of, TaskRow
    <3>3. task'[s] = task[s]
      BY <1>1, <3>2 DEF Swept
    <3>4. QED
      BY <1>1, <2>1, <3>3 DEF SavedHasBytes, InPlace
  <2>4. QED
    BY <2>2, <2>3
<1>6. QED
  BY <1>2, <1>4, <1>5

\* Maintenance only takes files that no row names, and puts none of a task.
LEMMA FolderFrame ==
    ASSUME Typed, FolderNext
    PROVE  /\ \A k \in Name : file'[k] = file[k] \/ file'[k] \in {None, Outside}
           /\ \A k \in rows : file[k] # None => file'[k] = file[k]
           /\ lost' = lost
           /\ \/ finisher' = Nobody /\ crashes' = crashes + 1
              \/ /\ finisher' = finisher /\ crashes' = crashes
                 /\ ~Unlocked => \A k \in Name : file[k] # None => file'[k] = file[k]
           /\ \A s \in Task :
                  /\ task'[s].status = task[s].status
                  /\ task'[s].entry # None =>
                         /\ task'[s].entry = task[s].entry
                         /\ task[s].entry \in rows => task[s].entry \in rows'
<1> DEFINE Frame ==
        /\ \A k \in Name : file'[k] = file[k] \/ file'[k] \in {None, Outside}
        /\ \A k \in rows : file[k] # None => file'[k] = file[k]
        /\ lost' = lost
        /\ \/ finisher' = Nobody /\ crashes' = crashes + 1
           \/ /\ finisher' = finisher /\ crashes' = crashes
              /\ ~Unlocked => \A k \in Name : file[k] # None => file'[k] = file[k]
        /\ \A s \in Task :
               /\ task'[s].status = task[s].status
               /\ task'[s].entry # None =>
                      /\ task'[s].entry = task[s].entry
                      /\ task[s].entry \in rows => task[s].entry \in rows'
<1>0. rows \subseteq Name
  BY DEF Typed, TypeOK
<1>1. ASSUME NEW t \in Task, RemoveFolder(t) \/ RemoveUnknown(t)
      PROVE  Frame
  BY <1>1 DEF RemoveFolder, RemoveUnknown, EmptyFolder
<1>2. ASSUME NEW k \in Name, Register(k)
      PROVE  Frame
  BY <1>2 DEF Register, disk
<1>3. ASSUME NEW k \in Name, PlaceOutside(k)
      PROVE  Frame
  <2>1. /\ file[k] = None /\ file'[k] = Outside
        /\ \A l \in Name \ {k} : file'[l] = file[l]
    BY <1>3 DEF PlaceOutside, Typed, TypeOK
  <2>2. UNCHANGED <<task, rows, finisher, lost, crashes>>
    BY <1>3 DEF PlaceOutside
  <2>3. QED
    BY <1>0, <2>1, <2>2
<1>4. ASSUME NEW k \in Name, DeleteEntry(k)
      PROVE  Frame
  <2>1. \A s \in Task : /\ task'[s].status = task[s].status
                        /\ task[s].entry # k => task'[s].entry = task[s].entry
                        /\ task[s].entry = k => task'[s].entry = None
    BY <1>4 DEF DeleteEntry, Typed, TypeOK
  <2>2. UNCHANGED <<file, finisher, lost, crashes>> /\ rows' = rows \ {k}
    BY <1>4 DEF DeleteEntry, disk
  <2>3. QED
    BY <2>1, <2>2
<1>5. ASSUME NEW failed \in SUBSET Name, Drain(failed)
      PROVE  Frame
  BY <1>0, <1>5 DEF Drain, Without, Dead
<1>6. ASSUME NEW gone \in SUBSET Name, Crash(gone)
      PROVE  Frame
  BY <1>0, <1>6 DEF Crash, Without, Dead
<1>7. QED
  BY <1>1, <1>2, <1>3, <1>4, <1>5, <1>6 DEF FolderNext

LEMMA FiledFolder ==
    ASSUME Filed, FolderNext
    PROVE  Renamed' /\ Counted' /\ SavedHasBytes'
<1>1. Typed /\ Renamed /\ Counted /\ SavedHasBytes /\ crashes \in Nat
  BY DEF Filed, Typed, TypeOK
<1>2. \A s \in Task : InPlace(s)' => InPlace(s) /\ task'[s].entry = task[s].entry
                                                /\ task'[s].entry \in rows'
  BY <1>1, FolderFrame DEF InPlace, SavedHasBytes
<1>3. SavedHasBytes'
  BY <1>1, <1>2, FolderFrame DEF SavedHasBytes, InPlace
<1>4. CASE finisher' = Nobody /\ crashes' = crashes + 1
  <2>1. Renamed'
    BY <1>4 DEF Renamed, Unlocked, Nobody
  <2>2. QED
    BY <1>1, <1>3, <1>4, <2>1, FolderFrame, CountedCrash
<1>5. CASE /\ finisher' = finisher /\ crashes' = crashes
           /\ ~Unlocked => \A k \in Name : file[k] # None => file'[k] = file[k]
  <2>1. Renamed'
    <3>1. ~Unlocked => finisher.task \in Task
      BY <1>1 DEF Typed, Owners
    <3>2. ~Unlocked' => task'[finisher'.task].status = "active"
      BY <1>1, <1>5, <3>1, FolderFrame DEF Renamed, Unlocked
    <3>3. finisher.phase = "published" =>
              /\ finisher.name \in Name /\ file'[finisher.name] = finisher.task
              /\ \A s \in Task : InPlace(s)' => task'[s].entry # finisher.name
      BY <1>1, <1>2, <1>5, <3>1, BytesAssumption DEF Renamed, Unlocked
    <3>4. QED
      BY <1>1, <1>5, <3>2, <3>3 DEF Renamed
  <2>2. \A s \in Task : MayPublish(s)' => MayPublish(s)
    BY <1>1, <1>5, FolderFrame DEF MayPublish, Published
  <2>3. QED
    BY <1>1, <1>3, <1>5, <2>1, <2>2, FolderFrame, CountedFrame
<1>6. QED
  BY <1>1, <1>4, <1>5, FolderFrame

LEMMA FiledStep ==
    ASSUME Filed, [Next]_vars
    PROVE  Filed'
<1>1. Typed'
  BY TypedStep DEF Filed
<1>2. CASE Next
  BY <1>1, <1>2, FiledTask, FiledPublish, FiledEnd, FiledSweep, FiledFolder DEF Next, Filed
<1>3. CASE UNCHANGED vars
  <2>1. Renamed' /\ SavedHasBytes'
    BY <1>3 DEF vars, disk, Filed, Renamed, SavedHasBytes, InPlace, Unlocked
  <2>2. Counted'
    BY <1>3 DEF vars, disk, Filed, Counted, MayPublish, Published, Copies
  <2>3. QED
    BY <1>1, <2>1, <2>2 DEF Filed
<1>4. QED
  BY <1>2, <1>3

\* A saved upload has its bytes where its row says, after any recovery from receipts,
\* deletions, drains of older garbage and files placed from outside; unless its commit was
\* reported as a failure.
THEOREM SavedHasBytesAlways == Spec => []SavedHasBytes
<1>1. Filed => SavedHasBytes
  BY DEF Filed
<1>2. QED
  BY <1>1, FiledInit, FiledStep, PTL DEF Spec

\* The completion is idempotent: every further copy of an upload's file is owed to a death
\* of the server between the rename and the commit.
THEOREM OneCopyPerCrashAlways == Spec => []OneCopyPerCrash
<1>1. Filed => OneCopyPerCrash
  BY DEF Filed, Counted, Copies, OneCopyPerCrash
<1>2. QED
  BY <1>1, FiledInit, FiledStep, PTL DEF Spec

-----------------------------------------------------------------------------
(* the attachments and the disk: the invariant *)

TicketPlace == UNION {Tickets!In(t) : t \in Ticket}

UploadRow ==
    [status : {"none", "complete", "cancelled", "expired"}, live : BOOLEAN,
     ticket : Ticket \cup {None}]

Transaction ==
    [pc : {"idle", "bind", "move", "undo"}, ticket : Ticket \cup {None}, left : SUBSET File,
     moved : SUBSET File, file : File \cup {None}, deletes : SUBSET File]

FilesTyped ==
    /\ ticket \in [Ticket -> {"none", "open", "gone"}]
    /\ entry \in [File -> Tickets!Place \cup {None}]
    /\ upload \in [File -> UploadRow]
    /\ places \in [Tickets!Place -> File \cup {None}]
    /\ journal \in [File -> TicketPlace \cup {None}]
    /\ dropped \subseteq Tickets!Place /\ tx \in Transaction /\ closing \subseteq File
    /\ unsure \in BOOLEAN /\ replaced \in BOOLEAN /\ faults \in Nat /\ deaths \in Nat

\* What the transaction has done so far, and where entries may be.
TxShaped ==
    /\ tx.pc = "idle" => tx.moved = {}
    /\ tx.pc # "idle" => tx.ticket \in Ticket
    /\ tx.pc \in {"bind", "move"} =>
           /\ \A f \in tx.deletes : entry[f] \in Tickets!In(tx.ticket)
           /\ \A f \in tx.moved : Tickets!IsDraft(f)
    /\ tx.pc = "move" =>
           tx.file \in tx.left /\ Tickets!IsDraft(tx.file) /\ journal[tx.file] # None
    /\ tx.moved \cap tx.left = {}
    /\ \A f \in tx.moved : journal[f] # None /\ f \notin closing

RowsShaped ==
    /\ \A f \in File : /\ entry[f] \in {Tickets!Draft(f), None} \cup TicketPlace
                       /\ entry[f] # None => upload[f].status # "none"
    /\ \A f \in closing : ~Tickets!IsDraft(f) /\ upload[f].status # "none"

\* A file is at one place at most, and only after its upload.
Distinct ==
    /\ \A p, q \in Tickets!Place : places[p] = places[q] /\ places[p] # None => p = q
    /\ \A p \in Tickets!Place : places[p] # None => upload[places[p]].status # "none"

FilesShaped == FilesTyped /\ TxShaped /\ RowsShaped /\ Distinct

\* Where the file of an attachment is.
Found(f) ==
    entry[f] = None \/ Tickets!Kept(f) \/ (Tickets!IsDraft(f) /\ Tickets!Led(f))

\* What the rows, the folders of drafts, the garbage and the journals say of the disk,
\* unless a commit's answer was lost or a journal was written over the one that led to
\* its file.
FilesPlaced ==
    /\ \A f \in File : Found(f) /\ places[Tickets!Draft(f)] \in {f, None}
    /\ \A p \in dropped : p \in TicketPlace => places[p] # None /\ entry[places[p]] = None
    /\ \A f \in tx.moved : Tickets!IsDraft(f) /\ Tickets!Led(f)
    /\ tx.pc = "move" => Tickets!Kept(tx.file) /\ places[journal[tx.file]] = None

FilesInv == FilesShaped /\ (replaced \/ unsure \/ FilesPlaced)

-----------------------------------------------------------------------------
(* places, and the transaction *)

LEMMA Places ==
    /\ \A f \in File : /\ Tickets!Draft(f) \in Tickets!Place \ TicketPlace
                       /\ Tickets!Draft(f).folder = f
    /\ \A f, g \in File : Tickets!Draft(f) = Tickets!Draft(g) => f = g
    /\ \A t \in Ticket : Tickets!In(t) \subseteq TicketPlace
    /\ TicketPlace \subseteq Tickets!Place
    /\ \A p \in Tickets!Place : p \in TicketPlace \/ \E f \in File : p = Tickets!Draft(f)
    /\ None \notin Tickets!Place /\ None \notin TicketPlace /\ None \notin File
<1>1. /\ \A f \in File : Tickets!Draft(f) \in Tickets!Place /\ Tickets!Draft(f).folder = f
      /\ \A f, g \in File : Tickets!Draft(f) = Tickets!Draft(g) => f = g
      /\ TicketPlace \subseteq Tickets!Place
      /\ \A p \in Tickets!Place : p \in TicketPlace \/ \E f \in File : p = Tickets!Draft(f)
  BY DEF Tickets!Place, Tickets!Draft, TicketPlace
<1>2. \A t \in Ticket : Tickets!In(t) \subseteq TicketPlace
  BY DEF TicketPlace
<1>3. \A p \in TicketPlace : p.folder \in Ticket
  BY DEF TicketPlace, Tickets!In
<1>4. File \cap Ticket = {} /\ None \notin Tickets!Place /\ None \notin File
  BY TicketsAssumption DEF Tickets!FilesAssumption
<1>5. QED
  BY <1>1, <1>2, <1>3, <1>4

\* There are more names in a folder than files.
LEMMA TargetIsFree ==
    ASSUME FilesShaped, tx.ticket \in Ticket
    PROVE  Tickets!Target \in Tickets!In(tx.ticket) /\ places[Tickets!Target] = None
<1> DEFINE at(n) == [folder |-> tx.ticket, name |-> n]
           free == {n \in Tickets!Name : places[at(n)] = None}
<1>1. IsFiniteSet(File) /\ Cardinality(File) \in Nat
  BY TicketsAssumption, FS_CardinalityType
     DEF Tickets!FilesAssumption, Tickets!IsFiniteSet, IsFiniteSet
<1>2. Tickets!Name = 1 .. Cardinality(File) + 1
  BY DEF Tickets!Name, Tickets!Cardinality, Cardinality
<1>3. IsFiniteSet(Tickets!Name) /\ Cardinality(Tickets!Name) = Cardinality(File) + 1
  BY <1>1, <1>2, FS_Interval
<1>4. \A n \in Tickets!Name : at(n) \in Tickets!In(tx.ticket)
  BY DEF Tickets!In
<1>5. free # {}
  <2>1. SUFFICES ASSUME \A n \in Tickets!Name : places[at(n)] # None
                 PROVE  FALSE
    OBVIOUS
  <2> DEFINE held == [n \in Tickets!Name |-> places[at(n)]]
  <2>2. \A n \in Tickets!Name : at(n) \in Tickets!Place
    BY <1>4, Places
  <2>3. held \in [Tickets!Name -> File]
    BY <2>1, <2>2 DEF FilesShaped, FilesTyped
  <2>4. PICK m, n \in Tickets!Name : m # n /\ held[m] = held[n]
    <3> HIDE DEF held
    <3>1. Cardinality(File) < Cardinality(Tickets!Name)
      BY <1>1, <1>3
    <3>2. QED
      BY <1>1, <1>3, <2>3, <3>1, FS_PigeonHole
  <2>5. at(m) = at(n)
    BY <2>1, <2>2, <2>4 DEF FilesShaped, Distinct
  <2>6. QED
    BY <2>4, <2>5
<1>6. free \in SUBSET Nat
  BY <1>2
<1>7. PICK k \in free : \A n \in free : k <= n
  BY <1>5, <1>6, LeastNumber
<1>8. \A q \in Tickets!In(tx.ticket) : q = at(q.name) /\ q.name \in Tickets!Name
  BY DEF Tickets!In
<1>9. /\ at(k) \in Tickets!In(tx.ticket) /\ places[at(k)] = None
      /\ \A q \in Tickets!In(tx.ticket) : places[q] = None => at(k).name <= q.name
  BY <1>4, <1>7, <1>8
<1>10. QED
  BY <1>9 DEF Tickets!Target

LEMMA TxFields ==
    ASSUME FilesTyped
    PROVE  /\ tx.moved \subseteq File /\ tx.left \subseteq File /\ tx.deletes \subseteq File
           /\ tx.file \in File \cup {None} /\ tx.ticket \in Ticket \cup {None}
           /\ tx.pc \in {"idle", "bind", "move", "undo"}
BY DEF FilesTyped, Transaction

LEMMA FilesInit ==
    ASSUME Tickets!Init
    PROVE  FilesInv
<1>1. FilesTyped
  BY DEF Tickets!Init, FilesTyped, Tickets!NoTx, UploadRow, Transaction
<1>2. TxShaped /\ Distinct /\ RowsShaped
  BY DEF Tickets!Init, Tickets!NoTx, TxShaped, Distinct, RowsShaped
<1>3. FilesPlaced
  BY Places DEF Tickets!Init, FilesPlaced, Found, Tickets!NoTx
<1>4. QED
  BY <1>1, <1>2, <1>3 DEF FilesInv, FilesShaped

\* The transaction goes on or ends, and nothing is written.
LEMMA TxAlone ==
    ASSUME FilesInv, tx' \in Transaction, TxShaped', closing' \subseteq closing,
           UNCHANGED <<entry, upload, places, journal, dropped, replaced, unsure>>,
           ticket' \in [Ticket -> {"none", "open", "gone"}],
           faults' \in Nat, deaths' \in Nat,
           tx'.moved \subseteq tx.moved, tx'.pc = "move" => tx.pc = "move" /\ tx'.file = tx.file
    PROVE  FilesInv'
<1>1. FilesTyped'
  BY DEF FilesInv, FilesShaped, FilesTyped
<1>2. RowsShaped' /\ Distinct'
  BY DEF FilesInv, FilesShaped, RowsShaped, Distinct, Tickets!IsDraft
<1>3. ASSUME FilesPlaced
      PROVE  FilesPlaced'
  BY <1>3 DEF FilesPlaced, Found, Tickets!IsDraft, Tickets!Kept, Tickets!Led
<1>4. QED
  BY <1>1, <1>2, <1>3 DEF FilesInv, FilesShaped

LEMMA BeginSaveStep ==
    ASSUME FilesInv, NEW t \in Ticket, NEW up \in SUBSET File,
           NEW del \in SUBSET File, Tickets!BeginSave(t, up, del)
    PROVE  FilesInv'
<1>1. /\ tx' \in Transaction /\ tx'.pc = "bind" /\ tx'.ticket = t /\ tx'.moved = {}
      /\ tx'.deletes = del
  BY DEF Tickets!BeginSave, Tickets!NoTx, FilesInv, FilesShaped, FilesTyped, Transaction
<1>2. TxShaped'
  BY <1>1 DEF Tickets!BeginSave, FilesInv, FilesShaped, TxShaped, Tickets!IsDraft, Tickets!Owned
<1>3. /\ ticket' \in [Ticket -> {"none", "open", "gone"}] /\ faults' \in Nat /\ deaths' \in Nat
      /\ closing' \subseteq closing
      /\ UNCHANGED <<entry, upload, places, journal, dropped, replaced, unsure>>
  BY DEF Tickets!BeginSave, Tickets!Fault, FilesInv, FilesShaped, FilesTyped
<1>4. QED
  BY <1>1, <1>2, <1>3, TxAlone

LEMMA SkipStep ==
    ASSUME FilesInv, NEW f \in File, Tickets!Skip(f)
    PROVE  FilesInv'
<1>1. /\ tx' \in Transaction /\ tx'.pc = "bind" /\ tx.pc = "bind" /\ tx'.ticket = tx.ticket
      /\ tx'.moved = tx.moved /\ tx'.deletes = tx.deletes /\ tx'.left = tx.left \ {f}
  BY DEF Tickets!Skip, FilesInv, FilesShaped, FilesTyped, Transaction
<1>2. TxShaped'
  BY <1>1 DEF Tickets!Skip, FilesInv, FilesShaped, TxShaped, Tickets!IsDraft, Tickets!Owned
<1>3. /\ ticket' \in [Ticket -> {"none", "open", "gone"}] /\ faults' \in Nat /\ deaths' \in Nat
      /\ closing' \subseteq closing
      /\ UNCHANGED <<entry, upload, places, journal, dropped, replaced, unsure>>
  BY DEF Tickets!Skip, Tickets!Fault, FilesInv, FilesShaped, FilesTyped
<1>4. QED
  BY <1>1, <1>2, <1>3, TxAlone

LEMMA RefuseStep ==
    ASSUME FilesInv, NEW f \in File, Tickets!Refuse(f)
    PROVE  FilesInv'
<1>1. /\ tx' \in Transaction /\ tx'.pc = "undo" /\ tx.pc # "idle" /\ tx'.ticket = tx.ticket
      /\ tx'.moved = tx.moved /\ tx'.left = tx.left
  BY DEF Tickets!Refuse, FilesInv, FilesShaped, FilesTyped, Transaction
<1>2. TxShaped'
  BY <1>1 DEF Tickets!Refuse, FilesInv, FilesShaped, TxShaped, Tickets!IsDraft, Tickets!Owned
<1>3. /\ ticket' \in [Ticket -> {"none", "open", "gone"}] /\ faults' \in Nat /\ deaths' \in Nat
      /\ closing' \subseteq closing
      /\ UNCHANGED <<entry, upload, places, journal, dropped, replaced, unsure>>
  BY DEF Tickets!Refuse, Tickets!Fault, FilesInv, FilesShaped, FilesTyped
<1>4. QED
  BY <1>1, <1>2, <1>3, TxAlone

LEMMA MoveFailsStep ==
    ASSUME FilesInv, Tickets!MoveFails
    PROVE  FilesInv'
<1>1. /\ tx' \in Transaction /\ tx'.pc = "undo" /\ tx.pc # "idle" /\ tx'.ticket = tx.ticket
      /\ tx'.moved = tx.moved /\ tx'.left = tx.left
  BY DEF Tickets!MoveFails, FilesInv, FilesShaped, FilesTyped, Transaction
<1>2. TxShaped'
  BY <1>1 DEF Tickets!MoveFails, FilesInv, FilesShaped, TxShaped, Tickets!IsDraft, Tickets!Owned
<1>3. /\ ticket' \in [Ticket -> {"none", "open", "gone"}] /\ faults' \in Nat /\ deaths' \in Nat
      /\ closing' \subseteq closing
      /\ UNCHANGED <<entry, upload, places, journal, dropped, replaced, unsure>>
  BY DEF Tickets!MoveFails, Tickets!Fault, FilesInv, FilesShaped, FilesTyped
<1>4. QED
  BY <1>1, <1>2, <1>3, TxAlone

LEMMA CommitFailsStep ==
    ASSUME FilesInv, Tickets!CommitFails
    PROVE  FilesInv'
<1>1. /\ tx' \in Transaction /\ tx'.pc = "undo" /\ tx.pc # "idle" /\ tx'.ticket = tx.ticket
      /\ tx'.moved = tx.moved /\ tx'.left = tx.left
  BY DEF Tickets!CommitFails, FilesInv, FilesShaped, FilesTyped, Transaction
<1>2. TxShaped'
  BY <1>1 DEF Tickets!CommitFails, FilesInv, FilesShaped, TxShaped, Tickets!IsDraft, Tickets!Owned
<1>3. /\ ticket' \in [Ticket -> {"none", "open", "gone"}] /\ faults' \in Nat /\ deaths' \in Nat
      /\ closing' \subseteq closing
      /\ UNCHANGED <<entry, upload, places, journal, dropped, replaced, unsure>>
  BY DEF Tickets!CommitFails, Tickets!Fault, FilesInv, FilesShaped, FilesTyped
<1>4. QED
  BY <1>1, <1>2, <1>3, TxAlone

LEMMA UndoEndsStep ==
    ASSUME FilesInv, Tickets!UndoEnds
    PROVE  FilesInv'
<1>1. /\ tx' \in Transaction /\ tx'.pc = "idle" /\ tx'.moved = {}
  BY DEF Tickets!UndoEnds, Tickets!NoTx, FilesInv, FilesShaped, FilesTyped, Transaction
<1>2. TxShaped'
  BY <1>1 DEF Tickets!UndoEnds, FilesInv, FilesShaped, TxShaped, Tickets!IsDraft, Tickets!Owned
<1>3. /\ ticket' \in [Ticket -> {"none", "open", "gone"}] /\ faults' \in Nat /\ deaths' \in Nat
      /\ closing' \subseteq closing
      /\ UNCHANGED <<entry, upload, places, journal, dropped, replaced, unsure>>
  BY DEF Tickets!UndoEnds, Tickets!Fault, FilesInv, FilesShaped, FilesTyped
<1>4. QED
  BY <1>1, <1>2, <1>3, TxAlone

LEMMA DeathStep ==
    ASSUME FilesInv, Tickets!Crash
    PROVE  FilesInv'
<1>1. /\ tx' \in Transaction /\ tx'.pc = "idle" /\ tx'.moved = {}
  BY DEF Tickets!Crash, Tickets!NoTx, FilesInv, FilesShaped, FilesTyped, Transaction
<1>2. TxShaped'
  BY <1>1 DEF Tickets!Crash, FilesInv, FilesShaped, TxShaped, Tickets!IsDraft, Tickets!Owned
<1>3. /\ ticket' \in [Ticket -> {"none", "open", "gone"}] /\ faults' \in Nat /\ deaths' \in Nat
      /\ closing' \subseteq closing
      /\ UNCHANGED <<entry, upload, places, journal, dropped, replaced, unsure>>
  BY DEF Tickets!Crash, Tickets!Fault, FilesInv, FilesShaped, FilesTyped
<1>4. QED
  BY <1>1, <1>2, <1>3, TxAlone

-----------------------------------------------------------------------------
(* files, rows and journals that a step changes *)

\* The rename of one file.
LEMMA RenameMoves ==
    ASSUME FilesTyped, Distinct, UNCHANGED upload,
           NEW from \in Tickets!Place, NEW to \in Tickets!Place, from # to,
           places' = Tickets!Renamed(from, to)
    PROVE  /\ places' \in [Tickets!Place -> File \cup {None}]
           /\ places'[to] = places[from] /\ places'[from] = None
           /\ \A p \in Tickets!Place \ {from, to} : places'[p] = places[p]
           /\ Distinct'
<1>1. /\ places \in [Tickets!Place -> File \cup {None}]
      /\ places' = [places EXCEPT ![to] = places[from], ![from] = None]
  BY DEF FilesTyped, Tickets!Renamed
<1>2. /\ places' \in [Tickets!Place -> File \cup {None}]
      /\ places'[to] = places[from] /\ places'[from] = None
      /\ \A p \in Tickets!Place \ {from, to} : places'[p] = places[p]
  BY <1>1
<1>3. Distinct'
  <2>1. \A p, q \in Tickets!Place : places'[p] = places'[q] /\ places'[p] # None => p = q
    BY <1>2 DEF Distinct
  <2>2. \A p \in Tickets!Place : places'[p] # None => upload'[places'[p]].status # "none"
    BY <1>2 DEF Distinct
  <2>3. QED
    BY <2>1, <2>2 DEF Distinct
<1>4. QED
  BY <1>2, <1>3

\* A file that was not uploaded is nowhere.
LEMMA UploadedStep ==
    ASSUME FilesInv, NEW f \in File, NEW t \in Ticket \cup {None}, Tickets!Uploaded(f, t)
    PROVE  FilesInv'
<1> DEFINE draft == Tickets!Draft(f)
<1>1. /\ tx.pc = "idle" /\ tx.moved = {} /\ upload[f].status = "none"
      /\ upload' = [upload EXCEPT ![f] = [status |-> "complete", live |-> TRUE, ticket |-> t]]
      /\ entry' = [entry EXCEPT ![f] = draft] /\ places' = [places EXCEPT ![draft] = f]
      /\ UNCHANGED <<ticket, journal, dropped, tx, closing, replaced, unsure, faults, deaths>>
  BY DEF Tickets!Uploaded, Tickets!Unlocked, FilesInv, FilesShaped, TxShaped
<1>2. /\ upload' \in [File -> UploadRow] /\ upload'[f].status = "complete"
      /\ \A g \in File \ {f} : upload'[g] = upload[g]
  <2>1. [status |-> "complete", live |-> TRUE, ticket |-> t] \in UploadRow
    BY DEF UploadRow
  <2>2. QED
    BY <1>1, <2>1 DEF FilesInv, FilesShaped, FilesTyped
<1>3. /\ draft \in Tickets!Place /\ draft \notin TicketPlace
      /\ \A p \in Tickets!Place : places[p] # f
      /\ f # None /\ draft # None
  BY <1>1, Places DEF FilesInv, FilesShaped, Distinct
<1>4. /\ entry' \in [File -> Tickets!Place \cup {None}] /\ entry'[f] = draft
      /\ \A g \in File \ {f} : entry'[g] = entry[g]
  BY <1>1, <1>3 DEF FilesInv, FilesShaped, FilesTyped
<1>5. /\ places' \in [Tickets!Place -> File \cup {None}] /\ places'[draft] = f
      /\ \A p \in Tickets!Place \ {draft} : places'[p] = places[p]
  BY <1>1, <1>3 DEF FilesInv, FilesShaped, FilesTyped
<1>6. FilesTyped'
  BY <1>1, <1>2, <1>4, <1>5 DEF FilesInv, FilesShaped, FilesTyped
<1>7. TxShaped'
  BY <1>1 DEF FilesInv, FilesShaped, TxShaped
<1>8. f \notin closing /\ entry[f] = None
  BY <1>1 DEF FilesInv, FilesShaped, RowsShaped
<1>9. RowsShaped'
  <2>1. \A g \in File : /\ entry'[g] \in {Tickets!Draft(g), None} \cup TicketPlace
                        /\ entry'[g] # None => upload'[g].status # "none"
    BY <1>2, <1>4 DEF FilesInv, FilesShaped, RowsShaped
  <2>2. \A g \in closing : g \in File \ {f}
    BY <1>8 DEF FilesInv, FilesShaped, FilesTyped
  <2>3. \A g \in closing : entry'[g] # Tickets!Draft(g) /\ upload'[g].status # "none"
    BY <1>2, <1>4, <2>2 DEF FilesInv, FilesShaped, RowsShaped, Tickets!IsDraft
  <2>4. QED
    BY <1>1, <2>1, <2>3 DEF RowsShaped, Tickets!IsDraft
<1>10. Distinct'
  <2>1. \A p, q \in Tickets!Place : places'[p] = places'[q] /\ places'[p] # None => p = q
    BY <1>3, <1>5 DEF FilesInv, FilesShaped, Distinct
  <2>2. \A p \in Tickets!Place : places'[p] # None => upload'[places'[p]].status # "none"
    BY <1>2, <1>3, <1>5 DEF FilesInv, FilesShaped, FilesTyped, Distinct
  <2>3. QED
    BY <2>1, <2>2 DEF Distinct
<1>11. ASSUME FilesPlaced
       PROVE  FilesPlaced'
  <2>1. \A g \in File \ {f} : Tickets!Draft(g) # draft /\ Tickets!Draft(g) \in Tickets!Place
    BY Places
  <2>2. \A g \in File \ {f} : Found(g) /\ places[Tickets!Draft(g)] \in {g, None}
    BY <1>11 DEF FilesPlaced
  <2>3. \A g \in File : Found(g)'
    <3>1. Found(f)'
      BY <1>4, <1>5 DEF Found, Tickets!Kept
    <3>2. ASSUME NEW g \in File \ {f}
          PROVE  Found(g)'
      <4>1. /\ entry'[g] = entry[g] /\ journal'[g] = journal[g]
        BY <1>1, <1>4
      <4>2. CASE entry[g] = None
        BY <4>1, <4>2 DEF Found
      <4>3. CASE Tickets!Kept(g) /\ entry[g] # None
        <5>1. entry[g] \in Tickets!Place \ {draft}
          BY <2>1, <4>3, <1>3, Places DEF FilesInv, FilesShaped, RowsShaped
        <5>2. QED
          BY <1>5, <4>1, <4>3, <5>1 DEF Found, Tickets!Kept
      <4>4. CASE Tickets!IsDraft(g) /\ Tickets!Led(g)
        <5>1. journal[g] \in TicketPlace
          BY <4>4 DEF Tickets!Led, FilesInv, FilesShaped, FilesTyped
        <5>2. journal[g] \in Tickets!Place \ {draft}
          BY <5>1, <1>3, Places
        <5>3. QED
          BY <1>5, <4>1, <4>4, <5>2 DEF Found, Tickets!Led, Tickets!IsDraft
      <4>5. QED
        BY <2>2, <4>2, <4>3, <4>4 DEF Found
    <3>3. QED
      BY <3>1, <3>2
  <2>4. \A g \in File : places'[Tickets!Draft(g)] \in {g, None}
    BY <1>5, <2>1, <2>2
  <2>5. \A p \in dropped' : p \in TicketPlace => places'[p] # None /\ entry'[places'[p]] = None
    <3>1. SUFFICES ASSUME NEW p \in dropped, p \in TicketPlace
                   PROVE  places'[p] # None /\ entry'[places'[p]] = None
      BY <1>1
    <3>2. p \in Tickets!Place \ {draft}
      BY <1>3, <3>1, Places
    <3>3. places[p] # None /\ entry[places[p]] = None
      BY <1>11, <3>1 DEF FilesPlaced
    <3>4. places[p] \in File \ {f}
      BY <1>3, <3>2, <3>3 DEF FilesInv, FilesShaped, FilesTyped
    <3>5. QED
      BY <1>4, <1>5, <3>2, <3>3, <3>4
  <2>6. tx' = tx /\ tx.moved = {} /\ tx.pc = "idle"
    BY <1>1
  <2>7. QED
    BY <2>3, <2>4, <2>5, <2>6 DEF FilesPlaced
<1>12. QED
  BY <1>1, <1>6, <1>7, <1>9, <1>10, <1>11 DEF FilesInv, FilesShaped

LEMMA ExpireUploadStep ==
    ASSUME FilesInv, NEW f \in File, Tickets!ExpireUpload(f)
    PROVE  FilesInv'
<1>1. /\ upload' \in [File -> UploadRow]
      /\ \A g \in File : upload'[g].status = upload[g].status
      /\ UNCHANGED <<ticket, entry, places, journal, dropped, tx, closing, replaced, unsure,
                     faults, deaths>>
  BY DEF Tickets!ExpireUpload, FilesInv, FilesShaped, FilesTyped, UploadRow
<1>2. FilesTyped' /\ TxShaped'
  BY <1>1 DEF FilesInv, FilesShaped, FilesTyped, TxShaped, Tickets!IsDraft
<1>3. RowsShaped'
  BY <1>1 DEF FilesInv, FilesShaped, FilesTyped, RowsShaped, Tickets!IsDraft
<1>4. Distinct'
  BY <1>1 DEF FilesInv, FilesShaped, FilesTyped, Distinct
<1>5. ASSUME FilesPlaced
      PROVE  FilesPlaced'
  BY <1>1, <1>5 DEF FilesPlaced, Found, Tickets!IsDraft, Tickets!Kept, Tickets!Led
<1>6. QED
  BY <1>1, <1>2, <1>3, <1>4, <1>5 DEF FilesInv, FilesShaped

LEMMA CancelUploadStep ==
    ASSUME FilesInv, NEW f \in File, Tickets!CancelUpload(f)
    PROVE  FilesInv'
<1>1. /\ tx.pc = "idle" /\ tx.moved = {} /\ upload[f].status # "none"
      /\ upload' = [upload EXCEPT ![f].status = "cancelled"]
      /\ entry' = [entry EXCEPT ![f] = None]
      /\ dropped' \subseteq dropped \cup {Tickets!Draft(f)}
      /\ UNCHANGED <<ticket, places, journal, tx, closing, replaced, unsure, faults, deaths>>
  BY DEF Tickets!CancelUpload, Tickets!Unlocked, FilesInv, FilesShaped, TxShaped
<1>2. /\ upload' \in [File -> UploadRow] /\ upload'[f].status = "cancelled"
      /\ \A g \in File \ {f} : upload'[g] = upload[g]
  BY <1>1 DEF FilesInv, FilesShaped, FilesTyped, UploadRow
<1>3. /\ entry' \in [File -> Tickets!Place \cup {None}] /\ entry'[f] = None
      /\ \A g \in File \ {f} : entry'[g] = entry[g]
  BY <1>1 DEF FilesInv, FilesShaped, FilesTyped
<1>4. Tickets!Draft(f) \in Tickets!Place \ TicketPlace /\ dropped' \subseteq Tickets!Place
  BY <1>1, Places DEF FilesInv, FilesShaped, FilesTyped
<1>5. FilesTyped'
  BY <1>1, <1>2, <1>3, <1>4 DEF FilesInv, FilesShaped, FilesTyped
<1>6. TxShaped'
  BY <1>1 DEF FilesInv, FilesShaped, TxShaped
<1>7. RowsShaped'
  <2>1. \A g \in File : /\ entry'[g] \in {Tickets!Draft(g), None} \cup TicketPlace
                        /\ entry'[g] # None => upload'[g].status # "none"
    BY <1>2, <1>3 DEF FilesInv, FilesShaped, RowsShaped
  <2>2. \A g \in closing : entry'[g] # Tickets!Draft(g) /\ upload'[g].status # "none"
    BY <1>2, <1>3, <1>4, Places
       DEF FilesInv, FilesShaped, FilesTyped, RowsShaped, Tickets!IsDraft
  <2>3. QED
    BY <1>1, <2>1, <2>2 DEF RowsShaped, Tickets!IsDraft
<1>8. Distinct'
  BY <1>1, <1>2 DEF FilesInv, FilesShaped, FilesTyped, Distinct
<1>9. ASSUME FilesPlaced
      PROVE  FilesPlaced'
  <2>1. \A g \in File : Found(g)' /\ places'[Tickets!Draft(g)] \in {g, None}
    BY <1>1, <1>3, <1>9 DEF FilesPlaced, Found, Tickets!IsDraft, Tickets!Kept, Tickets!Led
  <2>2. \A p \in dropped' : p \in TicketPlace => places'[p] # None /\ entry'[places'[p]] = None
    <3>1. SUFFICES ASSUME NEW p \in dropped, p \in TicketPlace
                   PROVE  places[p] # None /\ entry'[places[p]] = None
      BY <1>1, <1>4
    <3>2. places[p] # None /\ entry[places[p]] = None /\ places[p] \in File
      BY <1>9, <3>1, Places DEF FilesPlaced, FilesInv, FilesShaped, FilesTyped
    <3>3. QED
      BY <1>3, <3>2
  <2>3. QED
    BY <1>1, <2>1, <2>2 DEF FilesPlaced
<1>10. QED
  BY <1>1, <1>5, <1>6, <1>7, <1>8, <1>9 DEF FilesInv, FilesShaped

\* The older journal led nowhere, so its file is in the folder of the draft.
LEMMA WriteJournalStep ==
    ASSUME FilesInv, NEW f \in File, Tickets!WriteJournal(f)
    PROVE  FilesInv'
<1>1. /\ tx.pc = "bind" /\ tx.ticket \in Ticket /\ f \in tx.left /\ Tickets!IsDraft(f)
      /\ UNCHANGED <<ticket, entry, upload, places, dropped, closing, unsure, faults, deaths>>
  BY DEF Tickets!WriteJournal, Tickets!Bindable, FilesInv, FilesShaped, TxShaped
<1>2. Tickets!Target \in TicketPlace /\ places[Tickets!Target] = None
  BY <1>1, TargetIsFree, Places DEF FilesInv
<1>3. /\ journal' \in [File -> TicketPlace \cup {None}] /\ journal'[f] = Tickets!Target
      /\ \A g \in File \ {f} : journal'[g] = journal[g]
  BY <1>2 DEF Tickets!WriteJournal, FilesInv, FilesShaped, FilesTyped
<1>4. /\ tx' \in Transaction /\ tx'.pc = "move" /\ tx'.file = f /\ tx'.ticket = tx.ticket
      /\ tx'.moved = tx.moved /\ tx'.left = tx.left /\ tx'.deletes = tx.deletes
  BY DEF Tickets!WriteJournal, FilesInv, FilesShaped, FilesTyped, Transaction
<1>5. replaced' \in BOOLEAN
  BY DEF Tickets!WriteJournal, FilesInv, FilesShaped, FilesTyped
<1>6. FilesTyped'
  BY <1>1, <1>3, <1>4, <1>5 DEF FilesInv, FilesShaped, FilesTyped
<1>7. TxShaped'
  <2>1. \A g \in tx.moved : g \in File \ {f} /\ journal[g] # None /\ g \notin closing
    BY <1>1, TxFields DEF FilesInv, FilesShaped, TxShaped
  <2>2. \A g \in tx'.moved : journal'[g] # None /\ g \notin closing'
    BY <1>1, <1>3, <1>4, <2>1
  <2>3. journal'[tx'.file] # None
    BY <1>2, <1>3, <1>4, Places
  <2>4. QED
    BY <1>1, <1>4, <2>2, <2>3 DEF FilesInv, FilesShaped, TxShaped, Tickets!IsDraft
<1>8. RowsShaped' /\ Distinct'
  BY <1>1 DEF FilesInv, FilesShaped, RowsShaped, Distinct, Tickets!IsDraft
<1>9. ASSUME FilesPlaced, ~replaced'
      PROVE  FilesPlaced'
  <2>1. Tickets!Kept(f)
    <3>1. ~Tickets!Led(f)
      BY <1>9 DEF Tickets!WriteJournal, Tickets!Led
    <3>2. Found(f) /\ entry[f] # None
      BY <1>1, <1>9, Places DEF FilesPlaced, Tickets!IsDraft
    <3>3. QED
      BY <3>1, <3>2 DEF Found
  <2>2. \A g \in tx.moved : g \in File \ {f}
    BY <1>1 DEF FilesInv, FilesShaped, FilesTyped, Transaction, TxShaped
  <2>3. \A g \in File : Found(g)'
    BY <1>1, <1>3, <1>9, <2>1
       DEF FilesPlaced, Found, Tickets!Kept, Tickets!Led, Tickets!IsDraft
  <2>4. \A g \in tx'.moved : (Tickets!IsDraft(g) /\ Tickets!Led(g))'
    BY <1>1, <1>3, <1>4, <1>9, <2>2 DEF FilesPlaced, Tickets!Led, Tickets!IsDraft
  <2>5. Tickets!Kept(tx.file)' /\ places'[journal'[tx'.file]] = None
    BY <1>1, <1>2, <1>3, <1>4, <2>1 DEF Tickets!Kept
  <2>6. QED
    BY <1>1, <1>9, <2>3, <2>4, <2>5 DEF FilesPlaced
<1>10. replaced => replaced'
  BY DEF Tickets!WriteJournal
<1>11. QED
  BY <1>1, <1>6, <1>7, <1>8, <1>9, <1>10 DEF FilesInv, FilesShaped

\* The file was in the folder of its draft, and nothing is at the place it moves to.
LEMMA MoveStep ==
    ASSUME FilesInv, NEW f \in File, Tickets!Move(f)
    PROVE  FilesInv'
<1> DEFINE draft == Tickets!Draft(f)
           goal == journal[f]
<1>1. /\ tx.pc = "move" /\ f = tx.file /\ f \in tx.left /\ Tickets!IsDraft(f)
      /\ goal \in TicketPlace /\ goal \in Tickets!Place
      /\ draft \in Tickets!Place \ TicketPlace /\ draft # goal
  BY Places DEF Tickets!Move, FilesInv, FilesShaped, FilesTyped, TxShaped
<1>2. /\ tx' \in Transaction /\ tx'.pc = "bind" /\ tx'.ticket = tx.ticket
      /\ tx'.moved = tx.moved \cup {f} /\ tx'.deletes = tx.deletes
      /\ tx'.left = tx.left \ {f}
      /\ UNCHANGED <<ticket, entry, upload, journal, dropped, closing, replaced, unsure,
                     faults, deaths>>
  BY DEF Tickets!Move, FilesInv, FilesShaped, FilesTyped, Transaction
<1>3. /\ places' \in [Tickets!Place -> File \cup {None}]
      /\ places'[goal] = places[draft] /\ places'[draft] = None
      /\ \A p \in Tickets!Place \ {draft, goal} : places'[p] = places[p]
      /\ Distinct'
  BY <1>1, <1>2, RenameMoves DEF Tickets!Move, FilesInv, FilesShaped
<1>4. FilesTyped'
  BY <1>2, <1>3 DEF FilesInv, FilesShaped, FilesTyped
<1>5. TxShaped'
  <2>1. f \notin closing /\ journal[f] # None
    BY <1>1, Places DEF FilesInv, FilesShaped, RowsShaped
  <2>2. QED
    BY <1>1, <1>2, <2>1 DEF FilesInv, FilesShaped, TxShaped, Tickets!IsDraft
<1>6. RowsShaped'
  BY <1>2 DEF FilesInv, FilesShaped, RowsShaped, Tickets!IsDraft
<1>7. ASSUME FilesPlaced
      PROVE  FilesPlaced'
  <2>1. places[draft] = f /\ entry[f] = draft /\ places[goal] = None
    BY <1>1, <1>7 DEF FilesPlaced, Tickets!Kept, Tickets!IsDraft
  <2>2. Tickets!Led(f)'
    BY <1>1, <1>2, <1>3, <2>1, Places DEF Tickets!Led
  <2>3. \A p \in Tickets!Place : places[p] # None /\ places[p] # f => places'[p] = places[p]
    BY <1>3, <2>1
  <2>4. \A g \in File : Found(g)'
    <3>1. Found(f)'
      BY <1>1, <1>2, <2>2 DEF Found, Tickets!IsDraft
    <3>2. ASSUME NEW g \in File \ {f}
          PROVE  Found(g)'
      <4>1. g # None /\ (entry[g] # None => entry[g] \in Tickets!Place)
            /\ (journal[g] # None => journal[g] \in Tickets!Place)
        BY Places DEF FilesInv, FilesShaped, FilesTyped
      <4>2. Found(g)
        BY <1>7 DEF FilesPlaced
      <4>3. QED
        BY <1>2, <2>3, <4>1, <4>2 DEF Found, Tickets!Kept, Tickets!Led, Tickets!IsDraft
    <3>3. QED
      BY <3>1, <3>2
  <2>5. \A g \in File : places'[Tickets!Draft(g)] \in {g, None}
    BY <1>1, <1>3, <1>7, Places DEF FilesPlaced
  <2>6. \A p \in dropped' : p \in TicketPlace => places'[p] # None /\ entry'[places'[p]] = None
    <3>1. SUFFICES ASSUME NEW p \in dropped, p \in TicketPlace
                   PROVE  places'[p] # None /\ entry[places'[p]] = None
      BY <1>2
    <3>2. p \in Tickets!Place /\ places[p] # None /\ entry[places[p]] = None
      BY <1>7, <3>1, Places DEF FilesPlaced
    <3>3. places'[p] = places[p]
      BY <1>1, <1>3, <2>1, <3>1, <3>2
    <3>4. QED
      BY <3>2, <3>3
  <2>7. \A g \in tx'.moved : (Tickets!IsDraft(g) /\ Tickets!Led(g))'
    <3>1. \A g \in tx.moved : g \in File \ {f} /\ g # None /\ Tickets!IsDraft(g) /\ Tickets!Led(g)
      BY <1>1, <1>7, Places
         DEF FilesPlaced, FilesInv, FilesShaped, FilesTyped, Transaction, TxShaped
    <3>2. \A g \in tx.moved : journal[g] \in Tickets!Place
      BY <3>1, Places DEF Tickets!Led, FilesInv, FilesShaped, FilesTyped
    <3>3. \A g \in tx.moved : (Tickets!IsDraft(g) /\ Tickets!Led(g))'
      BY <1>2, <2>3, <3>1, <3>2 DEF Tickets!Led, Tickets!IsDraft
    <3>4. QED
      BY <1>1, <1>2, <2>2, <3>3 DEF Tickets!IsDraft
  <2>8. QED
    BY <1>2, <2>4, <2>5, <2>6, <2>7 DEF FilesPlaced
<1>8. QED
  BY <1>2, <1>3, <1>4, <1>5, <1>6, <1>7 DEF FilesInv, FilesShaped

\* What both outcomes of a commit do to the rows.
LEMMA RowsCommitted ==
    ASSUME FilesShaped, tx.pc = "bind", Tickets!Committed
    PROVE  /\ ticket' \in [Ticket -> {"none", "open", "gone"}]
           /\ entry' \in [File -> Tickets!Place \cup {None}]
           /\ \A f \in tx.moved : entry'[f] = journal[f] /\ Tickets!IsDraft(f)
           /\ \A f \in tx.deletes : entry'[f] = None /\ entry[f] \in TicketPlace
           /\ \A f \in File \ (tx.moved \cup tx.deletes) : entry'[f] = entry[f]
           /\ dropped' = dropped \cup {entry[f] : f \in tx.deletes}
           /\ dropped' \subseteq Tickets!Place
           /\ upload' \in [File -> UploadRow]
           /\ \A f \in File : upload'[f].status = upload[f].status
           /\ tx.moved \subseteq File /\ tx.deletes \subseteq File
<1>1. /\ tx.ticket \in Ticket /\ tx.moved \subseteq File /\ tx.deletes \subseteq File
      /\ \A f \in tx.moved : Tickets!IsDraft(f)
      /\ \A f \in tx.deletes : entry[f] \in TicketPlace
  BY Places, TxFields DEF FilesShaped, TxShaped
<1>2. \A f \in tx.deletes : f \notin tx.moved
  BY <1>1, Places DEF Tickets!IsDraft
<1>3. ticket' \in [Ticket -> {"none", "open", "gone"}]
  BY <1>1 DEF Tickets!Committed, FilesShaped, FilesTyped
<1>4. entry' = [f \in File |-> IF f \in tx.moved THEN journal[f]
                              ELSE IF f \in tx.deletes THEN None ELSE entry[f]]
  BY DEF Tickets!Committed
<1>5. /\ entry' \in [File -> Tickets!Place \cup {None}]
      /\ \A f \in tx.moved : entry'[f] = journal[f]
      /\ \A f \in tx.deletes : entry'[f] = None
      /\ \A f \in File \ (tx.moved \cup tx.deletes) : entry'[f] = entry[f]
  BY <1>1, <1>2, <1>4, Places DEF FilesShaped, FilesTyped
<1>6. /\ dropped' = dropped \cup {entry[f] : f \in tx.deletes}
      /\ dropped' \subseteq Tickets!Place
  BY <1>1, Places DEF Tickets!Committed, FilesShaped, FilesTyped
<1>7. \A f \in File : upload'[f] = IF f \in tx.moved
                                  THEN [upload[f] EXCEPT !.ticket = tx.ticket] ELSE upload[f]
  BY DEF Tickets!Committed
<1>8. \A f \in File : upload'[f] \in UploadRow /\ upload'[f].status = upload[f].status
  BY <1>1, <1>7 DEF FilesShaped, FilesTyped, UploadRow
<1>9. upload' \in [File -> UploadRow]
  BY <1>8 DEF Tickets!Committed
<1>10. QED
  BY <1>1, <1>3, <1>5, <1>6, <1>8, <1>9

\* A row that was deleted or moved names no draft afterwards.
LEMMA CommittedShaped ==
    ASSUME FilesShaped, tx.pc = "bind", Tickets!Committed, UNCHANGED <<places, journal>>,
           tx' \in Transaction, TxShaped', closing' \subseteq closing \cup tx.moved,
           unsure' \in BOOLEAN, UNCHANGED replaced, faults' \in Nat, UNCHANGED deaths
    PROVE  FilesShaped'
<1>1. /\ ticket' \in [Ticket -> {"none", "open", "gone"}]
      /\ entry' \in [File -> Tickets!Place \cup {None}]
      /\ dropped' \subseteq Tickets!Place /\ upload' \in [File -> UploadRow]
      /\ closing' \subseteq File
  BY RowsCommitted DEF FilesShaped, FilesTyped
<1>2. FilesTyped'
  BY <1>1 DEF FilesShaped, FilesTyped
<1>3. \A f \in File : upload'[f].status = upload[f].status
  BY RowsCommitted
<1>4. /\ \A f \in tx.moved : f \in File /\ entry'[f] = journal[f] /\ entry[f] # None
      /\ \A f \in tx.deletes : f \in File /\ entry'[f] = None
      /\ \A f \in File \ (tx.moved \cup tx.deletes) : entry'[f] = entry[f]
  BY RowsCommitted, Places DEF Tickets!IsDraft
<1>5. RowsShaped'
  <2>1. \A f \in File : /\ entry'[f] \in {Tickets!Draft(f), None} \cup TicketPlace
                        /\ entry'[f] # None => upload'[f].status # "none"
    BY <1>3, <1>4 DEF FilesShaped, FilesTyped, RowsShaped
  <2>2. \A f \in tx.moved : entry'[f] # Tickets!Draft(f) /\ upload'[f].status # "none"
    BY <1>3, <1>4, Places DEF FilesShaped, FilesTyped, RowsShaped
  <2>3. \A f \in closing : entry'[f] # Tickets!Draft(f) /\ upload'[f].status # "none"
    <3>1. SUFFICES ASSUME NEW f \in closing
                   PROVE  entry'[f] # Tickets!Draft(f) /\ upload'[f].status # "none"
      OBVIOUS
    <3>2. f \in File /\ entry[f] # Tickets!Draft(f) /\ upload'[f].status # "none"
      BY <1>3 DEF FilesShaped, FilesTyped, RowsShaped, Tickets!IsDraft
    <3>3. Tickets!Draft(f) # None
      BY <3>2, Places
    <3>4. QED
      BY <1>4, <2>2, <3>2, <3>3
  <2>4. QED
    BY <2>1, <2>2, <2>3 DEF RowsShaped, Tickets!IsDraft
<1>6. Distinct'
  BY <1>3 DEF FilesShaped, FilesTyped, Distinct
<1>7. QED
  BY <1>2, <1>5, <1>6 DEF FilesShaped

\* What was moved is where its journal says, what is deleted is where its row says.
LEMMA CommitSaveStep ==
    ASSUME FilesInv, Tickets!CommitSave
    PROVE  FilesInv'
<1>1. /\ FilesShaped /\ tx.pc = "bind" /\ Tickets!Committed
      /\ tx' = Tickets!NoTx /\ closing' = closing \cup tx.moved
      /\ UNCHANGED <<places, journal, replaced, unsure, faults, deaths>>
  BY DEF Tickets!CommitSave, FilesInv
<1>2. /\ tx' \in Transaction /\ tx'.pc = "idle" /\ tx'.moved = {}
  BY <1>1 DEF Tickets!NoTx, Transaction
<1>3. TxShaped'
  BY <1>2 DEF TxShaped
<1>4. FilesShaped'
  <2>1. unsure' \in BOOLEAN /\ faults' \in Nat
    BY <1>1 DEF FilesShaped, FilesTyped
  <2>2. QED
    BY <1>1, <1>2, <1>3, <2>1, CommittedShaped
<1>5. ASSUME FilesPlaced
      PROVE  FilesPlaced'
  <2>1. /\ \A f \in tx.moved : f \in File /\ entry'[f] = journal[f] /\ Tickets!IsDraft(f)
        /\ \A f \in tx.deletes : f \in File /\ entry'[f] = None /\ entry[f] \in TicketPlace
        /\ \A f \in File \ (tx.moved \cup tx.deletes) : entry'[f] = entry[f]
        /\ dropped' = dropped \cup {entry[f] : f \in tx.deletes}
    BY <1>1, RowsCommitted
  <2>2. \A f \in File : Found(f)'
    <3>1. \A f \in tx.moved : Found(f)'
      BY <1>1, <1>5, <2>1 DEF FilesPlaced, Found, Tickets!Kept, Tickets!Led
    <3>2. \A f \in tx.deletes : Found(f)'
      BY <2>1 DEF Found
    <3>3. \A f \in File \ (tx.moved \cup tx.deletes) : Found(f)'
      BY <1>1, <1>5, <2>1
         DEF FilesPlaced, Found, Tickets!Kept, Tickets!Led, Tickets!IsDraft
    <3>4. QED
      BY <3>1, <3>2, <3>3
  <2>3. \A p \in dropped' : p \in TicketPlace => places'[p] # None /\ entry'[places'[p]] = None
    <3>1. ASSUME NEW p \in dropped, p \in TicketPlace
          PROVE  places[p] # None /\ entry'[places[p]] = None
      <4>1. places[p] # None /\ entry[places[p]] = None /\ places[p] \in File
        BY <1>1, <1>5, <3>1, Places DEF FilesPlaced, FilesShaped, FilesTyped
      <4>2. places[p] \notin tx.moved
        BY <2>1, <4>1, Places DEF Tickets!IsDraft
      <4>3. QED
        BY <2>1, <4>1, <4>2
    <3>2. ASSUME NEW f \in tx.deletes
          PROVE  places[entry[f]] # None /\ entry'[places[entry[f]]] = None
      <4>1. f \in File /\ entry'[f] = None /\ entry[f] # None /\ ~Tickets!IsDraft(f) /\ f # None
        BY <2>1, Places DEF Tickets!IsDraft
      <4>2. places[entry[f]] = f
        BY <1>5, <4>1 DEF FilesPlaced, Found, Tickets!Kept
      <4>3. QED
        BY <4>1, <4>2
    <3>3. QED
      BY <1>1, <2>1, <3>1, <3>2
  <2>4. QED
    BY <1>1, <1>2, <1>5, <2>2, <2>3 DEF FilesPlaced
<1>6. QED
  BY <1>1, <1>4, <1>5 DEF FilesInv

LEMMA LoseCommitStep ==
    ASSUME FilesInv, Tickets!LoseCommit
    PROVE  FilesInv'
<1>1. /\ FilesShaped /\ tx.pc = "bind" /\ Tickets!Committed /\ unsure' = TRUE
      /\ UNCHANGED <<places, journal, closing, replaced, deaths>>
  BY DEF Tickets!LoseCommit, FilesInv
<1>2. /\ tx' \in Transaction /\ tx'.pc = "undo" /\ tx'.ticket = tx.ticket
      /\ tx'.moved = tx.moved /\ tx'.left = tx.left /\ faults' \in Nat
  BY DEF Tickets!LoseCommit, Tickets!Fault, FilesInv, FilesShaped, FilesTyped, Transaction
<1>3. TxShaped'
  BY <1>1, <1>2 DEF FilesShaped, TxShaped
<1>4. FilesShaped'
  BY <1>1, <1>2, <1>3, CommittedShaped
<1>5. QED
  BY <1>1, <1>4 DEF FilesInv

\* A file that is moved back finds the folder of its draft empty.
LEMMA UndoStep ==
    ASSUME FilesInv, NEW f \in File, Tickets!Undo(f)
    PROVE  FilesInv'
<1> DEFINE draft == Tickets!Draft(f)
           from == journal[f]
<1>1. /\ tx.pc = "undo" /\ f \in tx.moved /\ places' = Tickets!MovedBack(f)
      /\ from \in TicketPlace /\ from \in Tickets!Place
      /\ draft \in Tickets!Place \ TicketPlace /\ draft # from
      /\ f # None /\ draft # None
      /\ UNCHANGED <<ticket, entry, upload, dropped, closing, replaced, unsure, faults, deaths>>
  BY Places DEF Tickets!Undo, FilesInv, FilesShaped, FilesTyped, TxShaped
<1>2. /\ tx' \in Transaction /\ tx'.pc = "undo" /\ tx'.ticket = tx.ticket
      /\ tx'.moved = tx.moved \ {f} /\ tx'.left = tx.left
  BY DEF Tickets!Undo, FilesInv, FilesShaped, FilesTyped, Transaction
<1>3. /\ journal' \in [File -> TicketPlace \cup {None}]
      /\ \A g \in File \ {f} : journal'[g] = journal[g]
  BY DEF Tickets!Undo, FilesInv, FilesShaped, FilesTyped
<1>4. /\ places' \in [Tickets!Place -> File \cup {None}] /\ Distinct'
  <2>1. CASE places' = Tickets!Renamed(from, draft)
    BY <1>1, <2>1, RenameMoves DEF FilesInv, FilesShaped
  <2>2. CASE places' = places
    BY <1>1, <2>2 DEF FilesInv, FilesShaped, FilesTyped, Distinct
  <2>3. QED
    BY <1>1, <2>1, <2>2 DEF Tickets!MovedBack
<1>5. FilesTyped'
  BY <1>1, <1>2, <1>3, <1>4 DEF FilesInv, FilesShaped, FilesTyped
<1>6. TxShaped'
  <2>1. \A g \in tx.moved \ {f} : g \in File \ {f} /\ journal[g] # None /\ g \notin closing
    BY TxFields DEF FilesInv, FilesShaped, TxShaped
  <2>2. \A g \in tx'.moved : journal'[g] # None /\ g \notin closing'
    BY <1>1, <1>2, <1>3, <2>1
  <2>3. QED
    BY <1>1, <1>2, <2>2 DEF FilesInv, FilesShaped, TxShaped
<1>7. RowsShaped'
  BY <1>1 DEF FilesInv, FilesShaped, RowsShaped, Tickets!IsDraft
<1>8. ASSUME FilesPlaced
      PROVE  FilesPlaced'
  <2>1. places[from] = f /\ places[draft] = None /\ entry[f] = draft
    <3>1. places[from] = f /\ entry[f] = draft /\ places[draft] \in {f, None}
      BY <1>1, <1>8 DEF FilesPlaced, Tickets!IsDraft, Tickets!Led
    <3>2. QED
      BY <1>1, <3>1 DEF FilesInv, FilesShaped, Distinct
  <2>2. /\ places'[draft] = f /\ places'[from] = None
        /\ \A p \in Tickets!Place \ {draft, from} : places'[p] = places[p]
    BY <1>1, <2>1, RenameMoves DEF Tickets!MovedBack, FilesInv, FilesShaped
  <2>3. \A p \in Tickets!Place : places[p] # None /\ places[p] # f => places'[p] = places[p]
    BY <2>1, <2>2
  <2>4. ASSUME NEW g \in File \ {f}
        PROVE  /\ Tickets!Kept(g) /\ entry[g] # None => Tickets!Kept(g)'
               /\ Tickets!IsDraft(g) /\ Tickets!Led(g) => (Tickets!IsDraft(g) /\ Tickets!Led(g))'
    <3>1. g # None /\ (entry[g] # None => entry[g] \in Tickets!Place)
          /\ (journal[g] # None => journal[g] \in Tickets!Place) /\ journal'[g] = journal[g]
      BY <1>3, Places DEF FilesInv, FilesShaped, FilesTyped
    <3>2. QED
      BY <1>1, <2>3, <3>1 DEF Tickets!Kept, Tickets!Led, Tickets!IsDraft
  <2>5. \A g \in File : Found(g)'
    <3>1. Found(f)'
      BY <1>1, <2>1, <2>2 DEF Found, Tickets!Kept
    <3>2. ASSUME NEW g \in File \ {f}
          PROVE  Found(g)'
      BY <1>1, <1>8, <2>4 DEF FilesPlaced, Found
    <3>3. QED
      BY <3>1, <3>2
  <2>6. \A g \in File : places'[Tickets!Draft(g)] \in {g, None}
    BY <1>1, <1>8, <2>2, Places DEF FilesPlaced
  <2>7. \A p \in dropped' : p \in TicketPlace => places'[p] # None /\ entry'[places'[p]] = None
    <3>1. SUFFICES ASSUME NEW p \in dropped, p \in TicketPlace
                   PROVE  places'[p] # None /\ entry[places'[p]] = None
      BY <1>1
    <3>2. p \in Tickets!Place /\ places[p] # None /\ entry[places[p]] = None
      BY <1>8, <3>1, Places DEF FilesPlaced
    <3>3. places'[p] = places[p]
      BY <1>1, <2>1, <2>3, <3>2
    <3>4. QED
      BY <3>2, <3>3
  <2>8. \A g \in tx'.moved : (Tickets!IsDraft(g) /\ Tickets!Led(g))'
    <3>1. \A g \in tx'.moved : g \in File \ {f} /\ Tickets!IsDraft(g) /\ Tickets!Led(g)
      BY <1>2, <1>8, TxFields DEF FilesPlaced, FilesInv, FilesShaped
    <3>2. QED
      BY <2>4, <3>1
  <2>9. QED
    BY <1>2, <2>5, <2>6, <2>7, <2>8 DEF FilesPlaced
<1>9. QED
  BY <1>1, <1>4, <1>5, <1>6, <1>7, <1>8 DEF FilesInv, FilesShaped

\* The journal that is removed is that of a row that does not name its draft.
LEMMA FinalizeStep ==
    ASSUME FilesInv, NEW f \in File, Tickets!Finalize(f)
    PROVE  FilesInv'
<1>1. /\ f \in closing /\ closing' = closing \ {f} /\ ~Tickets!IsDraft(f) /\ f \notin tx.moved
      /\ UNCHANGED <<ticket, entry, upload, places, dropped, tx, replaced, unsure, deaths>>
  BY DEF Tickets!Finalize, FilesInv, FilesShaped, TxShaped, RowsShaped
<1>2. /\ journal' \in [File -> TicketPlace \cup {None}]
      /\ \A g \in File \ {f} : journal'[g] = journal[g]
  <2>1. CASE journal' = [journal EXCEPT ![f] = None]
    BY <2>1 DEF FilesInv, FilesShaped, FilesTyped
  <2>2. CASE UNCHANGED journal
    BY <2>2 DEF FilesInv, FilesShaped, FilesTyped
  <2>3. QED
    BY <2>1, <2>2 DEF Tickets!Finalize
<1>3. faults' \in Nat
  BY DEF Tickets!Finalize, Tickets!Fault, FilesInv, FilesShaped, FilesTyped
<1>4. FilesTyped'
  BY <1>1, <1>2, <1>3 DEF FilesInv, FilesShaped, FilesTyped
<1>5. TxShaped'
  <2>1. \A g \in tx.moved : g \in File \ {f} /\ journal'[g] # None /\ g \notin closing'
    BY <1>1, <1>2, TxFields DEF FilesInv, FilesShaped, TxShaped
  <2>2. tx.pc = "move" => tx.file \in File \ {f} /\ journal'[tx.file] # None
    BY <1>1, <1>2, TxFields DEF FilesInv, FilesShaped, TxShaped
  <2>3. QED
    BY <1>1, <2>1, <2>2 DEF FilesInv, FilesShaped, TxShaped, Tickets!IsDraft
<1>6. RowsShaped' /\ Distinct'
  BY <1>1 DEF FilesInv, FilesShaped, RowsShaped, Distinct, Tickets!IsDraft
<1>7. ASSUME FilesPlaced
      PROVE  FilesPlaced'
  <2>1. \A g \in File : Tickets!IsDraft(g) => journal'[g] = journal[g]
    BY <1>1, <1>2
  <2>2. \A g \in File : Found(g)'
    BY <1>1, <1>7, <2>1 DEF FilesPlaced, Found, Tickets!IsDraft, Tickets!Kept, Tickets!Led
  <2>3. tx.moved \subseteq File /\ (tx.pc = "move" => tx.file \in File /\ Tickets!IsDraft(tx.file))
    BY TxFields DEF FilesInv, FilesShaped, TxShaped
  <2>4. \A g \in tx.moved : (Tickets!IsDraft(g) /\ Tickets!Led(g))'
    BY <1>1, <1>7, <2>1, <2>3 DEF FilesPlaced, Tickets!IsDraft, Tickets!Led
  <2>5. tx.pc = "move" => Tickets!Kept(tx.file)' /\ places'[journal'[tx.file]] = None
    BY <1>1, <1>7, <2>1, <2>3 DEF FilesPlaced, Tickets!Kept
  <2>6. QED
    BY <1>1, <1>7, <2>2, <2>4, <2>5 DEF FilesPlaced
<1>8. QED
  BY <1>1, <1>4, <1>5, <1>6, <1>7 DEF FilesInv, FilesShaped

\* The file of an attachment that is deleted is where its row said.
LEMMA DeleteTicketStep ==
    ASSUME FilesInv, NEW t \in Ticket, Tickets!DeleteTicket(t)
    PROVE  FilesInv'
<1> DEFINE of == Tickets!Owned(t) \cup Tickets!DraftsOf(t)
<1>1. /\ tx.pc = "idle" /\ tx.moved = {}
      /\ ticket' = [ticket EXCEPT ![t] = "gone"]
      /\ dropped' = dropped \cup {entry[f] : f \in of}
      /\ entry' = [f \in File |-> IF f \in of THEN None ELSE entry[f]]
      /\ upload' = [f \in File |-> IF upload[f].ticket = t
                                   THEN [upload[f] EXCEPT !.status = "cancelled"]
                                   ELSE upload[f]]
      /\ UNCHANGED <<places, journal, tx, closing, replaced, unsure, faults, deaths>>
  BY DEF Tickets!DeleteTicket, Tickets!Unlocked, FilesInv, FilesShaped, TxShaped
<1>2. of \subseteq File /\ \A f \in of : entry[f] \in Tickets!Place
  BY Places DEF Tickets!Owned, Tickets!DraftsOf, Tickets!IsDraft
<1> HIDE DEF of
<1>3. /\ entry' \in [File -> Tickets!Place \cup {None}]
      /\ \A f \in of : entry'[f] = None
      /\ \A f \in File \ of : entry'[f] = entry[f]
      /\ \A f \in File : entry'[f] \in {entry[f], None}
  BY <1>1, <1>2 DEF FilesInv, FilesShaped, FilesTyped
<1>4. upload' \in [File -> UploadRow]
  <2>1. \A f \in File : [upload[f] EXCEPT !.status = "cancelled"] \in UploadRow
    BY DEF FilesInv, FilesShaped, FilesTyped, UploadRow
  <2>2. QED
    BY <1>1, <2>1 DEF FilesInv, FilesShaped, FilesTyped
<1>5. \A f \in File : upload[f].status # "none" => upload'[f].status # "none"
  BY <1>1 DEF FilesInv, FilesShaped, FilesTyped, UploadRow
<1>6. ticket' \in [Ticket -> {"none", "open", "gone"}] /\ dropped' \subseteq Tickets!Place
  BY <1>1, <1>2 DEF FilesInv, FilesShaped, FilesTyped
<1>7. FilesTyped'
  BY <1>1, <1>3, <1>4, <1>6 DEF FilesInv, FilesShaped, FilesTyped
<1>8. TxShaped'
  BY <1>1 DEF FilesInv, FilesShaped, TxShaped
<1>9. RowsShaped'
  <2>1. \A f \in File : /\ entry'[f] \in {Tickets!Draft(f), None} \cup TicketPlace
                        /\ entry'[f] # None => upload'[f].status # "none"
    BY <1>3, <1>5 DEF FilesInv, FilesShaped, RowsShaped
  <2>2. \A f \in closing : entry'[f] # Tickets!Draft(f) /\ upload'[f].status # "none"
    BY <1>3, <1>5, Places DEF FilesInv, FilesShaped, FilesTyped, RowsShaped, Tickets!IsDraft
  <2>3. QED
    BY <1>1, <2>1, <2>2 DEF RowsShaped, Tickets!IsDraft
<1>10. Distinct'
  BY <1>1, <1>5 DEF FilesInv, FilesShaped, FilesTyped, Distinct
<1>11. ASSUME FilesPlaced
       PROVE  FilesPlaced'
  <2>1. \A f \in File : Found(f)'
    BY <1>1, <1>2, <1>3, <1>11
       DEF FilesPlaced, Found, Tickets!IsDraft, Tickets!Kept, Tickets!Led
  <2>2. ASSUME NEW p \in dropped, p \in TicketPlace
        PROVE  places[p] # None /\ entry'[places[p]] = None
    <3>1. places[p] # None /\ entry[places[p]] = None /\ places[p] \in File
      BY <1>11, <2>2, Places DEF FilesPlaced, FilesInv, FilesShaped, FilesTyped
    <3>2. QED
      BY <1>3, <3>1
  <2>3. ASSUME NEW f \in of, entry[f] \in TicketPlace
        PROVE  places[entry[f]] # None /\ entry'[places[entry[f]]] = None
    <3>1. f \in File /\ entry[f] # None /\ ~Tickets!IsDraft(f) /\ f # None
      BY <1>2, <2>3, Places DEF Tickets!IsDraft
    <3>2. places[entry[f]] = f
      BY <1>11, <3>1 DEF FilesPlaced, Found, Tickets!Kept
    <3>3. QED
      BY <1>3, <3>1, <3>2
  <2>4. \A p \in dropped' : p \in TicketPlace => places'[p] # None /\ entry'[places'[p]] = None
    BY <1>1, <2>2, <2>3
  <2>5. QED
    BY <1>1, <1>11, <2>1, <2>4 DEF FilesPlaced
<1>12. QED
  BY <1>1, <1>7, <1>8, <1>9, <1>10, <1>11 DEF FilesInv, FilesShaped

\* A row's place is not removed, and no journal of a draft leads to what was dropped.
LEMMA DrainStep ==
    ASSUME FilesInv, Tickets!Drain
    PROVE  FilesInv'
<1> DEFINE live == {entry[f] : f \in File}
<1>1. PICK kept \in SUBSET (dropped \ live) :
          /\ dropped' = kept
          /\ places' = [p \in Tickets!Place |->
                            IF p \in dropped \ (live \cup kept) THEN None ELSE places[p]]
  BY DEF Tickets!Drain
<1>2. /\ tx.pc = "idle" /\ tx.moved = {} /\ faults' \in Nat
      /\ UNCHANGED <<ticket, entry, upload, journal, tx, closing, replaced, unsure, deaths>>
  BY DEF Tickets!Drain, Tickets!Unlocked, Tickets!Fault, FilesInv, FilesShaped, FilesTyped,
         TxShaped
<1>3. /\ \A f \in File : entry[f] \in live
      /\ kept \subseteq dropped
  OBVIOUS
<1> HIDE DEF live
<1>4. /\ places' \in [Tickets!Place -> File \cup {None}]
      /\ \A p \in Tickets!Place : places'[p] \in {places[p], None}
      /\ \A p \in Tickets!Place : p \in live \cup kept \/ p \notin dropped => places'[p] = places[p]
  BY <1>1 DEF FilesInv, FilesShaped, FilesTyped
<1>5. FilesTyped'
  BY <1>1, <1>2, <1>4 DEF FilesInv, FilesShaped, FilesTyped
<1>6. TxShaped' /\ RowsShaped'
  BY <1>2 DEF FilesInv, FilesShaped, TxShaped, RowsShaped, Tickets!IsDraft
<1>7. Distinct'
  BY <1>2, <1>4 DEF FilesInv, FilesShaped, Distinct
<1>8. ASSUME FilesPlaced
      PROVE  FilesPlaced'
  <2>1. ASSUME NEW f \in File
        PROVE  Found(f)'
    <3>1. CASE entry[f] = None
      BY <1>2, <3>1 DEF Found
    <3>2. CASE entry[f] # None /\ Tickets!Kept(f)
      <4>1. entry[f] \in Tickets!Place /\ entry[f] \in live
        BY <1>3, <3>2 DEF FilesInv, FilesShaped, FilesTyped
      <4>2. QED
        BY <1>2, <1>4, <3>2, <4>1 DEF Found, Tickets!Kept
    <3>3. CASE entry[f] # None /\ Tickets!IsDraft(f) /\ Tickets!Led(f)
      <4>1. journal[f] \in TicketPlace /\ journal[f] \in Tickets!Place
        BY <3>3, Places DEF Tickets!Led, FilesInv, FilesShaped, FilesTyped
      <4>2. journal[f] \notin dropped
        BY <1>8, <3>3, <4>1 DEF FilesPlaced, Tickets!Led
      <4>3. QED
        BY <1>2, <1>4, <3>3, <4>1, <4>2 DEF Found, Tickets!Led, Tickets!IsDraft
    <3>4. QED
      BY <1>8, <3>1, <3>2, <3>3 DEF FilesPlaced, Found
  <2>2. \A f \in File : places'[Tickets!Draft(f)] \in {f, None}
    BY <1>4, <1>8, Places DEF FilesPlaced
  <2>3. \A p \in dropped' : p \in TicketPlace => places'[p] # None /\ entry'[places'[p]] = None
    BY <1>1, <1>2, <1>3, <1>4, <1>8, Places DEF FilesPlaced
  <2>4. QED
    BY <1>2, <2>1, <2>2, <2>3 DEF FilesPlaced
<1>9. QED
  BY <1>2, <1>5, <1>6, <1>7, <1>8 DEF FilesInv, FilesShaped

\* What recovery puts where.
LEMMA RecoveredPlaces ==
    ASSUME FilesShaped, NEW s \in Tickets!Followed
    PROVE  /\ s \subseteq File /\ \A f \in s : Tickets!Claims(f) /\ journal[f] \in TicketPlace
           /\ \A f \in s : Tickets!Recovered(s)[Tickets!Draft(f)] = places[journal[f]]
           /\ \A f \in s : Tickets!Recovered(s)[journal[f]] = None
           /\ \A p \in Tickets!Place :
                  (\A f \in s : p # Tickets!Draft(f) /\ p # journal[f])
                      => Tickets!Recovered(s)[p] = places[p]
           /\ Tickets!Recovered(s) \in [Tickets!Place -> File \cup {None}]
<1>1. s \subseteq File /\ \A f \in s : Tickets!Claims(f)
  BY DEF Tickets!Followed
<1>2. \A f \in s : journal[f] \in TicketPlace
  BY <1>1 DEF Tickets!Claims, Tickets!Interrupted, FilesShaped, FilesTyped
<1>3. \A f \in s : /\ Tickets!Draft(f) \in Tickets!Place /\ Tickets!Draft(f).folder = f
                   /\ journal[f] \in Tickets!Place
                   /\ \A g \in s : Tickets!Draft(g) # journal[f]
  BY <1>1, <1>2, Places
<1>4. \A f \in s : Tickets!Recovered(s)[Tickets!Draft(f)] = places[journal[f]]
  BY <1>3 DEF Tickets!Recovered
<1>5. \A f \in s : Tickets!Recovered(s)[journal[f]] = None
  BY <1>3 DEF Tickets!Recovered
<1>6. \A p \in Tickets!Place : (\A f \in s : p # Tickets!Draft(f) /\ p # journal[f])
                                   => Tickets!Recovered(s)[p] = places[p]
  BY DEF Tickets!Recovered
<1>7. \A p \in Tickets!Place : Tickets!Recovered(s)[p] \in File \cup {None}
  BY <1>3, <1>4, <1>5, <1>6 DEF FilesShaped, FilesTyped
<1>8. Tickets!Recovered(s) \in [Tickets!Place -> File \cup {None}]
  BY <1>7 DEF Tickets!Recovered
<1>9. QED
  BY <1>1, <1>2, <1>4, <1>5, <1>6, <1>8

\* Every move that the rows and journals show as cut short is undone, of the right file.
LEMMA ClaimsAreRecovered ==
    ASSUME FilesShaped, FilesPlaced, NEW s \in Tickets!Followed
    PROVE  \A f \in File : Tickets!Claims(f) <=> f \in s /\ places[journal[f]] = f
<1>1. ASSUME NEW f \in File, Tickets!Claims(f)
      PROVE  journal[f] \in Tickets!Place /\ places[journal[f]] = f
  <2>1. /\ entry[f] = Tickets!Draft(f) /\ places[Tickets!Draft(f)] = None
        /\ entry[f] # None /\ f # None
    BY <1>1, Places DEF Tickets!Claims, Tickets!Interrupted, Tickets!IsDraft
  <2>2. Tickets!Led(f)
    BY <2>1 DEF FilesPlaced, Found, Tickets!Kept
  <2>3. QED
    BY <2>2, Places DEF Tickets!Led, FilesShaped, FilesTyped
<1>2. ASSUME NEW f \in File, Tickets!Claims(f)
      PROVE  f \in s
  <2>1. PICK g \in s : journal[g] = journal[f]
    BY <1>2 DEF Tickets!Followed
  <2>2. g \in File /\ Tickets!Claims(g)
    BY RecoveredPlaces
  <2>3. g = f
    BY <1>1, <1>2, <2>1, <2>2
  <2>4. QED
    BY <2>1, <2>3
<1>3. QED
  BY <1>1, <1>2, RecoveredPlaces

\* The sweep brings the files of drafts back, forgets journals and ends stale uploads.
LEMMA SweepStep ==
    ASSUME FilesInv, Tickets!Sweep
    PROVE  FilesInv'
<1>1. PICK s \in Tickets!Followed : places' = Tickets!Recovered(s)
  BY DEF Tickets!Sweep
<1>2. /\ tx.pc = "idle" /\ tx.moved = {}
      /\ entry' = [f \in File |-> IF Tickets!Stale(f) THEN None ELSE entry[f]]
      /\ dropped' = dropped \cup {Tickets!Draft(f) : f \in {g \in File : Tickets!Stale(g)}}
      /\ upload' = [f \in File |-> IF Tickets!Stale(f)
                                   THEN [upload[f] EXCEPT !.status = "expired"] ELSE upload[f]]
      /\ UNCHANGED <<ticket, tx, closing, replaced, unsure, faults, deaths>>
  BY DEF Tickets!Sweep, Tickets!Unlocked, FilesInv, FilesShaped, TxShaped
<1>3. journal' \in [File -> TicketPlace \cup {None}]
  BY DEF Tickets!Sweep, FilesInv, FilesShaped, FilesTyped
<1>4. entry' \in [File -> Tickets!Place \cup {None}]
      /\ \A f \in File : entry'[f] \in {entry[f], None}
  BY <1>2 DEF FilesInv, FilesShaped, FilesTyped
<1>5. /\ dropped' \subseteq Tickets!Place
      /\ \A p \in dropped' : p \in TicketPlace => p \in dropped
  BY <1>2, Places DEF FilesInv, FilesShaped, FilesTyped
<1>6. upload' \in [File -> UploadRow]
  <2>1. \A f \in File : [upload[f] EXCEPT !.status = "expired"] \in UploadRow
    BY DEF FilesInv, FilesShaped, FilesTyped, UploadRow
  <2>2. QED
    BY <1>2, <2>1 DEF FilesInv, FilesShaped, FilesTyped
<1>7. \A f \in File : upload[f].status # "none" => upload'[f].status # "none"
  BY <1>2 DEF FilesInv, FilesShaped, FilesTyped, UploadRow
<1>8. /\ s \subseteq File /\ \A f \in s : Tickets!Claims(f) /\ journal[f] \in TicketPlace
      /\ \A f \in s : places'[Tickets!Draft(f)] = places[journal[f]]
      /\ \A f \in s : places'[journal[f]] = None
      /\ \A p \in Tickets!Place :
             (\A f \in s : p # Tickets!Draft(f) /\ p # journal[f]) => places'[p] = places[p]
      /\ places' \in [Tickets!Place -> File \cup {None}]
  BY <1>1, RecoveredPlaces DEF FilesInv
<1>9. \A f \in s : journal[f] \in Tickets!Place /\ Tickets!Draft(f) \in Tickets!Place
  BY <1>8, Places
<1>10. FilesTyped'
  BY <1>2, <1>3, <1>4, <1>5, <1>6, <1>8 DEF FilesInv, FilesShaped, FilesTyped
<1>11. TxShaped'
  BY <1>2 DEF FilesInv, FilesShaped, TxShaped
<1>12. RowsShaped'
  <2>1. \A f \in File : /\ entry'[f] \in {Tickets!Draft(f), None} \cup TicketPlace
                        /\ entry'[f] # None => upload'[f].status # "none"
    BY <1>4, <1>7 DEF FilesInv, FilesShaped, RowsShaped
  <2>2. \A f \in closing : entry'[f] # Tickets!Draft(f) /\ upload'[f].status # "none"
    BY <1>4, <1>7, Places DEF FilesInv, FilesShaped, FilesTyped, RowsShaped, Tickets!IsDraft
  <2>3. QED
    BY <1>2, <2>1, <2>2 DEF RowsShaped, Tickets!IsDraft
<1>13. Distinct'
  <2> DEFINE same(p) == \A f \in s : p # Tickets!Draft(f) /\ p # journal[f]
  <2>1. \A p \in Tickets!Place : places'[p] # None =>
            \/ \E f \in s : p = Tickets!Draft(f)
            \/ same(p)
    BY <1>8
  <2>2. \A f, g \in s : journal[f] = journal[g] => f = g
    BY DEF Tickets!Followed
  <2>3. ASSUME NEW p \in Tickets!Place, NEW q \in Tickets!Place,
               places'[p] = places'[q], places'[p] # None
        PROVE  p = q
    <3>1. CASE same(p) /\ same(q)
      BY <1>8, <2>3, <3>1 DEF FilesInv, FilesShaped, Distinct
    <3>2. ASSUME NEW f \in s, NEW x \in Tickets!Place, NEW y \in Tickets!Place,
                 x = Tickets!Draft(f), same(y), places'[x] = places'[y], places'[x] # None
          PROVE  FALSE
      <4>1. places[journal[f]] = places[y] /\ places[y] # None
        BY <1>8, <3>2
      <4>2. y = journal[f]
        BY <1>9, <4>1 DEF FilesInv, FilesShaped, Distinct
      <4>3. QED
        BY <3>2, <4>2
    <3>3. ASSUME NEW f \in s, NEW g \in s, p = Tickets!Draft(f), q = Tickets!Draft(g)
          PROVE  p = q
      <4>1. places[journal[f]] = places[journal[g]] /\ places[journal[f]] # None
        BY <1>8, <2>3, <3>3
      <4>2. journal[f] = journal[g]
        BY <1>9, <4>1 DEF FilesInv, FilesShaped, Distinct
      <4>3. QED
        BY <2>2, <3>3, <4>2
    <3>4. QED
      BY <2>1, <2>3, <3>1, <3>2, <3>3
  <2>4. \A p \in Tickets!Place : places'[p] # None => upload'[places'[p]].status # "none"
    <3>1. SUFFICES ASSUME NEW p \in Tickets!Place, places'[p] # None
                   PROVE  \E q \in Tickets!Place : places'[p] = places[q]
      BY <1>7, <1>8 DEF FilesInv, FilesShaped, Distinct
    <3>2. QED
      BY <1>8, <1>9, <2>1, <3>1
  <2>5. QED
    BY <2>3, <2>4 DEF Distinct
<1>14. ASSUME FilesPlaced
       PROVE  FilesPlaced'
  <2>1. \A f \in File : Tickets!Claims(f) <=> f \in s /\ places[journal[f]] = f
    BY <1>14, ClaimsAreRecovered DEF FilesInv
  <2>2. \A f \in s : /\ entry[f] = Tickets!Draft(f) /\ entry[f] # None
                     /\ places[journal[f]] = f /\ f # None
    BY <1>8, <2>1, Places DEF Tickets!Claims, Tickets!Interrupted, Tickets!IsDraft
  <2>3. ASSUME NEW f \in File
        PROVE  Found(f)'
    <3>1. CASE entry[f] = None
      BY <1>4, <3>1 DEF Found
    <3>2. CASE f \in s
      <4>1. places'[Tickets!Draft(f)] = f /\ entry[f] = Tickets!Draft(f)
        BY <1>8, <2>2, <3>2
      <4>2. QED
        BY <1>4, <4>1 DEF Found, Tickets!Kept
    <3>3. CASE entry[f] # None /\ Tickets!Kept(f) /\ f \notin s
      <4>1. entry[f] \in Tickets!Place /\ f # None
        BY <3>3, Places DEF FilesInv, FilesShaped, FilesTyped
      <4>2. \A g \in s : entry[f] # journal[g]
        BY <2>2, <3>3 DEF Tickets!Kept
      <4>3. \A g \in s : entry[f] # Tickets!Draft(g)
        BY <1>8, <3>3, <4>1 DEF Tickets!Kept, Tickets!Claims
      <4>4. places'[entry[f]] = f
        BY <1>8, <3>3, <4>1, <4>2, <4>3 DEF Tickets!Kept
      <4>5. QED
        BY <1>4, <4>4 DEF Found, Tickets!Kept
    <3>4. CASE ~Tickets!Kept(f) /\ Tickets!IsDraft(f) /\ Tickets!Led(f)
      <4>1. places[Tickets!Draft(f)] = None /\ f # None
        BY <1>14, <3>4, Places DEF FilesPlaced, Tickets!Kept, Tickets!IsDraft
      <4>2. Tickets!Claims(f)
        BY <3>4, <4>1 DEF Tickets!Claims, Tickets!Interrupted, Tickets!Led
      <4>3. QED
        BY <2>1, <3>2, <4>2
    <3>5. QED
      BY <1>14, <3>1, <3>2, <3>3, <3>4 DEF FilesPlaced, Found
  <2>4. ASSUME NEW f \in File
        PROVE  places'[Tickets!Draft(f)] \in {f, None}
    <3>1. CASE f \in s
      BY <1>8, <2>2, <3>1
    <3>2. CASE f \notin s
      <4>1. /\ Tickets!Draft(f) \in Tickets!Place
            /\ \A g \in s : Tickets!Draft(f) # Tickets!Draft(g) /\ Tickets!Draft(f) # journal[g]
        BY <1>8, <3>2, Places
      <4>2. QED
        BY <1>8, <1>14, <4>1 DEF FilesPlaced
    <3>3. QED
      BY <3>1, <3>2
  <2>5. ASSUME NEW p \in dropped', p \in TicketPlace
        PROVE  places'[p] # None /\ entry'[places'[p]] = None
    <3>1. /\ p \in Tickets!Place /\ places[p] # None /\ entry[places[p]] = None
          /\ places[p] \in File
      BY <1>5, <1>14, <2>5, Places DEF FilesPlaced, FilesInv, FilesShaped, FilesTyped
    <3>2. \A f \in s : p # Tickets!Draft(f) /\ p # journal[f]
      BY <1>8, <2>2, <2>5, <3>1, Places
    <3>3. QED
      BY <1>4, <1>8, <3>1, <3>2
  <2>6. QED
    BY <1>2, <2>3, <2>4, <2>5 DEF FilesPlaced
<1>15. QED
  BY <1>2, <1>10, <1>11, <1>12, <1>13, <1>14 DEF FilesInv, FilesShaped

-----------------------------------------------------------------------------
(* the theorems *)

LEMMA FilesStep ==
    ASSUME FilesInv, [Tickets!Next]_(Tickets!fileVars)
    PROVE  FilesInv'
<1>1. CASE UNCHANGED Tickets!fileVars
  <2>1. FilesTyped' /\ TxShaped' /\ RowsShaped' /\ Distinct'
    BY <1>1 DEF Tickets!fileVars, FilesInv, FilesShaped, FilesTyped, TxShaped, RowsShaped,
                Distinct, Tickets!IsDraft
  <2>2. FilesPlaced => FilesPlaced'
    BY <1>1 DEF Tickets!fileVars, FilesPlaced, Found, Tickets!IsDraft, Tickets!Kept, Tickets!Led
  <2>3. QED
    BY <1>1, <2>1, <2>2 DEF Tickets!fileVars, FilesInv, FilesShaped
<1>2. ASSUME NEW f \in File,
             \/ \E t \in Ticket \cup {None} : Tickets!Uploaded(f, t)
             \/ Tickets!ExpireUpload(f) \/ Tickets!CancelUpload(f)
             \/ Tickets!Skip(f) \/ Tickets!Refuse(f) \/ Tickets!WriteJournal(f)
             \/ Tickets!Move(f) \/ Tickets!Undo(f) \/ Tickets!Finalize(f)
      PROVE  FilesInv'
  BY <1>2, UploadedStep, ExpireUploadStep, CancelUploadStep, SkipStep, RefuseStep,
     WriteJournalStep, MoveStep, UndoStep, FinalizeStep
<1>3. ASSUME NEW t \in Ticket,
             \/ Tickets!DeleteTicket(t)
             \/ \E up, del \in SUBSET File : Tickets!BeginSave(t, up, del)
      PROVE  FilesInv'
  BY <1>3, DeleteTicketStep, BeginSaveStep
<1>4. CASE Tickets!MoveFails \/ Tickets!CommitSave \/ Tickets!CommitFails
           \/ Tickets!LoseCommit \/ Tickets!UndoEnds
  BY <1>4, MoveFailsStep, CommitSaveStep, CommitFailsStep, LoseCommitStep, UndoEndsStep
<1>5. CASE Tickets!Sweep \/ Tickets!Drain \/ Tickets!Crash
  BY <1>5, SweepStep, DrainStep, DeathStep
<1>6. QED
  BY <1>1, <1>2, <1>3, <1>4, <1>5 DEF Tickets!Next

LEMMA FilesTypesAgree ==
    ASSUME FilesTyped
    PROVE  Tickets!TypeOK
BY Places DEF FilesTyped, UploadRow, Transaction, Tickets!TypeOK

\* The file of an attachment is where its row says, or where the journal of a move that was
\* cut short says, after every failed call, lost answer and death of the server, unless a
\* commit's answer was lost or a journal was written over the one that led to its file.
THEOREM TicketFilesSafe ==
    Tickets!Spec => [](Tickets!TypeOK /\ Tickets!AttachmentsKept)
<1>1. FilesInv => Tickets!TypeOK /\ Tickets!AttachmentsKept
  BY FilesTypesAgree
     DEF FilesInv, FilesShaped, FilesPlaced, Found, Tickets!AttachmentsKept
<1>2. FilesInv /\ [Tickets!Next]_(Tickets!fileVars) => FilesInv'
  BY FilesStep
<1>3. QED
  BY <1>1, <1>2, FilesInit, PTL DEF Tickets!Spec

\* A behaviour of the parts is one of each.
LEMMA PartsAreTheirSpecs == PartsSpec => Spec /\ Tickets!Spec
<1>1. PartsInit => Init /\ Tickets!Init
  BY DEF PartsInit
<1>2. [PartsNext]_<<focus, vars, ticketVars>> => [Next]_vars
  BY DEF PartsNext
<1>3. [PartsNext]_<<focus, vars, ticketVars>> => [Tickets!Next]_(Tickets!fileVars)
  BY DEF PartsNext, ticketVars, Tickets!fileVars
<1>4. QED
  BY <1>1, <1>2, <1>3, PTL DEF PartsSpec, Spec, Tickets!Spec

\* Rows, folders and transactions of uploads and of tickets keep their shapes.
THEOREM FilesTypeOKAlways == PartsSpec => []FilesTypeOK
<1>1. Spec => []TypeOK
  BY TypeCorrect
<1>2. TypeOK /\ Tickets!TypeOK => FilesTypeOK
  BY DEF FilesTypeOK
<1>3. QED
  BY <1>1, <1>2, PartsAreTheirSpecs, TicketFilesSafe, PTL

\* What a row names is on the disk with the bytes of its upload: no recovery gives it another
\* file, no drain removes it, and a move that was cut short leaves a journal that leads to it.
THEOREM RowsHaveFilesAlways == PartsSpec => []RowsHaveFiles
<1>1. SavedHasBytes /\ Tickets!AttachmentsKept => RowsHaveFiles
  BY DEF RowsHaveFiles
<1>2. QED
  BY <1>1, PartsAreTheirSpecs, TicketFilesSafe, SavedHasBytesAlways, PTL
=============================================================================
