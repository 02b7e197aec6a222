---------------------------- MODULE UploadSession ----------------------------
(***************************************************************************)
(* Upload tasks of one user and the folder they are saved to: parts that   *)
(* arrive one by one, the finish that renames the merged file and then     *)
(* commits, deletions with their garbage ledger, and the sweep that cleans *)
(* up and recovers after a crash.                                          *)
(*                                                                         *)
(* Rows change at a commit and files at once, so a crash undoes only the   *)
(* former.  Every change of the folder owns the storage lock until its     *)
(* commit: operations that commit at their end are one action, and finish, *)
(* whose files are visible to a crash before the commit, is one per part.  *)
(* A request of finish that finds the task saved answers and changes       *)
(* nothing.  The names of the folder are 1..MaxName: the wanted one, then  *)
(* its numbered variants.                                                  *)
(***************************************************************************)
EXTENDS Integers, FiniteSets

CONSTANTS
    Task,        \* rows of upload_tasks, all for the same file name
    Outside,     \* a file somebody with access to the disk put there
    Bytes,       \* the content of each task's file and of Outside
    Parts,       \* parts of an upload
    Capacity,    \* files the quota has room for
    None,        \* no file, no name, no task
    MaxName,     \* bound: names of the folder
    MaxOutside,  \* bound: files placed from outside
    MaxCrashes,  \* bound: crashes of the server
    MaxLost      \* bound: commits whose answer is lost

ASSUME BytesAssumption ==
    /\ DOMAIN Bytes = Task \cup {Outside}
    /\ None \notin Task \cup {Outside} \cup Nat /\ Outside \notin Task

ASSUME UploadBounds ==
    /\ Parts \in Nat \ {0} /\ MaxName \in Nat \ {0} /\ Capacity \in Nat
    /\ MaxOutside \in Nat /\ MaxCrashes \in Nat /\ MaxLost \in Nat

Name == 1..MaxName

VARIABLES
    task,      \* committed rows; live = expires_at is in the future
    rows,      \* names with a row in storage_entries
    garbage,   \* names with a row in file_garbage
    file,      \* who wrote the file of each name
    stored,    \* part files of each task's folder
    receipt,   \* receipt.json of each task's folder: a name
    old,       \* the folder of the task was last touched 48 hours ago
    row,       \* what the holder of the task's row lock is doing
    finisher,  \* the finish that owns the storage lock
    doomed,    \* folders a cancel, finish or sweep still removes
    unknown,   \* folders the sweep took for nobody's
    lost,      \* history: tasks whose commit was reported as a failure
    placed,    \* files placed from outside so far
    crashes    \* crashes so far

vars == <<task, rows, garbage, file, stored, receipt, old, row, finisher, doomed,
          unknown, lost, placed, crashes>>

disk == <<file, stored, receipt, old>>

Ended == {"complete", "skipped", "cancelled", "expired"}

Unlocked == finisher.phase = "none"

\* upload-parts/<task-id> holds something.
HasFolder(t) == stored[t] # {} \/ receipt[t] # None

Nobody == [task |-> None, phase |-> "none", name |-> None]

-----------------------------------------------------------------------------
(* Initial state *)

Init ==
    /\ task = [t \in Task |-> [status |-> "none", keep |-> FALSE, parts |-> 0,
                               live |-> FALSE, entry |-> None]]
    /\ rows = {} /\ garbage = {}
    /\ file = [k \in Name |-> None]
    /\ stored = [t \in Task |-> {}]
    /\ receipt = [t \in Task |-> None]
    /\ old = [t \in Task |-> FALSE]
    /\ row = [t \in Task |-> "free"]
    /\ finisher = Nobody
    /\ doomed = {} /\ unknown = {}
    /\ lost = {}
    /\ placed = 0 /\ crashes = 0

-----------------------------------------------------------------------------
(* Tasks and their parts: create and write_part *)

\* usage and check_quota: entries, garbage and reservations, in files.
Used == Cardinality(rows) + Cardinality(garbage)

Reserved(except) ==
    Cardinality({t \in Task \ except : task[t].status = "active" /\ task[t].live})

Fits(except) == Used + Reserved(except) + 1 <= Capacity

Create(t, keep) ==
    /\ Unlocked /\ task[t].status = "none"
    /\ Fits({})
    /\ task' = [task EXCEPT ![t] = [status |-> "active", keep |-> keep, parts |-> 0,
                                    live |-> TRUE, entry |-> None]]
    /\ UNCHANGED <<rows, garbage, disk, row, finisher, doomed, unknown, lost, placed,
                   crashes>>

Open(t) == task[t].status = "active" /\ task[t].live

\* The row stays locked while the body of the request is streamed to the disk.
BeginPart(t) ==
    /\ row[t] = "free" /\ Open(t) /\ task[t].parts < Parts
    /\ row' = [row EXCEPT ![t] = "writing"]
    /\ old' = [old EXCEPT ![t] = FALSE]
    /\ UNCHANGED <<task, rows, garbage, file, stored, receipt, finisher, doomed,
                   unknown, lost, placed, crashes>>

\* temporary.replace(target), over the file a lost attempt may have left.
StorePart(t) ==
    /\ row[t] = "writing"
    /\ row' = [row EXCEPT ![t] = "stored"]
    /\ stored' = [stored EXCEPT ![t] = @ \cup {task[t].parts + 1}]
    /\ UNCHANGED <<task, rows, garbage, file, receipt, old, finisher, doomed, unknown,
                   lost, placed, crashes>>

CommitPart(t) ==
    /\ row[t] = "stored"
    /\ row' = [row EXCEPT ![t] = "free"]
    /\ task' = [task EXCEPT ![t].parts = task[t].parts + 1, ![t].live = TRUE]
    /\ UNCHANGED <<rows, garbage, disk, finisher, doomed, unknown, lost, placed, crashes>>

\* The body ends early, has another hash, or the commit fails; the end of a read.
FreeRow(t) ==
    /\ row[t] # "free"
    /\ row' = [row EXCEPT ![t] = "free"]
    /\ UNCHANGED <<task, rows, garbage, disk, finisher, doomed, unknown, lost, placed,
                   crashes>>

\* GET reads the task FOR UPDATE; of an ended task nothing waits for the row.
ReadTask(t) ==
    /\ row[t] = "free" /\ task[t].status \in {"active", "review"}
    /\ row' = [row EXCEPT ![t] = "reading"]
    /\ UNCHANGED <<task, rows, garbage, disk, finisher, doomed, unknown, lost, placed,
                   crashes>>

\* 48 hours without a part.  A part renews the folder before the row.
ExpireTask(t) ==
    /\ Open(t)
    /\ task' = [task EXCEPT ![t].live = FALSE]
    /\ UNCHANGED <<rows, garbage, disk, row, finisher, doomed, unknown, lost, placed,
                   crashes>>

AgeFolder(t) ==
    /\ task[t].status \in {"active", "review"} /\ ~Open(t) /\ HasFolder(t)
    /\ row[t] \notin {"writing", "stored"} /\ finisher.task # t /\ ~old[t]
    /\ old' = [old EXCEPT ![t] = TRUE]
    /\ UNCHANGED <<task, rows, garbage, file, stored, receipt, row, finisher, doomed,
                   unknown, lost, placed, crashes>>

-----------------------------------------------------------------------------
(* finish *)

FreeNames == {k \in Name : file[k] = None}

\* available_name
Available == CHOOSE k \in FreeNames : \A l \in FreeNames : k <= l

\* The parts are merged and the receipt names the place the file will take.
BeginFinish(t) ==
    /\ Unlocked /\ row[t] = "free"
    /\ Open(t) /\ task[t].parts = Parts /\ 1..Parts \subseteq stored[t]
    /\ task[t].keep => FreeNames # {}
    /\ finisher' = [task |-> t, phase |-> "merged", name |-> None]
    /\ row' = [row EXCEPT ![t] = "finishing"]
    /\ receipt' = [receipt EXCEPT ![t] = IF task[t].keep THEN Available ELSE 1]
    /\ old' = [old EXCEPT ![t] = FALSE]
    /\ UNCHANGED <<task, rows, garbage, file, stored, doomed, unknown, lost, placed,
                   crashes>>

\* commit_upload: the rename.
Publish ==
    /\ finisher.phase = "merged"
    /\ IF file[1] # None /\ ~task[finisher.task].keep
       THEN /\ finisher' = [finisher EXCEPT !.phase = "skipped"]
            /\ UNCHANGED file
       ELSE /\ Fits({finisher.task}) /\ FreeNames # {}
            /\ finisher' = [finisher EXCEPT !.phase = "published", !.name = Available]
            /\ file' = [file EXCEPT ![Available] = finisher.task]
    /\ UNCHANGED <<task, rows, garbage, stored, receipt, old, row, doomed, unknown, lost,
                   placed, crashes>>

ReleaseLocks ==
    /\ finisher' = Nobody
    /\ row' = [row EXCEPT ![finisher.task] = "free"]

\* The task row when finish commits.
Saved(t) ==
    [task EXCEPT ![t] = [@ EXCEPT
        !.status = IF finisher.phase = "published" THEN "complete" ELSE "skipped",
        !.entry = finisher.name, !.live = TRUE]]

CommitFinish ==
    /\ finisher.phase \in {"published", "skipped"}
    /\ task' = Saved(finisher.task)
    /\ rows' = rows \cup ({finisher.name} \ {None})
    /\ doomed' = doomed \cup {finisher.task}
    /\ ReleaseLocks
    /\ UNCHANGED <<garbage, disk, unknown, lost, placed, crashes>>

\* Mutant: the exception path forgets the published file.
LeftInPlace == file

\* The exception path: the file leaves its place and is removed with merged.
MovedBack == [k \in Name |-> IF k = finisher.name THEN None ELSE file[k]]

\* Something before the commit raises, the commit included.
FailFinish ==
    /\ ~Unlocked
    /\ file' = MovedBack
    /\ ReleaseLocks
    /\ UNCHANGED <<task, rows, garbage, stored, receipt, old, doomed, unknown, lost,
                   placed, crashes>>

\* PostgreSQL commits and the connection is lost before it says so.
LoseCommit ==
    /\ finisher.phase \in {"published", "skipped"} /\ Cardinality(lost) < MaxLost
    /\ task' = Saved(finisher.task)
    /\ rows' = rows \cup ({finisher.name} \ {None})
    /\ lost' = lost \cup {finisher.task}
    /\ file' = MovedBack
    /\ ReleaseLocks
    /\ UNCHANGED <<garbage, stored, receipt, old, doomed, unknown, placed, crashes>>

Cancel(t) ==
    /\ Unlocked /\ row[t] = "free"
    /\ task[t].status \notin {"none", "cancelled"} /\ task[t].entry = None
    /\ task' = [task EXCEPT ![t].status = "cancelled"]
    /\ doomed' = doomed \cup (IF HasFolder(t) THEN {t} ELSE {})
    /\ UNCHANGED <<rows, garbage, disk, row, finisher, unknown, lost, placed, crashes>>

-----------------------------------------------------------------------------
(* Maintenance *)

\* recover_receipt: the file the receipt names has the bytes of the receipt.
Recoverable(t) == receipt[t] # None /\ file[receipt[t]] # None /\ Bytes[file[receipt[t]]] = Bytes[t]

\* The file is another one: both are kept for review.
Disputed(t) == receipt[t] # None /\ file[receipt[t]] # None /\ Bytes[file[receipt[t]]] # Bytes[t]

\* The tasks whose row the sweep could lock (FOR UPDATE SKIP LOCKED).
Known == {t \in Task : task[t].status # "none" /\ row[t] = "free"}

Of(status) == {t \in Known : task[t].status = status}

Swept(t) ==
    IF t \notin Of("active") THEN task[t]
    ELSE IF Recoverable(t)
         THEN [task[t] EXCEPT !.status = "complete", !.entry = receipt[t], !.live = TRUE]
    ELSE IF Disputed(t) THEN [task[t] EXCEPT !.status = "review"]
    ELSE IF ~task[t].live THEN [task[t] EXCEPT !.status = "expired"]
    ELSE task[t]

Sweep ==
    /\ Unlocked
    /\ task' = [t \in Task |-> Swept(t)]
    /\ rows' = rows \cup {receipt[t] : t \in {s \in Of("active") : Recoverable(s) \/ Disputed(s)}}
    /\ doomed' = doomed \cup {t \in Known : HasFolder(t) /\ Swept(t).status \in Ended}
    /\ unknown' = {t \in Task \ Known : HasFolder(t)}
    /\ UNCHANGED <<garbage, disk, row, finisher, lost, placed, crashes>>

EmptyFolder(t) ==
    /\ stored' = [stored EXCEPT ![t] = {}]
    /\ receipt' = [receipt EXCEPT ![t] = None]
    /\ old' = [old EXCEPT ![t] = FALSE]
    /\ UNCHANGED <<task, rows, garbage, file, row, finisher, lost, placed, crashes>>

\* rmtree after the commit, without a lock: a crash may come first.
RemoveFolder(t) ==
    /\ t \in doomed
    /\ doomed' = doomed \ {t}
    /\ EmptyFolder(t) /\ UNCHANGED unknown

\* Mutant: a folder nobody seems to own goes whatever its age.
AbandonedAtOnce(t) == t \in unknown

\* A folder that seems to be nobody's goes once it is 48 hours old.
Abandoned(t) == t \in unknown /\ old[t]

RemoveUnknown(t) ==
    /\ Abandoned(t)
    /\ unknown' = unknown \ {t}
    /\ EmptyFolder(t) /\ UNCHANGED doomed

\* Listing a folder and reconcile register what they find on the disk.
Register(k) ==
    /\ Unlocked /\ file[k] # None /\ k \notin rows
    /\ rows' = rows \cup {k}
    /\ UNCHANGED <<task, garbage, disk, row, finisher, doomed, unknown, lost, placed,
                   crashes>>

PlaceOutside(k) ==
    /\ file[k] = None /\ placed < MaxOutside
    /\ file' = [file EXCEPT ![k] = Outside]
    /\ placed' = placed + 1
    /\ UNCHANGED <<task, rows, garbage, stored, receipt, old, row, finisher, doomed,
                   unknown, lost, crashes>>

\* delete_entry in a personal space: the ledger is committed before the unlink.
\* The foreign key of the task is ON DELETE SET NULL.  Two ledger rows of one path
\* count once here.
DeleteEntry(k) ==
    /\ Unlocked /\ k \in rows /\ file[k] # None
    /\ rows' = rows \ {k}
    /\ garbage' = garbage \cup {k}
    /\ task' = [t \in Task |-> IF task[t].entry = k THEN [task[t] EXCEPT !.entry = None]
                               ELSE task[t]]
    /\ UNCHANGED <<disk, row, finisher, doomed, unknown, lost, placed, crashes>>

Without(names) == [k \in Name |-> IF k \in names THEN None ELSE file[k]]

\* drain_garbage leaves alone what a row of storage_entries names.
Dead == garbage \ rows

\* Files that cannot be unlinked stay in the ledger for the next round.
Drain(failed) ==
    /\ Unlocked /\ garbage # {}
    /\ failed \subseteq {k \in Dead : file[k] # None}
    /\ file' = Without(Dead \ failed)
    /\ garbage' = failed
    /\ UNCHANGED <<task, rows, stored, receipt, old, row, finisher, doomed, unknown,
                   lost, placed, crashes>>

\* The server dies: transactions roll back, files stay as they are.  A drain may
\* have unlinked some of its files.
Crash(gone) ==
    /\ crashes < MaxCrashes
    /\ gone \subseteq (IF Unlocked THEN Dead ELSE {})
    /\ file' = Without(gone)
    /\ row' = [t \in Task |-> "free"]
    /\ finisher' = Nobody
    /\ doomed' = {} /\ unknown' = {}
    /\ crashes' = crashes + 1
    /\ UNCHANGED <<task, rows, garbage, stored, receipt, old, lost, placed>>

-----------------------------------------------------------------------------
(* Specification *)

TaskNext ==
    \E t \in Task :
        \/ \E keep \in BOOLEAN : Create(t, keep)
        \/ BeginPart(t) \/ StorePart(t) \/ CommitPart(t)
        \/ (row[t] # "finishing" /\ FreeRow(t))
        \/ ReadTask(t) \/ ExpireTask(t) \/ AgeFolder(t)
        \/ BeginFinish(t) \/ Cancel(t)

FolderNext ==
    \/ \E t \in Task : RemoveFolder(t) \/ RemoveUnknown(t)
    \/ \E k \in Name : Register(k) \/ PlaceOutside(k) \/ DeleteEntry(k)
    \/ \E failed \in SUBSET Name : Drain(failed)
    \/ \E gone \in SUBSET Name : Crash(gone)

Next == TaskNext \/ Publish \/ CommitFinish \/ FailFinish \/ LoseCommit \/ Sweep \/ FolderNext

Spec == Init /\ [][Next]_vars

-----------------------------------------------------------------------------
(* Properties *)

\* The variables keep the shapes of the rows, the folder and the transactions.
TypeOK ==
    /\ task \in [Task -> [status : {"none", "active", "review"} \cup Ended,
                          keep : BOOLEAN, parts : 0..Parts, live : BOOLEAN,
                          entry : Name \cup {None}]]
    /\ rows \subseteq Name /\ garbage \subseteq Name
    /\ file \in [Name -> Task \cup {Outside, None}]
    /\ stored \in [Task -> SUBSET (1..Parts)]
    /\ receipt \in [Task -> Name \cup {None}]
    /\ old \in [Task -> BOOLEAN]
    /\ row \in [Task -> {"free", "writing", "stored", "reading", "finishing"}]
    /\ finisher \in [task : Task \cup {None}, name : Name \cup {None},
                     phase : {"none", "merged", "published", "skipped"}]
    /\ doomed \subseteq Task /\ unknown \subseteq Task /\ lost \subseteq Task
    /\ placed \in Nat /\ crashes \in Nat

\* finish: "Parts remain available for resume."  An upload that may still be
\* resumed has every part it recorded, whatever finishes failed, crashes and
\* sweeps (also those that took its folder for nobody's) came in between.
PartsKept == \A t \in Task : Open(t) => 1..task[t].parts \subseteq stored[t]

\* A saved upload has its bytes where its row says: recovery never attributes
\* another file to it and no drain of older garbage removes it.
SavedHasBytes ==
    \A t \in Task : task[t].status = "complete" /\ task[t].entry # None /\ t \notin lost =>
        /\ task[t].entry \in rows
        /\ file[task[t].entry] # None /\ Bytes[file[task[t].entry]] = Bytes[t]

\* The completion is idempotent: only a crash between the rename and the commit
\* can make a repeated completion leave a second copy.
OneCopyPerCrash ==
    \A t \in Task : Cardinality({k \in Name : file[k] = t}) <= 1 + crashes

\* The docs: a failed deletion stays in the ledger and its capacity is only
\* released once the file is gone.
LedgerUntilGone ==
    [][\A k \in Name : k \in garbage /\ k \notin garbage' => file'[k] = None]_vars
=============================================================================
