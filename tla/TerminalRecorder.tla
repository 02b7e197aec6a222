-------------------------- MODULE TerminalRecorder --------------------------
(***************************************************************************)
(* One recording of a terminal: output that waits in memory, the cache     *)
(* record that survives the tab, the numbered log files, and the two ways  *)
(* to recover what a failure or a crash left behind.                       *)
(*                                                                         *)
(* Output is 1, 2, 3...; a file is a sequence of it and a commit of a file *)
(* is atomic (the browser swaps the file at close).  Promises on this.job  *)
(* run one after the other: jobs is that chain, stage where its head is.   *)
(* The callbacks between two awaits are one action; a put takes its value  *)
(* when it is called and is part of the action that calls it.              *)
(*                                                                         *)
(* A folder is picked in a dialog, which takes longer than the timer.      *)
(***************************************************************************)
EXTENDS Integers, Sequences, FiniteSets, FiniteSetsExt, SequencesExt

CONSTANTS
    QueueLimit,    \* output that may wait in memory
    RotateAt,      \* size at which a new log file is begun
    None,          \* no record in the cache
    MaxOutput,     \* bound: output of the device
    MaxRecoveries  \* bound: recovery files

RecorderBounds ==
    /\ QueueLimit \in Nat \ {0} /\ RotateAt \in Nat \ {0}
    /\ MaxOutput \in Nat /\ MaxRecoveries \in Nat
    /\ None \notin [part : Nat, offset : Nat, pending : Seq(Nat)]

VARIABLES
    received,     \* output accepted so far
    status,       \* state.status; "dead" once the tab is gone
    accepting,    \* append keeps output
    timer,        \* the timer of the next save is armed
    jobs,         \* the chain of this.job
    stage,        \* what the head of the chain does next
    rec,          \* this.record
    buffer,       \* output not yet in rec.pending
    cache,        \* the record in IndexedDB
    part,         \* content of the numbered log files
    exists,       \* numbered log files that exist
    recovered,    \* content of the recovery files beside them
    elsewhere,    \* output recovered to another directory
    recovery,     \* the recovery that runs
    interrupted   \* history: recoveries that ended after their file and before the cache

memory == <<received, accepting, timer, jobs, stage, rec, buffer>>
files == <<part, exists, recovered, elsewhere>>

vars == <<memory, status, cache, files, recovery, interrupted>>

\* A checkpoint rotates at most once for each write.
Part == 1..MaxOutput + 1

Idle == [by |-> "nobody", stage |-> "none", beside |-> FALSE]

Fresh == [part |-> 1, offset |-> 0, pending |-> <<>>]

Init ==
    /\ received = 0
    /\ status = "idle" /\ accepting = FALSE /\ timer = FALSE
    /\ jobs = <<>> /\ stage = "wait"
    /\ rec = Fresh /\ buffer = <<>>
    /\ cache = None
    /\ part = [p \in Part |-> <<>>] /\ exists = {}
    /\ recovered = <<>> /\ elsewhere = {}
    /\ recovery = Idle
    /\ interrupted = 0

\* start: output is only accepted once the cache has proved to work.
Start ==
    /\ status = "idle"
    /\ status' = "recording" /\ accepting' = TRUE /\ timer' = TRUE
    /\ cache' = rec
    /\ UNCHANGED <<received, jobs, stage, rec, buffer, files, recovery, interrupted>>

Receive ==
    /\ accepting /\ received < MaxOutput
    /\ received' = received + 1
    /\ buffer' = Append(buffer, received + 1)
    /\ IF Len(buffer) + 1 > QueueLimit
       THEN accepting' = FALSE /\ status' = "error"
       ELSE UNCHANGED <<accepting, status>>
    /\ UNCHANGED <<timer, jobs, stage, rec, cache, files, recovery, interrupted>>

TimerFires ==
    /\ timer
    /\ timer' = FALSE
    /\ jobs' = Append(jobs, "save")
    /\ UNCHANGED <<received, status, accepting, stage, rec, buffer, cache, files, recovery,
                   interrupted>>

\* The user stops, or the device is disconnected by hand.
Stop ==
    /\ status = "recording"
    /\ status' = "saving" /\ accepting' = FALSE /\ timer' = FALSE
    /\ jobs' = Append(jobs, "stop")
    /\ UNCHANGED <<received, stage, rec, buffer, cache, files, recovery, interrupted>>

-----------------------------------------------------------------------------
(* checkpoint *)

\* Mutant: what waits behind the batch is left out.
BatchOnly(r, b) == r

\* persist: what is not in the file yet, as one text.
Cached(r, b) == [r EXCEPT !.pending = r.pending \o b]

Rotated(r) ==
    IF r.offset # 0 /\ r.offset + Len(r.pending) > RotateAt
    THEN [r EXCEPT !.part = r.part + 1, !.offset = 0]
    ELSE r

Batch(disk) ==
    IF disk THEN Rotated([rec EXCEPT !.pending = rec.pending \o buffer]) ELSE rec

\* Mutant: the timer is armed again although the recording stops.
SavedAndArmed ==
    IF Head(jobs) = "save"
    THEN jobs' = Tail(jobs) /\ stage' = "wait" /\ timer' = TRUE
    ELSE stage' = "remove" /\ UNCHANGED <<jobs, timer>>

\* The end of a save arms the next timer; the end of a stop's save goes on.
Saved ==
    IF Head(jobs) = "save"
    THEN jobs' = Tail(jobs) /\ stage' = "wait" /\ timer' = accepting
    ELSE stage' = "remove" /\ UNCHANGED <<jobs, timer>>

\* catch: fail stops the recording before it writes the cache.
Fail ==
    /\ status' = "error" /\ accepting' = FALSE /\ timer' = FALSE
    /\ stage' = "fail"
    /\ UNCHANGED jobs

Checkpoint(disk, ok) ==
    /\ jobs # <<>> /\ stage = "wait" /\ (Head(jobs) = "stop" => disk)
    /\ rec' = Batch(disk)
    /\ buffer' = IF disk THEN <<>> ELSE buffer
    /\ IF ~ok THEN Fail /\ UNCHANGED cache
       ELSE /\ cache' = Cached(rec', buffer')
            /\ IF disk /\ rec'.pending # <<>>
               THEN stage' = "write" /\ UNCHANGED <<jobs, timer>>
               ELSE Saved
            /\ UNCHANGED <<status, accepting>>
    /\ UNCHANGED <<received, files, recovery, interrupted>>

\* Mutant: the batch replaces what the file already holds.
WrittenAtStart(s, offset, text) == text

\* seek and write in a stream that keeps the existing data.
Written(s, offset, text) ==
    SubSeq(s, 1, offset) \o text \o SubSeq(s, offset + Len(text) + 1, Len(s))

\* Mutant: the batch stays pending.
ProgressedOnly(r) == [r EXCEPT !.offset = r.offset + Len(r.pending)]

Progressed(r) == [r EXCEPT !.offset = r.offset + Len(r.pending), !.pending = <<>>]

\* writePending.  A file of this name that is there already is nobody's to write.
WritePending ==
    /\ stage = "write" /\ (rec.offset = 0 => rec.part \notin exists)
    /\ part' = [part EXCEPT ![rec.part] = Written(@, rec.offset, rec.pending)]
    /\ exists' = exists \cup {rec.part}
    /\ rec' = Progressed(rec)
    /\ stage' = "persist"
    /\ UNCHANGED <<received, status, accepting, timer, jobs, buffer, cache, recovered,
                   elsewhere, recovery, interrupted>>

\* The disk is full or the permission gone, perhaps after the file was created.
WriteFails ==
    /\ stage = "write"
    /\ Fail
    /\ exists' \in {exists, exists \cup {rec.part}}
    /\ UNCHANGED <<received, rec, buffer, cache, part, recovered, elsewhere, recovery,
                   interrupted>>

PersistProgress(ok) ==
    /\ stage = "persist"
    /\ IF ok THEN cache' = Cached(rec, buffer) /\ Saved /\ UNCHANGED <<status, accepting>>
       ELSE Fail /\ UNCHANGED cache
    /\ UNCHANGED <<received, rec, buffer, files, recovery, interrupted>>

\* The rest of stop.
RemoveRecord(ok) ==
    /\ stage = "remove"
    /\ IF ok THEN /\ cache' = None /\ status' = "stopped"
                  /\ jobs' = Tail(jobs) /\ stage' = "wait"
                  /\ UNCHANGED <<accepting, timer>>
       ELSE Fail /\ UNCHANGED cache
    /\ UNCHANGED <<received, rec, buffer, files, recovery, interrupted>>

\* The rest of fail: a last attempt to keep everything in the cache.
EndFail(ok) ==
    /\ stage = "fail"
    /\ cache' = IF ok THEN Cached(rec, buffer) ELSE cache
    /\ jobs' = Tail(jobs) /\ stage' = "wait"
    /\ UNCHANGED <<received, status, accepting, timer, rec, buffer, files, recovery,
                   interrupted>>

-----------------------------------------------------------------------------
(* Recovery *)

\* What the original file already holds of the record's text.
Committed(r, beside) ==
    LET end == Min({Len(part[r.part]), r.offset + Len(r.pending)})
        there == SubSeq(part[r.part], r.offset + 1, end)
    IN IF beside /\ there = SubSeq(r.pending, 1, Len(there)) THEN Len(there) ELSE 0

\* writeRecovery of the record r, beside the original files or elsewhere.
WriteRecovery(r, beside) ==
    LET rest == SubSeq(r.pending, Committed(r, beside) + 1, Len(r.pending))
    IN /\ recovered' = recovered \o (IF beside /\ rest # <<>> THEN <<rest>> ELSE <<>>)
       /\ elsewhere' = IF beside THEN elsewhere ELSE elsewhere \cup ToSet(rest)
       /\ Len(recovered') <= MaxRecoveries
       /\ recovery' = [recovery EXCEPT !.stage = "written", !.beside = beside]
       /\ UNCHANGED <<memory, status, cache, part, exists, interrupted>>

\* savePendingTo waits for the chain, then takes what memory holds.
BeginSavePending ==
    /\ status = "error" /\ ~timer /\ recovery = Idle
    /\ recovery' = [Idle EXCEPT !.by = "recorder", !.stage = "begun"]
    /\ UNCHANGED <<memory, status, cache, files, interrupted>>

SavePending(beside) ==
    /\ recovery.by = "recorder" /\ recovery.stage = "begun" /\ jobs = <<>>
    /\ WriteRecovery(Cached(rec, buffer), beside)

\* recoverCachedRecording takes the lease, which a live recorder keeps, and reads
\* the record again.
BeginRecoverCached ==
    /\ status \in {"dead", "stopped"} /\ recovery = Idle
    /\ cache # None /\ cache.pending # <<>>
    /\ recovery' = [Idle EXCEPT !.by = "menu", !.stage = "begun"]
    /\ UNCHANGED <<memory, status, cache, files, interrupted>>

RecoverCached(beside) ==
    /\ recovery.by = "menu" /\ recovery.stage = "begun"
    /\ WriteRecovery(cache, beside)

FinishRecovery ==
    /\ recovery.stage = "written"
    /\ cache' = None
    /\ recovery' = Idle
    /\ IF recovery.by = "recorder"
       THEN status' = "stopped" /\ rec' = [rec EXCEPT !.pending = <<>>] /\ buffer' = <<>>
       ELSE UNCHANGED <<status, rec, buffer>>
    /\ UNCHANGED <<received, accepting, timer, jobs, stage, files, interrupted>>

\* The recovery's tab dies, or a write or the removal from the cache fails.
AbandonRecovery ==
    /\ recovery # Idle
    /\ recovery' = Idle
    /\ interrupted' = interrupted + (IF recovery.stage = "written" THEN 1 ELSE 0)
    /\ interrupted' <= MaxRecoveries
    /\ UNCHANGED <<memory, status, cache, files>>

\* The tab dies with everything in memory.
Crash ==
    /\ status \notin {"idle", "dead"}
    /\ status' = "dead" /\ accepting' = FALSE /\ timer' = FALSE
    /\ jobs' = <<>> /\ stage' = "wait"
    /\ rec' = Fresh /\ buffer' = <<>>
    /\ recovery' = IF recovery.by = "recorder" THEN Idle ELSE recovery
    /\ interrupted' = interrupted
         + (IF recovery.by = "recorder" /\ recovery.stage = "written" THEN 1 ELSE 0)
    /\ UNCHANGED <<received, cache, files>>

-----------------------------------------------------------------------------
(* Specification *)

JobStep ==
    \/ \E disk, ok \in BOOLEAN : Checkpoint(disk, ok)
    \/ WritePending \/ WriteFails
    \/ \E ok \in BOOLEAN : PersistProgress(ok) \/ RemoveRecord(ok) \/ EndFail(ok)

RecoveryStep ==
    \/ BeginSavePending \/ BeginRecoverCached
    \/ \E beside \in BOOLEAN : SavePending(beside) \/ RecoverCached(beside)
    \/ FinishRecovery \/ AbandonRecovery

Next == Start \/ Receive \/ TimerFires \/ Stop \/ JobStep \/ RecoveryStep \/ Crash

\* Promises settle and timers fire while the tab lives, and the clock moves on: a
\* save finds its two seconds over again and again.
Fairness ==
    /\ WF_vars(TimerFires) /\ WF_vars(JobStep)
    /\ SF_vars(\E ok \in BOOLEAN : Checkpoint(TRUE, ok))

Spec == Init /\ [][Next]_vars /\ Fairness

-----------------------------------------------------------------------------
(* Properties *)

Text == Seq(1..MaxOutput)

Record == [part : Part, offset : 0..MaxOutput, pending : Text]

\* The variables keep the shapes of the recorder, the cache and the files.
TypeOK ==
    /\ received \in 0..MaxOutput
    /\ status \in {"idle", "recording", "saving", "error", "stopped", "dead"}
    /\ accepting \in BOOLEAN /\ timer \in BOOLEAN
    /\ jobs \in {<<>>, <<"save">>, <<"stop">>, <<"save", "stop">>}
    /\ stage \in {"wait", "write", "persist", "remove", "fail"}
    /\ rec \in Record /\ buffer \in Text
    /\ cache \in Record \cup {None}
    /\ part \in [Part -> Text] /\ exists \subseteq Part
    /\ recovered \in Seq(Text) /\ elsewhere \subseteq 1..MaxOutput
    /\ recovery \in [by : {"nobody", "recorder", "menu"}, beside : BOOLEAN,
                     stage : {"none", "begun", "written"}]
    /\ interrupted \in 0..MaxRecoveries + 1

InParts == UNION {ToSet(part[p]) : p \in Part}

InFiles == InParts \cup elsewhere \cup UNION {ToSet(t) : t \in ToSet(recovered)}

\* What outlives the tab.
Durable == InFiles \cup (IF cache = None THEN {} ELSE ToSet(cache.pending))

\* Output that was once cached or in a file is never lost again: not when a file
\* is rotated or rewritten after a failure, when the cache is updated behind the
\* file, when a recovery ends, or when the tab dies anywhere in between.
NeverForgotten == [][Durable \subseteq Durable']_vars

Copies(c) ==
    Cardinality({p \in Part : Contains(part[p], c)})
    + Cardinality({i \in DOMAIN recovered : Contains(recovered[i], c)})

\* A recovery into the original folder compares what was committed: only one that
\* is interrupted before it removes the cache record leaves output twice.
NoDuplicates == \A c \in 1..received : Copies(c) <= 1 + interrupted

\* The log files, one after the other, are the beginning of the output: nothing is
\* out of order or repeated in them, nor missing, whatever was retried.
PartsArePrefix ==
    /\ \A p, q \in Part : \A i \in DOMAIN part[p], j \in DOMAIN part[q] :
           p < q \/ (p = q /\ i < j) => part[p][i] < part[q][j]
    /\ \A c \in InParts : 1..c \subseteq InParts

\* "Stopped and saved": nothing accepted is in memory or in the cache only.
StoppedIsSaved == status = "stopped" => 1..received \subseteq InFiles /\ cache = None

\* A stop ends, saved or with an error to recover from.
StopEnds == status = "saving" ~> status \in {"stopped", "error", "dead"}

\* While nothing fails, all output reaches a file without a stop once the device
\* pauses; the bound on the output makes it pause.
OutputReachesFile == []<>(1..received \subseteq InFiles \/ status \in {"error", "dead"})
=============================================================================
