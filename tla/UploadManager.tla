---------------------------- MODULE UploadManager ----------------------------
(***************************************************************************)
(* The upload queue of the browser (upload-manager.ts) against the upload  *)
(* tasks of the server: one pump, one job at a time, with pause, resume,   *)
(* cancel, dismissal, a change of the signed-in user, requests that fail   *)
(* although the server handles them, and tasks that expire.                *)
(*                                                                         *)
(* A request with an effect stays in net until the server handles it or it *)
(* is lost; one the client has given up may still be handled.  A read is   *)
(* answered from the server's state at that moment.                        *)
(***************************************************************************)
EXTENDS Naturals

CONSTANTS
    Job,           \* uploads of one user to a personal space
    Nobody,        \* no job
    Parts,         \* parts of a file
    MaxAttempts,   \* attempts of a part, 3 in the code
    MaxBreaks,     \* bound: requests that fail at the client
    MaxExpiries,   \* bound: tasks that expire
    MaxSessions    \* bound: changes of the signed-in user

ManagerAssumption ==
    /\ Nobody \notin Job /\ Parts \in Nat \ {0} /\ MaxAttempts \in Nat \ {0}
    /\ MaxBreaks \in Nat /\ MaxExpiries \in Nat /\ MaxSessions \in Nat

VARIABLES
    jobs,      \* per job: phase, known (id of job.server, 0 none), file (held in runtime),
               \* request (requestId, 0 none), deleting (ids whose DELETE cancel awaits)
    run,       \* perform(): job, pc, known (job.server when it began), id and parts of its
               \* task, attempt, aborted (its signal), stale (another epoch)
    net,       \* requests on their way: kind, job, id, part
    task,      \* the server: per job and upload id, status and parts
    restoring, \* bind() awaits the list of tasks
    files,     \* history: files saved per job
    gap,       \* history: a create or a DELETE of this job failed at the client
    breaks, expiries, sessions

uploadVars == <<jobs, run, net, task, restoring, files, gap, breaks, expiries, sessions>>

uploadBounds == <<breaks, expiries, sessions>>

Ids == 1 .. 2

Performing(j) == run.pc # "idle" /\ run.job = j

IdleRun == [job |-> Nobody, pc |-> "idle", known |-> 0, id |-> 0, parts |-> 0,
            attempt |-> 0, aborted |-> FALSE, stale |-> FALSE]

Unlisted == [phase |-> "gone", known |-> 0, file |-> FALSE, request |-> 0,
             deleting |-> {}]

Init ==
    /\ jobs = [j \in Job |-> [Unlisted EXCEPT !.phase = "new"]]
    /\ run = IdleRun /\ net = {}
    /\ task = [j \in Job |-> [i \in Ids |-> [status |-> "none", parts |-> 0]]]
    /\ restoring = FALSE
    /\ files = [j \in Job |-> 0] /\ gap = [j \in Job |-> FALSE]
    /\ breaks = 0 /\ expiries = 0 /\ sessions = 0

Listed(j) == jobs[j].phase \notin {"new", "gone"}

\* Out of the list and of runtime; a DELETE that was sent is still awaited.
Dropped(j) == [Unlisted EXCEPT !.deleting = jobs[j].deleting]

\* update(key, patch): a job that is not in the list is left alone.
Phase(j, phase) == [jobs EXCEPT ![j].phase = IF Listed(j) THEN phase ELSE jobs[j].phase]

-----------------------------------------------------------------------------
(* the server, upload_service.py *)

Request(kind, j, id, part) == [kind |-> kind, job |-> j, id |-> id, part |-> part]

\* create returns the task of a repeated upload id, write_part takes the next part or
\* refuses, finish is idempotent, cancel refuses a saved file.
Served(r) ==
    LET t == task[r.job][r.id]
        u == CASE r.kind = "create" /\ t.status = "none" -> [status |-> "active", parts |-> 0]
               [] r.kind = "part" /\ t.status = "active" /\ r.part = t.parts + 1 ->
                      [t EXCEPT !.parts = r.part]
               [] r.kind = "complete" /\ t.status = "active" /\ t.parts = Parts ->
                      [t EXCEPT !.status = "complete"]
               [] r.kind = "delete" /\ t.status \in {"active", "expired"} ->
                      [t EXCEPT !.status = "cancelled"]
               [] OTHER -> t
    IN /\ task' = [task EXCEPT ![r.job][r.id] = u]
       /\ files' = IF u.status = "complete" /\ t.status # "complete"
                   THEN [files EXCEPT ![r.job] = files[r.job] + 1] ELSE files

\* The request perform() waits for, if it waits for one with an effect.
Awaited == Request(run.pc, run.job, run.id, IF run.pc = "part" THEN run.parts + 1 ELSE 0)

Waits(r) ==
    \/ r = Awaited /\ ~(run.aborted /\ run.pc \in {"part", "complete"})
    \/ r.kind = "delete" /\ r.id \in jobs[r.job].deleting
    \/ r.kind = "delete" /\ run.pc = "undo" /\ run.job = r.job

\* A request nobody waits for any more reaches the server, or is lost.
ServeLate(r) ==
    /\ ~Waits(r) /\ net' = net \ {r}
    /\ \/ Served(r)
       \/ UNCHANGED <<task, files>>
    /\ UNCHANGED <<jobs, run, restoring, gap, uploadBounds>>

Expire(j, id) ==
    /\ expiries < MaxExpiries /\ ~Performing(j) /\ task[j][id].status = "active"
    /\ expiries' = expiries + 1
    /\ task' = [task EXCEPT ![j][id].status = "expired"]
    /\ UNCHANGED <<jobs, run, net, restoring, files, gap, breaks, sessions>>

-----------------------------------------------------------------------------
(* what the user does *)

Enqueue(j) ==
    /\ jobs[j].phase = "new"
    /\ jobs' = [jobs EXCEPT ![j].phase = "queued", ![j].file = TRUE]
    /\ UNCHANGED <<run, net, task, restoring, files, gap, uploadBounds>>

\* item.abort?.abort()
AbortRun(j) == run' = IF Performing(j) THEN [run EXCEPT !.aborted = TRUE] ELSE run

Pause(j) ==
    /\ jobs[j].phase \in {"queued", "hashing", "uploading"}
    /\ jobs' = [jobs EXCEPT ![j].phase = "paused"] /\ AbortRun(j)
    /\ UNCHANGED <<net, task, restoring, files, gap, uploadBounds>>

\* Mutant of Resume: a restored job is queued though nobody picked its file.
ResumeWithoutFile(j) ==
    /\ jobs[j].phase \in {"paused", "error"}
    /\ jobs' = [jobs EXCEPT ![j].phase = "queued"]
    /\ UNCHANGED <<run, net, task, restoring, files, gap, uploadBounds>>

\* A job restored from the server's list needs its file to be picked again.
Resume(j) ==
    /\ jobs[j].phase \in {"paused", "error"}
    /\ jobs' = [jobs EXCEPT ![j].phase = "queued", ![j].file = TRUE]
    /\ UNCHANGED <<run, net, task, restoring, files, gap, uploadBounds>>

\* cancel aborts, and deletes the task it knows of.
CancelUpload(j) ==
    /\ Listed(j) /\ jobs[j].phase \notin {"complete", "cancelled"}
    /\ AbortRun(j)
    /\ LET known == {i \in Ids : i = jobs[j].known}
       IN /\ jobs' = [jobs EXCEPT ![j].phase = "cancelled", ![j].deleting = @ \cup known]
          /\ net' = net \cup {Request("delete", j, i, 0) : i \in known}
    /\ UNCHANGED <<task, restoring, files, gap, uploadBounds>>

\* The DELETE of cancel is answered, or refused for a saved file.
CancelAnswered(j) ==
    \E r \in net :
        /\ r.kind = "delete" /\ r.job = j /\ r.id \in jobs[j].deleting
        /\ net' = net \ {r} /\ Served(r)
        /\ jobs' = [jobs EXCEPT ![j].deleting = @ \ {r.id},
                                ![j].phase = IF task[j][r.id].status = "complete" /\ Listed(j)
                                             THEN "error" ELSE jobs[j].phase]
        /\ UNCHANGED <<run, restoring, gap, uploadBounds>>

CancelBreaks(j) ==
    /\ breaks < MaxBreaks /\ breaks' = breaks + 1
    /\ \E i \in jobs[j].deleting : jobs' = [Phase(j, "error") EXCEPT ![j].deleting = @ \ {i}]
    /\ gap' = [gap EXCEPT ![j] = TRUE]
    /\ UNCHANGED <<run, net, task, restoring, files, expiries, sessions>>

Dismiss(j) ==
    /\ jobs[j].phase \in {"complete", "cancelled"}
    /\ jobs' = [jobs EXCEPT ![j] = Dropped(j)]
    /\ UNCHANGED <<run, net, task, restoring, files, gap, uploadBounds>>

\* bind to another user and back: the list and its files are dropped, the run belongs to
\* an older epoch.
ChangeUser ==
    /\ sessions < MaxSessions /\ sessions' = sessions + 1
    /\ \E j \in Job : Listed(j)
    /\ jobs' = [j \in Job |-> IF Listed(j) THEN Dropped(j) ELSE jobs[j]]
    /\ run' = IF run.pc = "idle" THEN run ELSE [run EXCEPT !.aborted = TRUE, !.stale = TRUE]
    /\ restoring' = TRUE
    /\ UNCHANGED <<net, task, files, gap, breaks, expiries>>

\* The list of tasks has arrived: what was unfinished is paused and needs its file.
Restored(j) ==
    IF \E i \in Ids : task[j][i].status \in {"active", "complete"}
    THEN LET i == CHOOSE i \in Ids : task[j][i].status \in {"active", "complete"}
         IN [jobs[j] EXCEPT !.known = i,
                            !.phase = IF task[j][i].status = "active" THEN "paused"
                                      ELSE "complete"]
    ELSE jobs[j]

Restore ==
    /\ restoring /\ restoring' = FALSE
    /\ jobs' = [j \in Job |-> IF jobs[j].phase = "gone" THEN Restored(j) ELSE jobs[j]]
    /\ UNCHANGED <<run, net, task, files, gap, uploadBounds>>

-----------------------------------------------------------------------------
(* pump and perform *)

\* pump takes a queued job when the last perform has returned.
Perform(j) ==
    /\ run.pc = "idle" /\ jobs[j].phase = "queued"
    /\ jobs' = Phase(j, "hashing")
    /\ run' = [IdleRun EXCEPT !.job = j, !.pc = "hash", !.known = jobs[j].known]
    /\ UNCHANGED <<net, task, restoring, files, gap, uploadBounds>>

Returns == run' = IdleRun

\* The outer catch: an error is shown unless the job was paused, canceled or dropped.
Fails ==
    /\ Returns
    /\ jobs' = IF run.stale \/ run.aborted
                  \/ jobs[run.job].phase \in {"cancelled", "paused"}
               THEN jobs ELSE Phase(run.job, "error")

\* done()
Finishes ==
    /\ Returns /\ jobs' = [Phase(run.job, "complete") EXCEPT ![run.job].known = run.id]

\* A canceled or paused run stops at the next abortable await.
Unwind ==
    /\ run.aborted /\ run.pc \in {"hash", "fetch", "verify", "part", "check", "complete"}
    /\ Returns
    /\ UNCHANGED <<jobs, net, task, restoring, files, gap, uploadBounds>>

\* requestId: kept while the file is held, a new id for a task that died before.
UploadId ==
    IF jobs[run.job].request # 0 THEN jobs[run.job].request
    ELSE IF run.known # 0 THEN run.known + 1 ELSE 1

\* Past the fingerprint and the policy: read the known task, or create one.
CreateTask ==
    /\ UploadId \in Ids
    /\ jobs' = [jobs EXCEPT ![run.job].request = UploadId]
    /\ run' = [run EXCEPT !.pc = "create", !.id = UploadId]
    /\ net' = net \cup {Request("create", run.job, UploadId, 0)}

Hashed ==
    /\ run.pc = "hash" /\ ~run.aborted
    /\ \/ Fails /\ UNCHANGED net
       \/ run.known # 0 /\ run' = [run EXCEPT !.pc = "fetch"] /\ UNCHANGED <<jobs, net>>
       \/ run.known = 0 /\ CreateTask
    /\ UNCHANGED <<task, restoring, files, gap, uploadBounds>>

\* The next part, or the completion.
Continue(id, parts, requests) ==
    LET pc == IF parts < Parts THEN "part" ELSE "complete"
    IN /\ run' = [run EXCEPT !.pc = pc, !.id = id, !.parts = parts, !.attempt = 0]
       /\ net' = requests \cup {Request(pc, run.job, id, IF parts < Parts THEN parts + 1 ELSE 0)}

Saving == IF run.parts = Parts THEN Phase(run.job, "saving") ELSE jobs

\* Mutant of Arrived: a run that was aborted just returns.
ArrivedUndoingNothing(id, t, s, requests) ==
    IF run.aborted THEN Returns /\ jobs' = s /\ net' = requests
    ELSE IF t.status = "active"
    THEN /\ jobs' = s
         /\ IF t.parts = 0 THEN Continue(id, 0, requests)
            ELSE run' = [run EXCEPT !.pc = "verify", !.id = id, !.parts = t.parts]
                 /\ net' = requests
    ELSE /\ Returns /\ net' = requests
         /\ jobs' = [s EXCEPT ![run.job].phase = IF t.status = "complete" THEN "complete"
                                                 ELSE "error"]

\* A task has been read or created: t as the server answered, s the jobs after update.
Arrived(id, t, s, requests) ==
    IF run.aborted
    THEN IF s[run.job].phase = "cancelled"
         THEN /\ run' = [run EXCEPT !.pc = "undo", !.id = id] /\ jobs' = s
              /\ net' = requests \cup {Request("delete", run.job, id, 0)}
         ELSE Returns /\ jobs' = s /\ net' = requests
    ELSE IF t.status = "active"
    THEN /\ jobs' = s
         /\ IF t.parts = 0 THEN Continue(id, 0, requests)
            ELSE run' = [run EXCEPT !.pc = "verify", !.id = id, !.parts = t.parts]
                 /\ net' = requests
    ELSE /\ Returns /\ net' = requests
         /\ jobs' = [s EXCEPT ![run.job].phase = IF t.status = "complete" THEN "complete"
                                                 ELSE "error"]

\* Mutant of Alive: a task that is complete is created anew.
AliveWhenActive(t) == t.status = "active"

\* The statuses perform goes on with; any other task is created anew.
Alive(t) == t.status \in {"active", "complete"}

Fetched ==
    /\ run.pc = "fetch" /\ ~run.aborted
    /\ LET t == task[run.job][run.known]
       IN \/ Alive(t) /\ Arrived(run.known, t, jobs, net)
          \/ ~Alive(t) /\ CreateTask
          \/ breaks < MaxBreaks /\ Fails /\ UNCHANGED net
    /\ UNCHANGED <<task, restoring, files, gap, uploadBounds>>

\* The task is created; a run of an older epoch leaves it to the list.
Created ==
    /\ run.pc = "create" /\ Awaited \in net /\ Served(Awaited)
    /\ IF run.stale THEN Returns /\ net' = net \ {Awaited} /\ UNCHANGED jobs
       ELSE Arrived(run.id, task'[run.job][run.id],
                    IF Listed(run.job) THEN [jobs EXCEPT ![run.job].known = run.id] ELSE jobs,
                    net \ {Awaited})
    /\ UNCHANGED <<restoring, gap, uploadBounds>>

CreateBreaks ==
    /\ run.pc = "create" /\ breaks < MaxBreaks /\ breaks' = breaks + 1
    /\ Fails /\ gap' = [gap EXCEPT ![run.job] = TRUE]
    /\ UNCHANGED <<net, task, restoring, files, expiries, sessions>>

\* The DELETE after a create that was canceled; perform ignores how it ends.
Undone ==
    /\ run.pc = "undo" /\ Returns
    /\ \/ /\ Request("delete", run.job, run.id, 0) \in net
          /\ Served(Request("delete", run.job, run.id, 0))
          /\ net' = net \ {Request("delete", run.job, run.id, 0)}
          /\ UNCHANGED <<gap, breaks>>
       \/ /\ breaks < MaxBreaks /\ breaks' = breaks + 1
          /\ gap' = [gap EXCEPT ![run.job] = TRUE]
          /\ UNCHANGED <<net, task, files>>
    /\ UNCHANGED <<jobs, restoring, expiries, sessions>>

\* The parts the server has are compared with the file.  A pause during the last of
\* them is only seen by the completion, after the phase has become saving.
Verified ==
    /\ run.pc = "verify"
    /\ \/ run.aborted /\ run.parts = Parts /\ Returns /\ jobs' = Saving /\ UNCHANGED net
       \/ ~run.aborted /\ Fails /\ UNCHANGED net
       \/ ~run.aborted /\ Continue(run.id, run.parts, net) /\ jobs' = Saving
    /\ UNCHANGED <<task, restoring, files, gap, uploadBounds>>

Progress ==
    /\ run.pc = "part" /\ ~run.aborted /\ jobs' = Phase(run.job, "uploading")
    /\ UNCHANGED <<run, net, task, restoring, files, gap, uploadBounds>>

\* sent: the part is on the server; update(server), then the next one or saving.
Sent(requests) ==
    /\ Continue(run.id, run.parts + 1, requests)
    /\ jobs' = IF run.parts + 1 = Parts THEN Phase(run.job, "saving") ELSE jobs

PartAnswered ==
    /\ run.pc = "part" /\ ~run.aborted /\ Awaited \in net /\ Served(Awaited)
    /\ IF task'[run.job][run.id].status = "active" /\ task'[run.job][run.id].parts = run.parts + 1
       THEN Sent(net \ {Awaited})
       ELSE /\ run' = [run EXCEPT !.pc = "check"]
            /\ net' = net \ {Awaited} /\ UNCHANGED jobs
    /\ UNCHANGED <<restoring, gap, uploadBounds>>

PartBreaks ==
    /\ run.pc = "part" /\ ~run.aborted /\ breaks < MaxBreaks /\ breaks' = breaks + 1
    /\ IF run.attempt = MaxAttempts - 1 THEN Fails
       ELSE run' = [run EXCEPT !.pc = "check"] /\ UNCHANGED jobs
    /\ UNCHANGED <<net, task, restoring, files, gap, expiries, sessions>>

\* The task is read before a part is sent again.
Checked ==
    /\ run.pc = "check" /\ ~run.aborted
    /\ LET t == task[run.job][run.id]
       IN \/ t.status = "active" /\ t.parts > run.parts /\ Sent(net)
          \/ /\ t.status = "active" /\ t.parts = run.parts
             /\ run' = [run EXCEPT !.pc = "part", !.attempt = run.attempt + 1]
             /\ net' = net \cup {Request("part", run.job, run.id, run.parts + 1)}
             /\ UNCHANGED jobs
          \/ (t.status # "active" \/ breaks < MaxBreaks) /\ Fails /\ UNCHANGED net
    /\ UNCHANGED <<task, restoring, files, gap, uploadBounds>>

\* The completion is answered, or fails and the task is read without a signal.
Completed ==
    /\ run.pc = "complete" /\ ~run.aborted /\ Awaited \in net /\ Served(Awaited)
    /\ net' = net \ {Awaited}
    /\ IF task'[run.job][run.id].status = "complete" THEN Finishes
       ELSE run' = [run EXCEPT !.pc = "lookup"] /\ UNCHANGED jobs
    /\ UNCHANGED <<restoring, gap, uploadBounds>>

CompleteBreaks ==
    /\ run.pc = "complete" /\ ~run.aborted /\ breaks < MaxBreaks /\ breaks' = breaks + 1
    /\ run' = [run EXCEPT !.pc = "lookup"]
    /\ UNCHANGED <<jobs, net, task, restoring, files, gap, expiries, sessions>>

\* The outcome of the lookup counts even for a job that was paused or canceled meanwhile.
LookedUp ==
    /\ run.pc = "lookup"
    /\ \/ /\ task[run.job][run.id].status = "complete"
          /\ IF run.stale THEN Returns /\ UNCHANGED jobs ELSE Finishes
       \/ task[run.job][run.id].status # "complete" /\ Fails
    /\ UNCHANGED <<net, task, restoring, files, gap, uploadBounds>>

-----------------------------------------------------------------------------

User ==
    \/ \E j \in Job : \/ Enqueue(j) \/ Pause(j) \/ Resume(j) \/ CancelUpload(j)
                      \/ CancelAnswered(j) \/ CancelBreaks(j) \/ Dismiss(j)
    \/ ChangeUser \/ Restore

Pump ==
    \/ \E j \in Job : Perform(j)
    \/ Unwind \/ Hashed \/ Fetched \/ Created \/ CreateBreaks \/ Undone \/ Verified
    \/ Progress \/ PartAnswered \/ PartBreaks \/ Checked \/ Completed \/ CompleteBreaks
    \/ LookedUp

Server ==
    \/ \E r \in net : ServeLate(r)
    \/ \E j \in Job, id \in Ids : Expire(j, id)

Next == User \/ Pump \/ Server

Spec == Init /\ [][Next]_uploadVars

-----------------------------------------------------------------------------
(* properties *)

\* Jobs, the run, requests and tasks keep their shapes, and a queued job has its file:
\* perform returns at once without one and pump would take it again for ever.
TypeOK ==
    /\ jobs \in [Job -> [phase : {"new", "gone", "queued", "hashing", "uploading", "saving",
                                  "complete", "paused", "error", "cancelled"},
                         known : {0} \cup Ids, file : BOOLEAN, request : {0} \cup Ids,
                         deleting : SUBSET Ids]]
    /\ run \in [job : Job \cup {Nobody},
                pc : {"idle", "hash", "fetch", "create", "undo", "verify", "part", "check",
                      "complete", "lookup"},
                known : {0} \cup Ids, id : {0} \cup Ids, parts : 0 .. Parts,
                attempt : 0 .. MaxAttempts - 1, aborted : BOOLEAN, stale : BOOLEAN]
    /\ task \in [Job -> [Ids -> [status : {"none", "active", "complete", "cancelled",
                                           "expired"}, parts : 0 .. Parts]]]
    /\ \A j \in Job : jobs[j].phase = "queued" => jobs[j].file

\* However answers are lost and jobs are resumed, one upload saves one file.
OneFilePerJob == \A j \in Job : files[j] <= 1

\* A canceled upload leaves no open task on the server once everything in flight has
\* ended, also when it was canceled while its task was being created; unless a create
\* or a DELETE of it failed at the client.
CancelLeavesNothing ==
    \A j \in Job :
        jobs[j].phase = "cancelled" /\ ~Performing(j) /\ jobs[j].deleting = {} /\ ~gap[j]
            => \A i \in Ids : task[j][i].status # "active"

\* Complete is only shown for a file the server has saved.
CompleteIsSaved ==
    \A j \in Job : jobs[j].phase = "complete" => \E i \in Ids : task[j][i].status = "complete"

\* A job shown as hashing or uploading is the one the pump works on.
ShownIsWorkedOn ==
    \A j \in Job : jobs[j].phase \in {"hashing", "uploading"}
                       => Performing(j) /\ ~run.aborted
=============================================================================
