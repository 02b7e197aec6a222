---------------------------- MODULE WorkbenchJobs ----------------------------
(***************************************************************************)
(* The automation queue of the workbench: collected messages, the jobs     *)
(* users submit for them, the worker that executes a job step by step, the *)
(* collector that refreshes a message while a job works on it, and the     *)
(* cleanup that removes what expired.                                      *)
(*                                                                         *)
(* All state is PostgreSQL rows at READ COMMITTED.  A transaction that     *)
(* only reads rows it has locked is one action.  A transaction that holds  *)
(* a row lock across a remote call, or that reads before it locks, is one  *)
(* action per part, and the locks it holds in between are the operators    *)
(* MessageLocked and JobLocked.  The messages of this module belong to one *)
(* account: its advisory lock makes the collector a single process.        *)
(***************************************************************************)
EXTENDS Integers, Sequences, FiniteSets

CONSTANTS
    Message,      \* rows of workbench_messages, created by the collector
    Job,          \* rows of workbench_jobs; a row is used once
    Worker,       \* processes that run automation_once
    Client,       \* concurrent submit or retry requests
    Plans,        \* the step lists a user may save for the automation
    None,         \* no row, no holder
    MaxVisits,    \* bound: refreshes of a message by the collector
    MaxCrashes    \* bound: workers lost in the middle of a job

StepKind == {"read", "ai", "map", "ticket", "result"}

\* bound_steps refuses an automation with two ticket steps (schemas/workbench.py).
OneTicketStep(steps) ==
    \A a, b \in 1..Len(steps) : steps[a] = "ticket" /\ steps[b] = "ticket" => a = b

ASSUME PlansAssumption ==
    /\ Plans # {}
    /\ Plans \subseteq Seq(StepKind)
    /\ \A steps \in Plans : Len(steps) > 0 /\ OneTicketStep(steps)

ASSUME NoneAssumption == None \notin Message \cup Job \cup Worker

ASSUME BoundAssumption == MaxVisits \in Nat /\ MaxCrashes \in Nat

VARIABLES
    msg,       \* message rows; live = expires_at is in the future
    job,       \* job rows; input = input_revision, step = step_index
    plan,      \* the steps of the automation as last saved
    runner,    \* holder of advisory lock 74182102
    worker,    \* what each worker's connection is doing, and for which job
    fetching,  \* message the collector has locked while it calls the tracker
    client,    \* the submit and retry requests in flight
    victims,   \* expired messages the running cleanup statement still visits
    sweeping,  \* cleanup holds advisory lock 74182103
    made,      \* history: tickets created for the job
    visits,    \* refreshes so far
    crashes    \* crashes so far

vars == <<msg, job, plan, runner, worker, fetching, client, victims, sweeping,
          made, visits, crashes>>

ActiveStatus == {"queued", "running"}

Rows(m) == {j \in Job : job[j].message = m /\ job[j].status \notin {"none", "gone"}}

Active(m) == \E j \in Job : job[j].message = m /\ job[j].status \in ActiveStatus

\* FOR UPDATE on the message row is held by a refresh, a submit or a retry.
MessageLocked(m) ==
    \/ fetching = m
    \/ \E c \in Client : client[c].pc \in {"submit", "retrying"} /\ client[c].message = m

\* The autoflush before finish's SELECT has written the job row, uncommitted.
Closing(w) == worker[w].pc \in {"completing", "failing"}

JobLocked(j) == \E w \in Worker : Closing(w) /\ worker[w].job = j

-----------------------------------------------------------------------------
(* Initial state *)

Init ==
    /\ msg = [m \in Message |-> [row |-> "absent", live |-> FALSE, revision |-> 0,
                                 submitted |-> FALSE, is_read |-> FALSE,
                                 dismissed |-> FALSE]]
    /\ job = [j \in Job |-> [status |-> "none", message |-> None, input |-> 0,
                             step |-> 0, steps |-> <<>>, ticket |-> FALSE]]
    /\ plan \in Plans
    /\ runner = None
    /\ worker = [w \in Worker |-> [pc |-> "idle", job |-> None]]
    /\ fetching = None
    /\ client = [c \in Client |-> [pc |-> "idle", message |-> None, job |-> None]]
    /\ victims = {}
    /\ sweeping = FALSE
    /\ made = [j \in Job |-> 0]
    /\ visits = 0
    /\ crashes = 0

-----------------------------------------------------------------------------
(* Requests of the user *)

Idle == [pc |-> "idle", message |-> None, job |-> None]

Unexpired(m) == msg[m].row = "present" /\ msg[m].live

Taken(row) == [row EXCEPT !.submitted = TRUE, !.is_read = TRUE]

\* submit: the row lock is taken and the message is still offered.
BeginSubmit(c, m) ==
    /\ client[c].pc = "idle"
    /\ Unexpired(m) /\ ~msg[m].submitted /\ ~msg[m].dismissed
    /\ ~MessageLocked(m)
    /\ client' = [client EXCEPT ![c] = [pc |-> "submit", message |-> m, job |-> None]]
    /\ UNCHANGED <<msg, job, plan, runner, worker, fetching, victims, sweeping,
                   made, visits, crashes>>

CommitSubmit(c, j) ==
    /\ client[c].pc = "submit"
    /\ job[j].status = "none"
    /\ LET m == client[c].message IN
       /\ job' = [job EXCEPT ![j] = [status |-> "queued", message |-> m,
                                     input |-> msg[m].revision, step |-> 0,
                                     steps |-> plan, ticket |-> FALSE]]
       /\ msg' = [msg EXCEPT ![m] = Taken(@)]
    /\ client' = [client EXCEPT ![c] = Idle]
    /\ UNCHANGED <<plan, runner, worker, fetching, victims, sweeping, made, visits,
                   crashes>>

\* retry reads the job without a lock before it locks the message.
BeginRetry(c, j) ==
    /\ client[c].pc = "idle"
    /\ job[j].status = "failed" /\ msg[job[j].message].live
    /\ client' = [client EXCEPT ![c] = [pc |-> "retry", message |-> job[j].message,
                                        job |-> j]]
    /\ UNCHANGED <<msg, job, plan, runner, worker, fetching, victims, sweeping,
                   made, visits, crashes>>

LockRetry(c) ==
    /\ client[c].pc = "retry"
    /\ msg[client[c].message].row = "present"
    /\ ~MessageLocked(client[c].message)
    /\ client' = [client EXCEPT ![c].pc = "retrying"]
    /\ UNCHANGED <<msg, job, plan, runner, worker, fetching, victims, sweeping,
                   made, visits, crashes>>

\* Mutant: the retry does not look for another active job of the message.
MayRetryWhileActive(j) ==
    /\ job[j].status = "failed" /\ msg[job[j].message].live
    /\ ~msg[job[j].message].dismissed

\* Mutant: the status read before the lock is trusted.
MayRetryUnchecked(j) ==
    /\ job[j].status # "gone" /\ msg[job[j].message].live
    /\ ~Active(job[j].message)
    /\ ~msg[job[j].message].dismissed

\* The job as it is once refreshed FOR UPDATE, under the message lock.
MayRetry(j) ==
    /\ job[j].status = "failed" /\ msg[job[j].message].live
    /\ ~Active(job[j].message)
    /\ ~msg[job[j].message].dismissed

\* Mutant: any automation that is long enough continues the job.
PrefixLongEnough(j) == job[j].step <= Len(plan)

\* Mutant: the last completed step is not compared.
PrefixOffByOne(j) ==
    /\ job[j].step <= Len(plan)
    /\ \A i \in 1..job[j].step - 1 : plan[i] = job[j].steps[i]

\* Completed steps stay checkpointed: the automation must still start with them.
PrefixKept(j) ==
    /\ job[j].step <= Len(plan)
    /\ \A i \in 1..job[j].step : plan[i] = job[j].steps[i]

CommitRetry(c) ==
    /\ client[c].pc = "retrying"
    /\ ~JobLocked(client[c].job)
    /\ MayRetry(client[c].job)
    /\ PrefixKept(client[c].job)
    /\ msg' = [msg EXCEPT ![client[c].message] = Taken(@)]
    /\ job' = [job EXCEPT ![client[c].job] = [@ EXCEPT !.status = "queued", !.steps = plan]]
    /\ client' = [client EXCEPT ![c] = Idle]
    /\ UNCHANGED <<plan, runner, worker, fetching, victims, sweeping, made, visits,
                   crashes>>

\* A refused request (404, 409, 422) or a lost API process: nothing is written.
AbandonRequest(c) ==
    /\ client[c].pc # "idle"
    /\ client' = [client EXCEPT ![c] = Idle]
    /\ UNCHANGED <<msg, job, plan, runner, worker, fetching, victims, sweeping,
                   made, visits, crashes>>

DismissMessage(m) ==
    /\ Unexpired(m) /\ ~MessageLocked(m)
    /\ msg' = [msg EXCEPT ![m] = [@ EXCEPT !.dismissed = TRUE, !.is_read = TRUE]]
    /\ UNCHANGED <<job, plan, runner, worker, fetching, client, victims, sweeping,
                   made, visits, crashes>>

Restore(m) ==
    /\ Unexpired(m) /\ ~MessageLocked(m)
    /\ msg' = [msg EXCEPT ![m] = [@ EXCEPT !.dismissed = FALSE, !.submitted = Active(m),
                                          !.is_read = Active(m)]]
    /\ UNCHANGED <<job, plan, runner, worker, fetching, client, victims, sweeping,
                   made, visits, crashes>>

ReadMessage(m) ==
    /\ Unexpired(m) /\ ~MessageLocked(m)
    /\ msg' = [msg EXCEPT ![m].is_read = TRUE]
    /\ UNCHANGED <<job, plan, runner, worker, fetching, client, victims, sweeping,
                   made, visits, crashes>>

EditAutomation(p) ==
    /\ plan' = p
    /\ UNCHANGED <<msg, job, runner, worker, fetching, client, victims, sweeping,
                   made, visits, crashes>>

\* A ticket the job created is deleted: the foreign key is ON DELETE SET NULL.
DeleteTicket(j) ==
    /\ job[j].ticket
    /\ job' = [job EXCEPT ![j].ticket = FALSE]
    /\ UNCHANGED <<msg, plan, runner, worker, fetching, client, victims, sweeping,
                   made, visits, crashes>>

-----------------------------------------------------------------------------
(* The collector: refresh_resource *)

\* An absent message has no row to lock; it is inserted by the commit.
BeginRefresh(m) ==
    /\ fetching = None /\ visits < MaxVisits
    /\ msg[m].row \in {"absent", "present"}
    /\ ~MessageLocked(m)
    /\ fetching' = m /\ visits' = visits + 1
    /\ UNCHANGED <<msg, job, plan, runner, worker, client, victims, sweeping, made,
                   crashes>>

\* Mutant: an update offers the message although a job is working on it.
ApplyUpdateIgnoringJob(m, n) ==
    LET next == [msg[m] EXCEPT !.row = "present", !.live = TRUE,
                               !.revision = @ + n, !.is_read = FALSE]
    IN  IF msg[m].dismissed THEN next ELSE [next EXCEPT !.submitted = FALSE]

\* apply_update on the fields of message m when the tracker had n additions.
ApplyUpdate(m, n) ==
    LET row  == msg[m]
        next == [row EXCEPT !.row = "present", !.live = TRUE,
                            !.revision = @ + n, !.is_read = FALSE]
    IN  IF row.dismissed THEN next
        ELSE IF Active(m) THEN [next EXCEPT !.is_read = TRUE]
        ELSE [next EXCEPT !.submitted = FALSE]

\* The final UPDATE of the message's jobs waits for their row locks.
CommitRefresh(n) ==
    /\ fetching # None
    /\ \A j \in Rows(fetching) : ~JobLocked(j)
    /\ msg' = [msg EXCEPT ![fetching] = ApplyUpdate(fetching, n)]
    /\ fetching' = None
    /\ UNCHANGED <<job, plan, runner, worker, client, victims, sweeping, made,
                   visits, crashes>>

\* A mail that is not newer than the resource is linked and extends retention.
LinkOnly ==
    /\ fetching # None /\ msg[fetching].row = "present"
    /\ \A j \in Rows(fetching) : ~JobLocked(j)
    /\ msg' = [msg EXCEPT ![fetching].live = TRUE]
    /\ fetching' = None
    /\ UNCHANGED <<job, plan, runner, worker, client, victims, sweeping, made,
                   visits, crashes>>

\* The tracker failed, the worker died or the transaction lost a lock cycle.
AbortRefresh ==
    /\ fetching # None
    /\ fetching' = None
    /\ UNCHANGED <<msg, job, plan, runner, worker, client, victims, sweeping, made,
                   visits, crashes>>

-----------------------------------------------------------------------------
(* The worker: automation_once *)

\* Mutant: queued rows do not wait for the row a crashed worker left.
PickableAny(j) == job[j].status \in ActiveStatus

\* Mutant: the row a crashed worker left is waited for and never taken over.
PickableQueued(j) == job[j].status = "queued" /\ \A k \in Job : job[k].status # "running"

\* pick_job: a running row belongs to a crashed worker and comes first.  Which
\* queued row follows is module JobRotation; here it may be any.
Pickable(j) ==
    \/ job[j].status = "running"
    \/ job[j].status = "queued" /\ \A k \in Job : job[k].status # "running"

PickJob(w, j) ==
    /\ runner = None /\ worker[w].pc = "idle"
    /\ Pickable(j)
    /\ runner' = w
    /\ worker' = [worker EXCEPT ![w] = [pc |-> "running", job |-> j]]
    /\ job' = [job EXCEPT ![j].status = "running"]
    /\ UNCHANGED <<msg, plan, fetching, client, victims, sweeping, made, visits,
                   crashes>>

Running(w) == worker[w].pc = "running" /\ job[worker[w].job].status = "running"

\* The job after execute_step: the ticket and the checkpoint commit together.
Stepped(row) ==
    [row EXCEPT !.step = @ + 1, !.ticket = @ \/ row.steps[row.step + 1] = "ticket"]

Checkpoint(j) == [job EXCEPT ![j] = Stepped(@)]

CreatesTicket(j) == job[j].steps[job[j].step + 1] = "ticket" /\ ~job[j].ticket

ExecuteStep(w) ==
    /\ Running(w)
    /\ LET j == worker[w].job IN
       /\ job[j].step < Len(job[j].steps)
       /\ job' = Checkpoint(j)
       /\ made' = IF CreatesTicket(j) THEN [made EXCEPT ![j] = @ + 1] ELSE made
    /\ UNCHANGED <<msg, plan, runner, worker, fetching, client, victims, sweeping,
                   visits, crashes>>

\* A step or a commit raises, times out, or the user is disabled: rolled back.
RaiseError(w) ==
    /\ Running(w)
    /\ worker' = [worker EXCEPT ![w].pc = "raised"]
    /\ UNCHANGED <<msg, job, plan, runner, fetching, client, victims, sweeping, made,
                   visits, crashes>>

\* The new status is flushed, so the job row is locked before the message.
FlushStatus(w) ==
    /\ worker[w].job # None /\ job[worker[w].job].status = "running"
    /\ LET j == worker[w].job IN
       \/ /\ worker[w].pc = "running" /\ job[j].step = Len(job[j].steps)
          /\ worker' = [worker EXCEPT ![w].pc = "completing"]
       \/ /\ worker[w].pc = "raised"
          /\ worker' = [worker EXCEPT ![w].pc = "failing"]
    /\ UNCHANGED <<msg, job, plan, runner, fetching, client, victims, sweeping, made,
                   visits, crashes>>

\* Mutant: the job ends without a look at the message.
FinishMessageSilently(j) == msg

\* finish: an update that arrived meanwhile makes the message pending again.
FinishMessage(j) ==
    LET m == job[j].message IN
    IF msg[m].row = "present" /\ msg[m].revision > job[j].input /\ ~msg[m].dismissed
    THEN [msg EXCEPT ![m] = [@ EXCEPT !.submitted = FALSE, !.is_read = FALSE]]
    ELSE msg

\* Mutant: the status column receives the name of the phase.
OutcomeAsPhase(w) == worker[w].pc

Outcome(w) == IF worker[w].pc = "completing" THEN "completed" ELSE "failed"

Finish(w) ==
    /\ Closing(w) /\ job[worker[w].job].status = "running"
    /\ ~MessageLocked(job[worker[w].job].message)
    /\ LET j == worker[w].job IN
       /\ job' = [job EXCEPT ![j].status = Outcome(w)]
       /\ msg' = FinishMessage(j)
    /\ worker' = [worker EXCEPT ![w] = [pc |-> "idle", job |-> None]]
    /\ runner' = None
    /\ UNCHANGED <<plan, fetching, client, victims, sweeping, made, visits, crashes>>

\* The worker owns the job row and waits for the message; the collector owns
\* the message and will wait for the job row.
LockCycle(w) == Closing(w) /\ fetching # None /\ job[worker[w].job].message = fetching

Release(w) ==
    /\ worker' = [worker EXCEPT ![w] = [pc |-> "idle", job |-> None]]
    /\ runner' = None
    /\ UNCHANGED <<msg, job, plan, fetching, client, victims, sweeping, made, visits>>

\* PostgreSQL breaks the cycle against the worker: a completed job turns to
\* failed; a second error leaves automation_once and the row stays running.
DeadlockVictim(w) ==
    /\ LockCycle(w)
    /\ UNCHANGED crashes
    /\ \/ /\ worker[w].pc = "completing"
          /\ worker' = [worker EXCEPT ![w].pc = "raised"]
          /\ UNCHANGED <<msg, job, plan, runner, fetching, client, victims, sweeping,
                         made, visits>>
       \/ worker[w].pc = "failing" /\ Release(w)

\* The row was deleted under the worker: its UPDATE matches nothing and
\* db.get returns None, so automation_once raises and drops its lock.
LoseJob(w) ==
    /\ worker[w].pc # "idle" /\ job[worker[w].job].status = "gone"
    /\ Release(w) /\ UNCHANGED crashes

\* The process or its connection dies; PostgreSQL rolls back and unlocks.
Crash(w) ==
    /\ worker[w].pc # "idle" /\ crashes < MaxCrashes
    /\ crashes' = crashes + 1
    /\ Release(w)

-----------------------------------------------------------------------------
(* Retention: cleanup *)

Expire(m) ==
    /\ msg[m].row = "present" /\ msg[m].live
    /\ msg' = [msg EXCEPT ![m].live = FALSE]
    /\ UNCHANGED <<job, plan, runner, worker, fetching, client, victims, sweeping,
                   made, visits, crashes>>

\* The DELETE's snapshot: its subquery of active jobs is evaluated here.
BeginCleanup ==
    /\ ~sweeping
    /\ sweeping' = TRUE
    /\ victims' = {m \in Message : msg[m].row = "present" /\ ~msg[m].live /\ ~Active(m)}
    /\ UNCHANGED <<msg, job, plan, runner, worker, fetching, client, made, visits,
                   crashes>>

Without(rows) == [j \in Job |-> IF j \in rows THEN [job[j] EXCEPT !.status = "gone"]
                                ELSE job[j]]

\* Row by row, once unlocked: expires_at is checked again on the current row,
\* the subquery is not.  Jobs of a deleted message are deleted by the cascade.
DeleteMessage(m) ==
    /\ m \in victims
    /\ ~MessageLocked(m) /\ \A j \in Rows(m) : ~JobLocked(j)
    /\ victims' = victims \ {m}
    /\ IF msg[m].live
       THEN UNCHANGED <<msg, job>>
       ELSE /\ msg' = [msg EXCEPT ![m].row = "gone"]
            /\ job' = Without(Rows(m))
    /\ UNCHANGED <<plan, runner, worker, fetching, client, sweeping, made, visits,
                   crashes>>

Removable(j) == job[j].status \in {"completed", "failed"} /\ ~msg[job[j].message].live

\* The second DELETE, of expired jobs that ended, and the commit.
DeleteJobs ==
    /\ sweeping /\ victims = {}
    /\ sweeping' = FALSE
    /\ job' = Without({j \in Job : Removable(j)})
    /\ UNCHANGED <<msg, plan, runner, worker, fetching, client, victims, made, visits,
                   crashes>>

-----------------------------------------------------------------------------
(* Specification *)

\* A visit links one or two new mails; more add nothing the properties see.
Additions == 1..2

ClientNext ==
    \/ \E c \in Client : \/ \E m \in Message : BeginSubmit(c, m)
                         \/ \E j \in Job : CommitSubmit(c, j) \/ BeginRetry(c, j)
                         \/ LockRetry(c) \/ CommitRetry(c) \/ AbandonRequest(c)
    \/ \E m \in Message : DismissMessage(m) \/ Restore(m) \/ ReadMessage(m)
    \/ \E p \in Plans : EditAutomation(p)
    \/ \E j \in Job : DeleteTicket(j)

CollectorNext ==
    \/ \E m \in Message : BeginRefresh(m)
    \/ \E n \in Additions : CommitRefresh(n)
    \/ LinkOnly
    \/ AbortRefresh

WorkerNext ==
    \E w \in Worker : \/ \E j \in Job : PickJob(w, j)
                      \/ ExecuteStep(w) \/ RaiseError(w) \/ FlushStatus(w)
                      \/ Finish(w) \/ DeadlockVictim(w) \/ LoseJob(w) \/ Crash(w)

CleanupNext ==
    \/ \E m \in Message : Expire(m) \/ DeleteMessage(m)
    \/ BeginCleanup \/ DeleteJobs

Next == ClientNext \/ CollectorNext \/ WorkerNext \/ CleanupNext

Spec == Init /\ [][Next]_vars

\* Requests and refreshes end (HTTP timeouts, AbandonRequest, AbortRefresh), the
\* worker loop keeps polling, a waiting row lock is granted in FIFO order, and
\* the rotation of pick_job reaches every queued row (module JobRotation).
Fairness ==
    /\ \A c \in Client : WF_vars(AbandonRequest(c))
    /\ WF_vars(AbortRefresh)
    /\ \A j \in Job : SF_vars(\E w \in Worker : PickJob(w, j))
    /\ \A w \in Worker : /\ WF_vars(ExecuteStep(w)) /\ WF_vars(FlushStatus(w))
                         /\ SF_vars(Finish(w)) /\ WF_vars(LoseJob(w))

FairSpec == Spec /\ Fairness

-----------------------------------------------------------------------------
(* Properties *)

MsgRow == [row : {"absent", "present", "gone"}, live : BOOLEAN, revision : Nat,
           submitted : BOOLEAN, is_read : BOOLEAN, dismissed : BOOLEAN]

JobRow == [status : {"none", "queued", "running", "completed", "failed", "gone"},
           message : Message \cup {None}, input : Nat, step : Nat,
           steps : Plans \cup {<<>>}, ticket : BOOLEAN]

\* The variables keep the shapes of the rows and of the transactions in flight.
TypeOK ==
    /\ msg \in [Message -> MsgRow]
    /\ job \in [Job -> JobRow]
    /\ plan \in Plans
    /\ runner \in Worker \cup {None}
    /\ worker \in [Worker -> [pc : {"idle", "running", "raised", "completing", "failing"},
                              job : Job \cup {None}]]
    /\ fetching \in Message \cup {None}
    /\ client \in [Client -> [pc : {"idle", "submit", "retry", "retrying"},
                              message : Message \cup {None}, job : Job \cup {None}]]
    /\ victims \subseteq Message
    /\ sweeping \in BOOLEAN
    /\ made \in [Job -> Nat]
    /\ visits \in Nat /\ crashes \in Nat

\* However submits, retries, restores, refreshes and finishing jobs interleave,
\* two jobs never process one message at a time.
OneActiveJob ==
    \A j, k \in Job : /\ job[j].status \in ActiveStatus /\ job[k].status \in ActiveStatus
                      /\ job[j].message = job[k].message
                      => j = k

\* A message that is neither dismissed nor offered for submission holds no
\* update that nobody saw: a job took its revision, or one is active and its
\* end (finish) will compare revisions.
UpdateNeverHidden ==
    \A m \in Message :
        msg[m].row = "present" /\ msg[m].submitted /\ ~msg[m].dismissed =>
            Active(m) \/ \E j \in Job : job[j].message = m /\ job[j].input >= msg[m].revision

\* The comment in execute_step: retry and restart cannot duplicate tickets.
\* It holds although the ticket can be deleted and the automation edited
\* between the failed run and the retry.
TicketOnce == \A j \in Job : made[j] <= 1

\* A second worker never starts a job while another row is still running: the
\* row a crashed worker left is taken over first.
OneRunningJob ==
    \A j, k \in Job : job[j].status = "running" /\ job[k].status = "running" => j = k

\* The steps a job has executed are never replaced, skipped or executed again.
CompletedPrefixFixed ==
    [][\A j \in Job : job[j].status # "none" =>
        /\ job'[j].step \in {job[j].step, job[j].step + 1}
        /\ \A i \in 1..job[j].step : job'[j].steps[i] = job[j].steps[i]]_job

\* Only a failed job is ever queued again, and an ended job never runs without
\* a retry, although retry first reads the status without a lock.
OnlyFailedRequeued ==
    [][\A j \in Job :
        /\ job'[j].status = "queued" /\ job[j].status # "queued"
              => job[j].status \in {"none", "failed"}
        /\ job'[j].status = "running" => job[j].status \in ActiveStatus]_job

\* Cleanup spares the input of queued and running jobs.
ActiveJobKept ==
    [][\A j \in Job : job[j].status \in ActiveStatus => job'[j].status # "gone"]_job

\* Transactions lock the message before its jobs: no two wait for each other.
NoLockCycle == \A w \in Worker : ~LockCycle(w)

\* Every queued job ends, whatever crashes and refreshes happen meanwhile.
QueuedJobEnds ==
    \A j \in Job : job[j].status = "queued" ~> job[j].status \in {"completed", "failed", "gone"}

\* An update that arrived while a job worked on an older revision does not stay
\* behind the submitted flag: the message is offered again.
Overtaken(m) ==
    /\ msg[m].row = "present" /\ msg[m].submitted /\ ~msg[m].dismissed
    /\ \A j \in Job : job[j].message = m => job[j].input < msg[m].revision

UpdateSurfaces == \A m \in Message : Overtaken(m) ~> ~Overtaken(m)

\* Together with jobs and locks the message rows behave as the inbox of module
\* UpdateInbox: no interleaving hides an update.
Inbox == INSTANCE UpdateInbox WITH
    shown <- [m \in Message |->
                IF msg[m].row # "present" THEN msg[m].row
                ELSE IF msg[m].dismissed THEN "dismissed"
                ELSE IF msg[m].submitted THEN "taken" ELSE "offered"],
    busy <- [m \in Message |-> Active(m)],
    answered <- [m \in Message |->
                   \E j \in Job : job[j].message = m /\ job[j].input >= msg[m].revision]

ImplementsInbox == Inbox!Spec
=============================================================================
