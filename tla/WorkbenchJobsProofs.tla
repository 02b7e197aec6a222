------------------------- MODULE WorkbenchJobsProofs -------------------------
(***************************************************************************)
(* Proofs about WorkbenchJobs for any number of messages, jobs, workers    *)
(* and requests, any automations and any bounds: types, one active job per *)
(* message, one running job, one ticket per job, completed steps that never *)
(* change, and that it implements UpdateInbox.                             *)
(***************************************************************************)
EXTENDS WorkbenchJobs, TLAPS

\* Requests and workers refer to rows that exist.
References ==
    /\ \A c \in Client :
         /\ client[c].pc # "idle" => client[c].message \in Message
         /\ client[c].pc \in {"retry", "retrying"} => client[c].job \in Job
    /\ \A w \in Worker : worker[w].pc # "idle" => worker[w].job \in Job
    /\ \A j \in Job : job[j].status # "none" => /\ job[j].message \in Message
                                               /\ job[j].steps \in Plans

\* The type invariant is inductive once the references are typed as well.
Typed == TypeOK /\ References

LEMMA MsgUpdate ==
    ASSUME Typed, NEW m \in Message, NEW row \in MsgRow, msg' = [msg EXCEPT ![m] = row]
    PROVE  msg' \in [Message -> MsgRow]
BY DEF Typed, TypeOK

LEMMA JobUpdate ==
    ASSUME Typed, NEW j \in Job, NEW row \in JobRow, job' = [job EXCEPT ![j] = row]
    PROVE  job' \in [Job -> JobRow]
BY DEF Typed, TypeOK

\* What the statements of the transactions leave of one message row.
LEMMA MsgFields ==
    ASSUME NEW row \in MsgRow
    PROVE  /\ Taken(row) \in MsgRow
           /\ [row EXCEPT !.dismissed = TRUE, !.is_read = TRUE] \in MsgRow
           /\ \A b \in BOOLEAN :
                [row EXCEPT !.dismissed = FALSE, !.submitted = b, !.is_read = b] \in MsgRow
           /\ [row EXCEPT !.is_read = TRUE] \in MsgRow
           /\ [row EXCEPT !.submitted = FALSE] \in MsgRow
           /\ [row EXCEPT !.submitted = FALSE, !.is_read = FALSE] \in MsgRow
           /\ [row EXCEPT !.live = TRUE] \in MsgRow
           /\ [row EXCEPT !.live = FALSE] \in MsgRow
           /\ [row EXCEPT !.row = "gone"] \in MsgRow
           /\ \A n \in Additions :
                [row EXCEPT !.row = "present", !.live = TRUE, !.revision = @ + n,
                            !.is_read = FALSE] \in MsgRow
<1>1. Taken(row) \in MsgRow
  BY DEF Taken, MsgRow
<1>2. /\ [row EXCEPT !.dismissed = TRUE, !.is_read = TRUE] \in MsgRow
      /\ [row EXCEPT !.submitted = FALSE, !.is_read = FALSE] \in MsgRow
  BY DEF MsgRow
<1>3. ASSUME NEW b \in BOOLEAN
      PROVE  [row EXCEPT !.dismissed = FALSE, !.submitted = b, !.is_read = b] \in MsgRow
  BY DEF MsgRow
<1>4. /\ [row EXCEPT !.is_read = TRUE] \in MsgRow
      /\ [row EXCEPT !.submitted = FALSE] \in MsgRow
  BY DEF MsgRow
<1>5. [row EXCEPT !.live = TRUE] \in MsgRow /\ [row EXCEPT !.live = FALSE] \in MsgRow
  BY DEF MsgRow
<1>6. [row EXCEPT !.row = "gone"] \in MsgRow
  BY DEF MsgRow
<1>7. ASSUME NEW n \in Additions
      PROVE  [row EXCEPT !.row = "present", !.live = TRUE, !.revision = @ + n,
                         !.is_read = FALSE] \in MsgRow
  <2>1. row.revision + n \in Nat
    BY DEF MsgRow, Additions
  <2>2. QED
    BY <2>1, Zenon DEF MsgRow
<1>8. QED
  BY <1>1, <1>2, <1>3, <1>4, <1>5, <1>6, <1>7

\* What they leave of one job row.
LEMMA JobFields ==
    ASSUME NEW row \in JobRow
    PROVE  /\ \A s \in {"queued", "running", "completed", "failed", "gone"} :
                [row EXCEPT !.status = s] \in JobRow
           /\ [row EXCEPT !.ticket = FALSE] \in JobRow
           /\ \A b \in BOOLEAN : [row EXCEPT !.step = @ + 1, !.ticket = b] \in JobRow
           /\ \A p \in Plans : [row EXCEPT !.status = "queued", !.steps = p] \in JobRow
<1>1. ASSUME NEW s \in {"queued", "running", "completed", "failed", "gone"}
      PROVE  [row EXCEPT !.status = s] \in JobRow
  BY DEF JobRow
<1>2. [row EXCEPT !.ticket = FALSE] \in JobRow
  BY DEF JobRow
<1>3. ASSUME NEW b \in BOOLEAN
      PROVE  [row EXCEPT !.step = @ + 1, !.ticket = b] \in JobRow
  <2>1. row.step + 1 \in Nat
    BY DEF JobRow
  <2>2. QED
    BY <2>1, Zenon DEF JobRow
<1>4. ASSUME NEW p \in Plans
      PROVE  [row EXCEPT !.status = "queued", !.steps = p] \in JobRow
  BY DEF JobRow
<1>5. QED
  BY <1>1, <1>2, <1>3, <1>4

\* Deleted rows keep everything but their status.
LEMMA JobsGone ==
    ASSUME Typed, NEW rows \in SUBSET {j \in Job : job[j].status # "none"},
           job' = Without(rows)
    PROVE  /\ job' \in [Job -> JobRow]
           /\ \A j \in Job : /\ job'[j].message = job[j].message
                             /\ job'[j].steps = job[j].steps
                             /\ job'[j].status # "none" => job[j].status # "none"
<1>1. \A j \in Job : job[j] \in JobRow /\ [job[j] EXCEPT !.status = "gone"] \in JobRow
  BY JobFields DEF Typed, TypeOK
<1>2. job' \in [Job -> JobRow]
  BY <1>1 DEF Without
<1>3. ASSUME NEW j \in Job
      PROVE  /\ job'[j].message = job[j].message
             /\ job'[j].steps = job[j].steps
             /\ job'[j].status # "none" => job[j].status # "none"
  BY <1>1 DEF Without, JobRow
<1>4. QED
  BY <1>2, <1>3

LEMMA TypedInit == Init => Typed
<1> SUFFICES ASSUME Init PROVE Typed
  OBVIOUS
<1>1. msg \in [Message -> MsgRow]
  BY DEF Init, MsgRow
<1>2. job \in [Job -> JobRow]
  BY DEF Init, JobRow
<1>3. TypeOK
  BY <1>1, <1>2, BoundAssumption DEF Init, TypeOK
<1>4. References
  BY DEF Init, References
<1>5. QED
  BY <1>3, <1>4 DEF Typed

LEMMA TypedClient ==
    ASSUME Typed, ClientNext PROVE Typed'
<1>1. ASSUME NEW c \in Client, NEW m \in Message, BeginSubmit(c, m) PROVE Typed'
  BY <1>1 DEF BeginSubmit, Typed, TypeOK, References
<1>2. ASSUME NEW c \in Client, NEW j \in Job, CommitSubmit(c, j) PROVE Typed'
  <2> DEFINE m == client[c].message
  <2>1. m \in Message
    BY <1>2 DEF CommitSubmit, Typed, References
  <2>2. msg' \in [Message -> MsgRow]
    <3>1. msg[m] \in MsgRow /\ msg' = [msg EXCEPT ![m] = Taken(msg[m])]
      BY <1>2, <2>1 DEF CommitSubmit, Typed, TypeOK
    <3>2. Taken(msg[m]) \in MsgRow
      BY <3>1, MsgFields
    <3>3. QED
      BY <2>1, <3>1, <3>2, MsgUpdate
  <2>3. job' \in [Job -> JobRow]
    BY <1>2, <2>1, PlansAssumption DEF CommitSubmit, Typed, TypeOK, JobRow, MsgRow
  <2>4. QED
    BY <1>2, <2>1, <2>2, <2>3 DEF CommitSubmit, Idle, Typed, TypeOK, References
<1>3. ASSUME NEW c \in Client, NEW j \in Job, BeginRetry(c, j) PROVE Typed'
  BY <1>3 DEF BeginRetry, Typed, TypeOK, References
<1>4. ASSUME NEW c \in Client, LockRetry(c) PROVE Typed'
  BY <1>4 DEF LockRetry, Typed, TypeOK, References
<1>5. ASSUME NEW c \in Client, CommitRetry(c) PROVE Typed'
  <2>1. client[c].message \in Message /\ client[c].job \in Job
    BY <1>5 DEF CommitRetry, Typed, References
  <2> DEFINE m == client[c].message
             j == client[c].job
  <2>2. msg' \in [Message -> MsgRow]
    <3>1. msg[m] \in MsgRow /\ msg' = [msg EXCEPT ![m] = Taken(msg[m])]
      BY <1>5, <2>1 DEF CommitRetry, Typed, TypeOK
    <3>2. Taken(msg[m]) \in MsgRow
      BY <3>1, MsgFields
    <3>3. QED
      BY <2>1, <3>1, <3>2, MsgUpdate
  <2>3. job' \in [Job -> JobRow]
    <3>1. /\ job[j] \in JobRow /\ plan \in Plans
          /\ job' = [job EXCEPT ![j] = [job[j] EXCEPT !.status = "queued", !.steps = plan]]
      BY <1>5, <2>1 DEF CommitRetry, Typed, TypeOK
    <3>2. [job[j] EXCEPT !.status = "queued", !.steps = plan] \in JobRow
      BY <3>1, JobFields
    <3>3. QED
      BY <2>1, <3>1, <3>2, JobUpdate
  <2>4. References'
    BY <1>5, <2>1 DEF CommitRetry, MayRetry, Idle, Typed, TypeOK, References
  <2>5. QED
    BY <1>5, <2>2, <2>3, <2>4 DEF CommitRetry, Idle, Typed, TypeOK
<1>6. ASSUME NEW c \in Client, AbandonRequest(c) PROVE Typed'
  BY <1>6 DEF AbandonRequest, Idle, Typed, TypeOK, References
<1>7. ASSUME NEW m \in Message, DismissMessage(m) \/ Restore(m) \/ ReadMessage(m)
      PROVE Typed'
  <2>1. Active(m) \in BOOLEAN
    BY DEF Active
  <2>2. msg' \in [Message -> MsgRow]
    <3>1. msg[m] \in MsgRow
      BY DEF Typed, TypeOK
    <3>2. CASE DismissMessage(m)
      BY <3>1, <3>2, MsgFields, MsgUpdate DEF DismissMessage
    <3>3. CASE Restore(m)
      <4>1. [msg[m] EXCEPT !.dismissed = FALSE, !.submitted = Active(m),
                           !.is_read = Active(m)] \in MsgRow
        BY <2>1, <3>1, MsgFields
      <4>2. QED
        BY <3>3, <4>1, MsgUpdate DEF Restore
    <3>4. CASE ReadMessage(m)
      BY <3>1, <3>4, MsgFields, MsgUpdate DEF ReadMessage
    <3>5. QED
      BY <1>7, <3>2, <3>3, <3>4
  <2>3. QED
    BY <1>7, <2>2 DEF DismissMessage, Restore, ReadMessage, Typed, TypeOK, References
<1>8. ASSUME NEW p \in Plans, EditAutomation(p) PROVE Typed'
  BY <1>8 DEF EditAutomation, Typed, TypeOK, References
<1>9. ASSUME NEW j \in Job, DeleteTicket(j) PROVE Typed'
  <2>1. job[j] \in JobRow /\ [job[j] EXCEPT !.ticket = FALSE] \in JobRow
    BY JobFields DEF Typed, TypeOK
  <2>2. job' \in [Job -> JobRow]
    BY <1>9, <2>1, JobUpdate DEF DeleteTicket
  <2>3. References'
    BY <1>9 DEF DeleteTicket, Typed, TypeOK, References
  <2>4. QED
    BY <1>9, <2>2, <2>3 DEF DeleteTicket, Typed, TypeOK
<1>10. QED
  BY <1>1, <1>2, <1>3, <1>4, <1>5, <1>6, <1>7, <1>8, <1>9 DEF ClientNext

LEMMA TypedCollector ==
    ASSUME Typed, CollectorNext PROVE Typed'
<1>1. ASSUME NEW m \in Message, BeginRefresh(m) PROVE Typed'
  BY <1>1 DEF BeginRefresh, Typed, TypeOK, References
<1>2. ASSUME NEW n \in Additions, CommitRefresh(n) PROVE Typed'
  <2>1. fetching \in Message
    BY <1>2 DEF CommitRefresh, Typed, TypeOK
  <2>2. ApplyUpdate(fetching, n) \in MsgRow
    <3> DEFINE row == [msg[fetching] EXCEPT !.row = "present", !.live = TRUE,
                                            !.revision = @ + n, !.is_read = FALSE]
    <3>1. row \in MsgRow
      BY <2>1, MsgFields DEF Typed, TypeOK
    <3>2. /\ [row EXCEPT !.is_read = TRUE] \in MsgRow
          /\ [row EXCEPT !.submitted = FALSE] \in MsgRow
      BY <3>1, MsgFields
    <3>3. QED
      BY <3>1, <3>2 DEF ApplyUpdate
  <2>3. msg' \in [Message -> MsgRow]
    BY <1>2, <2>1, <2>2, MsgUpdate DEF CommitRefresh
  <2>4. QED
    BY <1>2, <2>3 DEF CommitRefresh, Typed, TypeOK, References
<1>3. CASE LinkOnly
  <2>1. /\ fetching \in Message
        /\ [msg[fetching] EXCEPT !.live = TRUE] \in MsgRow
    BY <1>3, MsgFields DEF LinkOnly, Typed, TypeOK
  <2>2. msg' \in [Message -> MsgRow]
    BY <1>3, <2>1, MsgUpdate DEF LinkOnly
  <2>3. QED
    BY <1>3, <2>2 DEF LinkOnly, Typed, TypeOK, References
<1>4. CASE AbortRefresh
  BY <1>4 DEF AbortRefresh, Typed, TypeOK, References
<1>5. QED
  BY <1>1, <1>2, <1>3, <1>4 DEF CollectorNext

LEMMA TypedWorker ==
    ASSUME Typed, WorkerNext PROVE Typed'
<1>1. ASSUME NEW w \in Worker, NEW j \in Job, PickJob(w, j) PROVE Typed'
  <2>1. job' \in [Job -> JobRow]
    <3>1. job[j] \in JobRow /\ [job[j] EXCEPT !.status = "running"] \in JobRow
      BY JobFields DEF Typed, TypeOK
    <3>2. QED
      BY <1>1, <3>1, JobUpdate DEF PickJob
  <2>2. QED
    BY <1>1, <2>1 DEF PickJob, Pickable, Typed, TypeOK, References
<1>2. ASSUME NEW w \in Worker, ExecuteStep(w) PROVE Typed'
  <2> DEFINE j == worker[w].job
  <2>1. j \in Job /\ j = worker[w].job
    BY <1>2 DEF ExecuteStep, Running, Typed, References
  <2>2. job' \in [Job -> JobRow]
    <3>1. job[j] \in JobRow /\ job' = Checkpoint(j)
      BY <1>2, <2>1 DEF ExecuteStep, Typed, TypeOK
    <3>2. Stepped(job[j]) \in JobRow
      BY <3>1, JobFields DEF Stepped
    <3>3. QED
      BY <2>1, <3>1, <3>2, JobUpdate DEF Checkpoint
  <2>3. made' \in [Job -> Nat]
    BY <1>2, <2>1 DEF ExecuteStep, Typed, TypeOK
  <2>4. References'
    BY <1>2, <2>1 DEF ExecuteStep, Checkpoint, Stepped, Typed, TypeOK, References, JobRow
  <2>5. QED
    BY <1>2, <2>2, <2>3, <2>4 DEF ExecuteStep, Typed, TypeOK
<1>3. ASSUME NEW w \in Worker, RaiseError(w) \/ FlushStatus(w) PROVE Typed'
  <2>1. PICK pc \in {"raised", "completing", "failing"} :
             worker' = [worker EXCEPT ![w].pc = pc]
    BY <1>3 DEF RaiseError, FlushStatus
  <2>2. worker[w].job \in Job
    BY <1>3 DEF RaiseError, Running, FlushStatus, Typed, TypeOK, References
  <2>3. QED
    BY <1>3, <2>1, <2>2 DEF RaiseError, FlushStatus, Typed, TypeOK, References
<1>4. ASSUME NEW w \in Worker, Finish(w) PROVE Typed'
  <2> DEFINE j == worker[w].job
  <2>1. j \in Job /\ job[j].message \in Message
    BY <1>4 DEF Finish, Closing, Typed, References
  <2>2. msg' \in [Message -> MsgRow]
    <3> DEFINE m == job[j].message
    <3>1. [msg[m] EXCEPT !.submitted = FALSE, !.is_read = FALSE] \in MsgRow
      BY <2>1, MsgFields DEF Typed, TypeOK
    <3>2. msg' = msg \/ msg' = [msg EXCEPT ![m] = [msg[m] EXCEPT !.submitted = FALSE,
                                                              !.is_read = FALSE]]
      BY <1>4 DEF Finish, FinishMessage
    <3>3. QED
      BY <2>1, <3>1, <3>2, MsgUpdate DEF Typed, TypeOK
  <2>3. job' \in [Job -> JobRow]
    <3>1. [job[j] EXCEPT !.status = Outcome(w)] \in JobRow
      BY <2>1, JobFields DEF Outcome, Typed, TypeOK
    <3>2. QED
      BY <1>4, <2>1, <3>1, JobUpdate DEF Finish
  <2>4. References'
    BY <1>4, <2>1 DEF Finish, Outcome, Typed, TypeOK, References
  <2>5. QED
    BY <1>4, <2>2, <2>3, <2>4 DEF Finish, Typed, TypeOK
<1>5. ASSUME NEW w \in Worker, DeadlockVictim(w) \/ LoseJob(w) \/ Crash(w) PROVE Typed'
  BY <1>5 DEF DeadlockVictim, LoseJob, Crash, Release, Typed, TypeOK, References
<1>6. QED
  BY <1>1, <1>2, <1>3, <1>4, <1>5 DEF WorkerNext

LEMMA TypedCleanup ==
    ASSUME Typed, CleanupNext PROVE Typed'
<1>1. ASSUME NEW m \in Message, Expire(m) PROVE Typed'
  <2>1. msg' \in [Message -> MsgRow]
    <3>1. [msg[m] EXCEPT !.live = FALSE] \in MsgRow
      BY MsgFields DEF Typed, TypeOK
    <3>2. QED
      BY <1>1, <3>1, MsgUpdate DEF Expire
  <2>2. QED
    BY <1>1, <2>1 DEF Expire, Typed, TypeOK, References
<1>2. ASSUME NEW m \in Message, DeleteMessage(m) PROVE Typed'
  <2>1. msg' \in [Message -> MsgRow]
    <3>1. [msg[m] EXCEPT !.row = "gone"] \in MsgRow
      BY MsgFields DEF Typed, TypeOK
    <3>2. msg' = msg \/ msg' = [msg EXCEPT ![m] = [msg[m] EXCEPT !.row = "gone"]]
      BY <1>2 DEF DeleteMessage, Typed, TypeOK
    <3>3. QED
      BY <3>1, <3>2, MsgUpdate DEF Typed, TypeOK
  <2>2. /\ job' \in [Job -> JobRow]
        /\ \A j \in Job : /\ job'[j].message = job[j].message
                          /\ job'[j].steps = job[j].steps
                          /\ job'[j].status # "none" => job[j].status # "none"
    <3>1. job' = job \/ job' = Without(Rows(m))
      BY <1>2 DEF DeleteMessage
    <3>2. QED
      BY <3>1, JobsGone DEF Rows, Typed, TypeOK
  <2>3. References'
    BY <1>2, <2>2 DEF DeleteMessage, Typed, References
  <2>4. QED
    BY <1>2, <2>1, <2>2, <2>3 DEF DeleteMessage, Typed, TypeOK
<1>3. CASE BeginCleanup
  BY <1>3 DEF BeginCleanup, Typed, TypeOK, References
<1>4. CASE DeleteJobs
  <2>1. /\ job' \in [Job -> JobRow]
        /\ \A j \in Job : /\ job'[j].message = job[j].message
                          /\ job'[j].steps = job[j].steps
                          /\ job'[j].status # "none" => job[j].status # "none"
    BY <1>4, JobsGone DEF DeleteJobs, Removable
  <2>2. References'
    BY <1>4, <2>1 DEF DeleteJobs, Typed, References
  <2>3. QED
    BY <1>4, <2>1, <2>2 DEF DeleteJobs, Typed, TypeOK
<1>5. QED
  BY <1>1, <1>2, <1>3, <1>4 DEF CleanupNext

LEMMA TypedStep == Typed /\ [Next]_vars => Typed'
<1>1. CASE Next
  BY <1>1, TypedClient, TypedCollector, TypedWorker, TypedCleanup DEF Next
<1>2. CASE UNCHANGED vars
  BY <1>2 DEF vars, Typed, TypeOK, References
<1>3. QED
  BY <1>1, <1>2

LEMMA AlwaysTyped == Spec => []Typed
BY TypedInit, TypedStep, PTL DEF Spec

\* The rows, the requests and the workers keep their types in every behaviour
\* of the queue, whatever the numbers of each.
THEOREM TypeCorrect == Spec => []TypeOK
<1>1. Typed => TypeOK
  BY DEF Typed
<1>2. QED
  BY <1>1, AlwaysTyped, PTL

-----------------------------------------------------------------------------
(* One active job per message, one running job *)

Holds(c) == client[c].pc \in {"submit", "retrying"}

IsActive(j) == job[j].status \in ActiveStatus

\* Why two jobs of a message are never active: an active job keeps the message
\* submitted, a submit that passed its check holds the row of a message without
\* active jobs, and a retry stays with the message of its job.
ActiveSubmitted == \A j \in Job : IsActive(j) => msg[job[j].message].submitted

OneHolder ==
    \A c, d \in Client :
        Holds(c) /\ Holds(d) /\ client[c].message = client[d].message => c = d

SubmitAlone ==
    \A c \in Client : client[c].pc = "submit" =>
        \A j \in Job : IsActive(j) => job[j].message # client[c].message

RetryOfRow ==
    \A c \in Client : client[c].pc \in {"retry", "retrying"} =>
        /\ job[client[c].job].status # "none"
        /\ job[client[c].job].message = client[c].message

Exclusive ==
    OneActiveJob /\ ActiveSubmitted /\ OneHolder /\ SubmitAlone /\ RetryOfRow

\* Why no job creates two tickets: a ticket that was created belongs to one of
\* the completed steps, and those are still the first steps of the job.
TicketOfStep(j) ==
    /\ made[j] \in {0, 1}
    /\ job[j].status = "none" => made[j] = 0
    /\ job[j].step <= Len(job[j].steps)
    /\ made[j] = 1 => \E i \in 1..job[j].step : job[j].steps[i] = "ticket"

Checkpointed == \A j \in Job : TicketOfStep(j)

-----------------------------------------------------------------------------
(* One active job per message *)

\* A step that activates no job and starts no request keeps Exclusive when the
\* messages of active jobs stay submitted.
LEMMA ExclusiveFrame ==
    ASSUME Exclusive,
           \A j \in Job : /\ job'[j].message = job[j].message
                          /\ IsActive(j)' => IsActive(j)
                          /\ job'[j].status = "none" => job[j].status = "none",
           \A c \in Client : client'[c] = client[c] \/ client'[c].pc = "idle",
           Typed, ActiveSubmitted'
    PROVE  Exclusive'
<1>1. OneActiveJob'
  BY DEF Exclusive, OneActiveJob, IsActive
<1>2. OneHolder'
  BY DEF Exclusive, OneHolder, Holds
<1>3. SubmitAlone'
  BY DEF Exclusive, SubmitAlone
<1>4. RetryOfRow'
  BY DEF Exclusive, RetryOfRow, Typed, References
<1>5. QED
  BY <1>1, <1>2, <1>3, <1>4 DEF Exclusive

LEMMA ExclusiveInit == Init => Exclusive
BY DEF Init, Exclusive, OneActiveJob, ActiveSubmitted, OneHolder, SubmitAlone,
       RetryOfRow, IsActive, ActiveStatus, Holds

\* A locked message has one holder: a second request waits.
LEMMA LockFree ==
    ASSUME NEW m, ~MessageLocked(m), NEW d \in Client, Holds(d)
    PROVE  client[d].message # m
BY DEF MessageLocked, Holds

LEMMA ExclusiveClient ==
    ASSUME Typed, Exclusive, ClientNext PROVE Exclusive'
<1>1. ASSUME NEW c \in Client, NEW m \in Message, BeginSubmit(c, m) PROVE Exclusive'
  <2>1. \A j \in Job : IsActive(j) => job[j].message # m
    BY <1>1 DEF BeginSubmit, Exclusive, ActiveSubmitted
  <2>2. /\ client'[c] = [pc |-> "submit", message |-> m, job |-> None]
        /\ \A d \in Client : d # c => client'[d] = client[d]
        /\ job' = job /\ msg' = msg
    BY <1>1 DEF BeginSubmit, Typed, TypeOK
  <2>3. OneHolder'
    <3>1. \A d \in Client : d # c /\ Holds(d) => client[d].message # m
      BY <1>1, LockFree DEF BeginSubmit
    <3>2. QED
      BY <2>2, <3>1 DEF OneHolder, Holds, Exclusive
  <2>4. SubmitAlone'
    BY <2>1, <2>2 DEF SubmitAlone, Exclusive, IsActive
  <2>5. OneActiveJob' /\ ActiveSubmitted' /\ RetryOfRow'
    BY <2>2 DEF Exclusive, OneActiveJob, ActiveSubmitted, RetryOfRow, IsActive
  <2>6. QED
    BY <2>3, <2>4, <2>5 DEF Exclusive
<1>2. ASSUME NEW c \in Client, NEW j \in Job, CommitSubmit(c, j) PROVE Exclusive'
  <2> DEFINE m == client[c].message
  <2>1. m \in Message /\ client[c].pc = "submit" /\ job[j].status = "none"
    BY <1>2 DEF CommitSubmit, Typed, References
  <2>2. /\ job'[j].status = "queued" /\ job'[j].message = m
        /\ \A k \in Job : k # j => job'[k] = job[k]
    BY <1>2 DEF CommitSubmit, Typed, TypeOK
  <2>3. /\ client'[c].pc = "idle"
        /\ \A d \in Client : d # c => client'[d] = client[d]
    BY <1>2 DEF CommitSubmit, Idle, Typed, TypeOK
  <2>4. \A k \in Job : IsActive(k) => job[k].message # m
    BY <2>1 DEF Exclusive, SubmitAlone
  <2>5. msg'[m].submitted /\ \A n \in Message : n # m => msg'[n] = msg[n]
    BY <1>2, <2>1 DEF CommitSubmit, Taken, Typed, TypeOK, MsgRow
  <2>6. OneActiveJob'
    BY <2>2, <2>4 DEF Exclusive, OneActiveJob, IsActive
  <2>7. ActiveSubmitted'
    BY <2>2, <2>4, <2>5
       DEF Exclusive, ActiveSubmitted, IsActive, ActiveStatus, Typed, References
  <2>8. OneHolder' /\ RetryOfRow'
    <3>1. OneHolder'
      BY <2>3 DEF Exclusive, OneHolder, Holds
    <3>2. RetryOfRow'
      BY <2>1, <2>2, <2>3 DEF Exclusive, RetryOfRow, Typed, References
    <3>3. QED
      BY <3>1, <3>2
  <2>9. SubmitAlone'
    <3>1. \A d \in Client : d # c /\ client[d].pc = "submit" => client[d].message # m
      BY <2>1 DEF Exclusive, OneHolder, Holds
    <3>2. QED
      BY <2>2, <2>3, <3>1 DEF Exclusive, SubmitAlone, IsActive
  <2>10. QED
    BY <2>6, <2>7, <2>8, <2>9 DEF Exclusive
<1>3. ASSUME NEW c \in Client, NEW j \in Job, BeginRetry(c, j) PROVE Exclusive'
  <2>1. /\ client'[c] = [pc |-> "retry", message |-> job[j].message, job |-> j]
        /\ \A d \in Client : d # c => client'[d] = client[d]
        /\ job' = job /\ msg' = msg /\ job[j].status = "failed"
    BY <1>3 DEF BeginRetry, Typed, TypeOK
  <2>2. RetryOfRow'
    BY <2>1 DEF Exclusive, RetryOfRow
  <2>3. QED
    BY <2>1, <2>2 DEF Exclusive, OneActiveJob, ActiveSubmitted, OneHolder, Holds,
                      SubmitAlone, IsActive
<1>4. ASSUME NEW c \in Client, LockRetry(c) PROVE Exclusive'
  <2>1. /\ client'[c].pc = "retrying" /\ client[c].pc = "retry"
        /\ client'[c].message = client[c].message /\ client'[c].job = client[c].job
        /\ \A d \in Client : d # c => client'[d] = client[d]
        /\ job' = job /\ msg' = msg
    BY <1>4 DEF LockRetry, Typed, TypeOK
  <2>2. OneHolder'
    <3>1. \A d \in Client : Holds(d) => client[d].message # client[c].message
      BY <1>4, LockFree DEF LockRetry
    <3>2. QED
      BY <2>1, <3>1 DEF Exclusive, OneHolder, Holds
  <2>3. QED
    BY <2>1, <2>2 DEF Exclusive, OneActiveJob, ActiveSubmitted, SubmitAlone, IsActive,
                      RetryOfRow
<1>5. ASSUME NEW c \in Client, CommitRetry(c) PROVE Exclusive'
  <2> DEFINE m == client[c].message
             j == client[c].job
  <2>1. /\ m \in Message /\ j \in Job /\ client[c].pc = "retrying"
        /\ job[j].message = m /\ job[j].status = "failed"
    BY <1>5 DEF CommitRetry, MayRetry, Exclusive, RetryOfRow, Typed, References
  <2>2. /\ job'[j].status = "queued" /\ job'[j].message = m
        /\ \A k \in Job : k # j => job'[k] = job[k]
    BY <1>5, <2>1 DEF CommitRetry, Typed, TypeOK, JobRow
  <2>3. /\ client'[c].pc = "idle"
        /\ \A d \in Client : d # c => client'[d] = client[d]
    BY <1>5 DEF CommitRetry, Idle, Typed, TypeOK
  <2>4. \A k \in Job : IsActive(k) => job[k].message # m
    BY <1>5, <2>1 DEF CommitRetry, MayRetry, Active, IsActive
  <2>5. msg'[m].submitted /\ \A n \in Message : n # m => msg'[n] = msg[n]
    BY <1>5, <2>1 DEF CommitRetry, Taken, Typed, TypeOK, MsgRow
  <2>6. OneActiveJob'
    BY <2>2, <2>4 DEF Exclusive, OneActiveJob, IsActive
  <2>7. ActiveSubmitted'
    BY <2>2, <2>4, <2>5
       DEF Exclusive, ActiveSubmitted, IsActive, ActiveStatus, Typed, References
  <2>8. OneHolder' /\ RetryOfRow'
    <3>1. OneHolder'
      BY <2>3 DEF Exclusive, OneHolder, Holds
    <3>2. RetryOfRow'
      BY <2>1, <2>2, <2>3 DEF Exclusive, RetryOfRow, Typed, References
    <3>3. QED
      BY <3>1, <3>2
  <2>9. SubmitAlone'
    <3>1. \A d \in Client : client[d].pc = "submit" => client[d].message # m
      BY <2>1 DEF Exclusive, OneHolder, Holds
    <3>2. QED
      BY <2>2, <2>3, <3>1 DEF Exclusive, SubmitAlone, IsActive
  <2>10. QED
    BY <2>6, <2>7, <2>8, <2>9 DEF Exclusive
<1>6. ASSUME NEW c \in Client, AbandonRequest(c) PROVE Exclusive'
  <2>1. ActiveSubmitted'
    BY <1>6 DEF AbandonRequest, Exclusive, ActiveSubmitted, IsActive
  <2>2. QED
    BY <1>6, <2>1, ExclusiveFrame DEF AbandonRequest, Idle, IsActive, Typed, TypeOK
<1>7. ASSUME NEW m \in Message, DismissMessage(m) \/ Restore(m) \/ ReadMessage(m)
      PROVE Exclusive'
  <2>1. ActiveSubmitted'
    <3>1. ASSUME NEW j \in Job, IsActive(j) PROVE msg'[job[j].message].submitted
      <4>1. job[j].message \in Message /\ msg[job[j].message].submitted
        BY <3>1 DEF IsActive, ActiveStatus, Exclusive, ActiveSubmitted, Typed, References
      <4>2. job[j].message = m => Active(m)
        BY <3>1 DEF Active, IsActive
      <4>3. msg \in [Message -> MsgRow]
        BY DEF Typed, TypeOK
      <4>4. CASE DismissMessage(m)
        <5>1. /\ msg'[m].submitted = msg[m].submitted
              /\ \A n \in Message : n # m => msg'[n] = msg[n]
          BY <4>3, <4>4 DEF DismissMessage, MsgRow
        <5>2. QED
          BY <4>1, <5>1
      <4>5. CASE Restore(m)
        <5>1. /\ msg'[m].submitted = Active(m)
              /\ \A n \in Message : n # m => msg'[n] = msg[n]
          BY <4>3, <4>5 DEF Restore, MsgRow
        <5>2. QED
          BY <4>1, <4>2, <5>1
      <4>6. CASE ReadMessage(m)
        <5>1. /\ msg'[m].submitted = msg[m].submitted
              /\ \A n \in Message : n # m => msg'[n] = msg[n]
          BY <4>3, <4>6 DEF ReadMessage, MsgRow
        <5>2. QED
          BY <4>1, <5>1
      <4>7. QED
        BY <1>7, <4>4, <4>5, <4>6
    <3>2. job' = job
      BY <1>7 DEF DismissMessage, Restore, ReadMessage
    <3>3. QED
      BY <3>1, <3>2 DEF ActiveSubmitted, IsActive
  <2>2. QED
    BY <1>7, <2>1, ExclusiveFrame DEF DismissMessage, Restore, ReadMessage, IsActive
<1>8. ASSUME NEW p \in Plans, EditAutomation(p) PROVE Exclusive'
  BY <1>8, ExclusiveFrame DEF EditAutomation, IsActive, Exclusive, ActiveSubmitted
<1>9. ASSUME NEW j \in Job, DeleteTicket(j) PROVE Exclusive'
  <2>1. \A k \in Job : /\ job'[k].message = job[k].message
                       /\ job'[k].status = job[k].status
    BY <1>9 DEF DeleteTicket, Typed, TypeOK, JobRow
  <2>2. QED
    BY <1>9, <2>1, ExclusiveFrame
       DEF DeleteTicket, IsActive, Exclusive, ActiveSubmitted
<1>10. QED
  BY <1>1, <1>2, <1>3, <1>4, <1>5, <1>6, <1>7, <1>8, <1>9 DEF ClientNext

LEMMA ExclusiveCollector ==
    ASSUME Typed, Exclusive, CollectorNext PROVE Exclusive'
<1>1. /\ job' = job /\ client' = client
  BY DEF CollectorNext, BeginRefresh, CommitRefresh, LinkOnly, AbortRefresh
<1>2. ASSUME NEW j \in Job, IsActive(j) PROVE msg'[job[j].message].submitted
  <2> DEFINE m == job[j].message
  <2>1. m \in Message /\ msg[m].submitted
    BY <1>2 DEF IsActive, ActiveStatus, Exclusive, ActiveSubmitted, Typed, References
  <2>2. CASE msg' = msg
    BY <2>1, <2>2
  <2>3. ASSUME NEW n \in Additions, CommitRefresh(n) PROVE msg'[m].submitted
    <3>1. m = fetching => ApplyUpdate(fetching, n).submitted
      BY <1>2, <2>1 DEF ApplyUpdate, Active, IsActive, Typed, TypeOK, MsgRow
    <3>2. QED
      BY <2>1, <2>3, <3>1 DEF CommitRefresh, Typed, TypeOK
  <2>4. CASE LinkOnly
    BY <2>1, <2>4 DEF LinkOnly, Typed, TypeOK, MsgRow
  <2>5. QED
    BY <2>2, <2>3, <2>4 DEF CollectorNext, BeginRefresh, AbortRefresh
<1>3. ActiveSubmitted'
  BY <1>1, <1>2 DEF ActiveSubmitted, IsActive
<1>4. QED
  BY <1>1, <1>3, ExclusiveFrame DEF IsActive

LEMMA ExclusiveWorker ==
    ASSUME Typed, Exclusive, WorkerNext PROVE Exclusive'
<1>1. ASSUME NEW w \in Worker, NEW j \in Job, PickJob(w, j) PROVE Exclusive'
  <2>1. \A k \in Job : /\ job'[k].message = job[k].message
                       /\ IsActive(k)' <=> IsActive(k)
                       /\ job'[k].status = "none" => job[k].status = "none"
    BY <1>1 DEF PickJob, Pickable, IsActive, ActiveStatus, Typed, TypeOK, JobRow
  <2>2. msg' = msg /\ client' = client
    BY <1>1 DEF PickJob
  <2>3. ActiveSubmitted'
    BY <2>1, <2>2 DEF Exclusive, ActiveSubmitted
  <2>4. QED
    BY <2>1, <2>2, <2>3, ExclusiveFrame
<1>2. ASSUME NEW w \in Worker, ExecuteStep(w) PROVE Exclusive'
  <2>1. worker[w].job \in Job /\ job' = Checkpoint(worker[w].job)
    BY <1>2 DEF ExecuteStep, Running, Typed, References
  <2>2. \A k \in Job : job'[k].message = job[k].message /\ job'[k].status = job[k].status
    BY <2>1 DEF Checkpoint, Stepped, Typed, TypeOK, JobRow
  <2>3. msg' = msg /\ client' = client
    BY <1>2 DEF ExecuteStep
  <2>4. QED
    BY <2>2, <2>3, ExclusiveFrame DEF Exclusive, ActiveSubmitted, IsActive
<1>3. ASSUME NEW w \in Worker, Finish(w) PROVE Exclusive'
  <2> DEFINE j == worker[w].job
             m == job[j].message
  <2>1. j \in Job /\ m \in Message /\ job[j].status = "running"
    BY <1>3 DEF Finish, Closing, Typed, References
  <2>2. \A k \in Job : /\ job'[k].message = job[k].message
                       /\ job'[k].status = "none" => job[k].status = "none"
                       /\ IsActive(k)' => IsActive(k) /\ k # j
    BY <1>3, <2>1 DEF Finish, Outcome, IsActive, ActiveStatus, Typed, TypeOK, JobRow
  <2>3. \A k \in Job : IsActive(k)' => job[k].message # m
    BY <2>1, <2>2 DEF Exclusive, OneActiveJob, IsActive, ActiveStatus
  <2>4. \A n \in Message : n # m => msg'[n] = msg[n]
    BY <1>3 DEF Finish, FinishMessage, Typed, TypeOK
  <2>5. ActiveSubmitted'
    BY <2>2, <2>3, <2>4
       DEF Exclusive, ActiveSubmitted, IsActive, ActiveStatus, Typed, References
  <2>6. client' = client
    BY <1>3 DEF Finish
  <2>7. QED
    BY <2>2, <2>5, <2>6, ExclusiveFrame
<1>4. ASSUME NEW w \in Worker,
             \/ RaiseError(w) \/ FlushStatus(w) \/ DeadlockVictim(w)
             \/ LoseJob(w) \/ Crash(w)
      PROVE Exclusive'
  <2>1. msg' = msg /\ job' = job /\ client' = client
    BY <1>4 DEF RaiseError, FlushStatus, DeadlockVictim, LoseJob, Crash, Release
  <2>2. QED
    BY <2>1, ExclusiveFrame DEF Exclusive, ActiveSubmitted, IsActive
<1>5. QED
  BY <1>1, <1>2, <1>3, <1>4 DEF WorkerNext

LEMMA ExclusiveCleanup ==
    ASSUME Typed, Exclusive, CleanupNext PROVE Exclusive'
<1>1. client' = client
  BY DEF CleanupNext, Expire, BeginCleanup, DeleteMessage, DeleteJobs
<1>2. \A n \in Message : msg'[n].submitted = msg[n].submitted
  <2>1. \/ msg' = msg
        \/ \E m \in Message : \/ msg' = [msg EXCEPT ![m].live = FALSE]
                              \/ msg' = [msg EXCEPT ![m].row = "gone"]
    BY DEF CleanupNext, Expire, BeginCleanup, DeleteMessage, DeleteJobs
  <2>2. ASSUME NEW m \in Message,
               \/ msg' = [msg EXCEPT ![m].live = FALSE]
               \/ msg' = [msg EXCEPT ![m].row = "gone"]
        PROVE  \A n \in Message : msg'[n].submitted = msg[n].submitted
    <3>1. CASE msg' = [msg EXCEPT ![m].live = FALSE]
      BY <3>1 DEF Typed, TypeOK, MsgRow
    <3>2. CASE msg' = [msg EXCEPT ![m].row = "gone"]
      BY <3>2 DEF Typed, TypeOK, MsgRow
    <3>3. QED
      BY <2>2, <3>1, <3>2
  <2>3. QED
    BY <2>1, <2>2
<1>3. \A j \in Job : /\ job'[j].message = job[j].message
                     /\ IsActive(j)' => IsActive(j)
                     /\ job'[j].status = "none" => job[j].status = "none"
  <2>1. job' = job \/ \E rows \in SUBSET Job : job' = Without(rows)
    <3>1. \A m \in Message : Rows(m) \in SUBSET Job
      BY DEF Rows
    <3>2. {j \in Job : Removable(j)} \in SUBSET Job
      OBVIOUS
    <3>3. QED
      BY <3>1, <3>2
         DEF CleanupNext, Expire, BeginCleanup, DeleteMessage, DeleteJobs
  <2>2. QED
    BY <2>1 DEF Without, IsActive, ActiveStatus, Typed, TypeOK, JobRow
<1>4. ActiveSubmitted'
  BY <1>2, <1>3
     DEF Exclusive, ActiveSubmitted, IsActive, ActiveStatus, Typed, References
<1>5. QED
  BY <1>1, <1>3, <1>4, ExclusiveFrame

LEMMA ExclusiveStep == Typed /\ Exclusive /\ [Next]_vars => Exclusive'
<1>1. CASE Next
  BY <1>1, ExclusiveClient, ExclusiveCollector, ExclusiveWorker, ExclusiveCleanup DEF Next
<1>2. CASE UNCHANGED vars
  BY <1>2 DEF vars, Exclusive, OneActiveJob, ActiveSubmitted, OneHolder, SubmitAlone,
              RetryOfRow, IsActive, Holds
<1>3. QED
  BY <1>1, <1>2

\* Two jobs are never active for one message, for any number of concurrent
\* submits, retries, restores, refreshes and cleanups.
THEOREM OneActiveJobAlways == Spec => []OneActiveJob
<1>1. Exclusive => OneActiveJob
  BY DEF Exclusive
<1>2. QED
  BY <1>1, ExclusiveInit, ExclusiveStep, AlwaysTyped, PTL DEF Spec

-----------------------------------------------------------------------------
(* One running job *)

\* What one step can do to one job row.
JobMoves(j) ==
    \/ job'[j] = job[j]
    \/ /\ job[j].status = "none" /\ job'[j].status = "queued" /\ job'[j].step = 0
       /\ job'[j].steps \in Plans
    \/ /\ job[j].status = "failed" /\ job'[j].status = "queued"
       /\ job'[j].step = job[j].step /\ job'[j].steps = plan /\ PrefixKept(j)
    \/ /\ Pickable(j) /\ job'[j].status = "running"
       /\ job'[j].step = job[j].step /\ job'[j].steps = job[j].steps
       /\ \A k \in Job : k # j => job'[k] = job[k]
    \/ /\ job'[j].status = job[j].status /\ job'[j].steps = job[j].steps
       /\ job[j].status = "running"
       /\ job[j].step < Len(job[j].steps) /\ job'[j].step = job[j].step + 1
    \/ /\ \/ job'[j].status = job[j].status
          \/ job[j].status # "none" /\ job'[j].status \in {"completed", "failed", "gone"}
       /\ job'[j].step = job[j].step /\ job'[j].steps = job[j].steps

LEMMA JobStep ==
    ASSUME Typed, Next PROVE \A j \in Job : JobMoves(j)
<1>1. CASE job' = job
  BY <1>1 DEF JobMoves
<1>2. ASSUME NEW c \in Client, NEW k \in Job, CommitSubmit(c, k)
      PROVE  \A j \in Job : JobMoves(j)
  BY <1>2 DEF CommitSubmit, JobMoves, Typed, TypeOK
<1>3. ASSUME NEW c \in Client, CommitRetry(c)
      PROVE  \A j \in Job : JobMoves(j)
  BY <1>3 DEF CommitRetry, MayRetry, JobMoves, Typed, TypeOK, References, JobRow
<1>4. ASSUME NEW k \in Job, DeleteTicket(k)
      PROVE  \A j \in Job : JobMoves(j)
  <2>1. \A j \in Job : /\ job'[j].status = job[j].status /\ job'[j].step = job[j].step
                       /\ job'[j].steps = job[j].steps
                       /\ j # k => job'[j] = job[j]
    BY <1>4 DEF DeleteTicket, Typed, TypeOK, JobRow
  <2>2. QED
    BY <2>1 DEF JobMoves
<1>5. ASSUME NEW w \in Worker, NEW k \in Job, PickJob(w, k)
      PROVE  \A j \in Job : JobMoves(j)
  BY <1>5 DEF PickJob, JobMoves, Typed, TypeOK, JobRow
<1>6. ASSUME NEW w \in Worker, ExecuteStep(w)
      PROVE  \A j \in Job : JobMoves(j)
  BY <1>6 DEF ExecuteStep, Running, Checkpoint, Stepped, JobMoves, Typed, TypeOK,
              References, JobRow
<1>7. ASSUME NEW w \in Worker, Finish(w)
      PROVE  \A j \in Job : JobMoves(j)
  BY <1>7 DEF Finish, Closing, Outcome, JobMoves, Typed, TypeOK, References, JobRow
<1>8. ASSUME NEW rows \in SUBSET {j \in Job : job[j].status # "none"}, job' = Without(rows)
      PROVE  \A j \in Job : JobMoves(j)
  BY <1>8 DEF Without, JobMoves, Typed, TypeOK, JobRow
<1>9. CASE ClientNext
  BY <1>1, <1>2, <1>3, <1>4, <1>9
     DEF ClientNext, BeginSubmit, BeginRetry, LockRetry, AbandonRequest,
         DismissMessage, Restore, ReadMessage, EditAutomation
<1>10. CASE CollectorNext
  BY <1>1, <1>10 DEF CollectorNext, BeginRefresh, CommitRefresh, LinkOnly, AbortRefresh
<1>11. CASE WorkerNext
  BY <1>1, <1>5, <1>6, <1>7, <1>11
     DEF WorkerNext, RaiseError, FlushStatus, DeadlockVictim, LoseJob, Crash, Release
<1>12. CASE CleanupNext
  <2>1. \A m \in Message : Rows(m) \in SUBSET {j \in Job : job[j].status # "none"}
    BY DEF Rows
  <2>2. {j \in Job : Removable(j)} \in SUBSET {j \in Job : job[j].status # "none"}
    BY DEF Removable
  <2>3. QED
    BY <1>1, <1>8, <1>12, <2>1, <2>2
       DEF CleanupNext, Expire, BeginCleanup, DeleteMessage, DeleteJobs
<1>13. QED
  BY <1>9, <1>10, <1>11, <1>12 DEF Next

\* A running row left by a crash is taken over before any other row starts: at
\* most one job is running, for any number of workers and crashes.
THEOREM OneRunningJobAlways == Spec => []OneRunningJob
<1>1. Init => OneRunningJob
  BY DEF Init, OneRunningJob
<1>2. Typed /\ OneRunningJob /\ [Next]_vars => OneRunningJob'
  <2>1. CASE Typed /\ OneRunningJob /\ Next
    BY <2>1, JobStep DEF JobMoves, Pickable, OneRunningJob
  <2>2. CASE OneRunningJob /\ UNCHANGED vars
    BY <2>2 DEF OneRunningJob, vars
  <2>3. QED
    BY <2>1, <2>2
<1>3. QED
  BY <1>1, <1>2, AlwaysTyped, PTL DEF Spec

\* Whatever the automation becomes between a failure and its retry, executed
\* steps are neither replaced nor skipped nor executed again.
THEOREM CompletedPrefixFixedAlways == Spec => CompletedPrefixFixed
<1> DEFINE Kept == \A j \in Job : job[j].status # "none" =>
                     /\ job'[j].step \in {job[j].step, job[j].step + 1}
                     /\ \A i \in 1..job[j].step : job'[j].steps[i] = job[j].steps[i]
<1>1. Typed /\ [Next]_vars => [Kept]_job
  <2>1. ASSUME Typed, Next PROVE Kept
    BY <2>1, JobStep DEF JobMoves, PrefixKept
  <2>2. QED
    BY <2>1 DEF vars
<1>2. QED
  BY <1>1, AlwaysTyped, PTL DEF Spec, CompletedPrefixFixed

\* A request that acts on a status it read before locking never queues a job
\* that is queued, running or completed, and no ended job runs without a retry.
THEOREM OnlyFailedRequeuedAlways == Spec => OnlyFailedRequeued
<1> DEFINE Legal == \A j \in Job :
                      /\ job'[j].status = "queued" /\ job[j].status # "queued"
                            => job[j].status \in {"none", "failed"}
                      /\ job'[j].status = "running" => job[j].status \in ActiveStatus
<1>1. Typed /\ [Next]_vars => [Legal]_job
  <2>1. ASSUME Typed, Next PROVE Legal
    BY <2>1, JobStep DEF JobMoves, Pickable, ActiveStatus
  <2>2. QED
    BY <2>1 DEF vars
<1>2. QED
  BY <1>1, AlwaysTyped, PTL DEF Spec, OnlyFailedRequeued

-----------------------------------------------------------------------------
(* One ticket per job *)

LEMMA CheckpointedInit == Init => Checkpointed
BY DEF Init, Checkpointed, TicketOfStep

LEMMA CheckpointedStep == Typed /\ Checkpointed /\ [Next]_vars => Checkpointed'
<1>1. ASSUME Typed, Checkpointed, NEW w \in Worker, ExecuteStep(w) PROVE Checkpointed'
  <2>0. PICK j \in Job : j = worker[w].job
    BY <1>1 DEF ExecuteStep, Running, Typed, References
  <2>1. /\ TicketOfStep(j) /\ job[j].status = "running" /\ job[j].step < Len(job[j].steps)
        /\ job' = Checkpoint(j) /\ job[j].step \in Nat
    BY <1>1, <2>0 DEF ExecuteStep, Running, Checkpointed, Typed, TypeOK, JobRow
  <2>2. /\ job'[j].step = job[j].step + 1 /\ job'[j].steps = job[j].steps
        /\ job'[j].status = job[j].status
        /\ \A k \in Job : k # j => job'[k] = job[k]
    BY <1>1, <2>1 DEF Checkpoint, Stepped, Typed, TypeOK, JobRow
  <2>3. \A k \in Job : k # j => made'[k] = made[k]
    BY <1>1, <2>0 DEF ExecuteStep, Typed, TypeOK
  <2>4. CASE CreatesTicket(j)
    <3>1. job[j].steps \in Plans /\ OneTicketStep(job[j].steps)
      BY <2>1, PlansAssumption, <1>1 DEF Typed, References
    <3>2. Len(job[j].steps) \in Nat
      BY <3>1, PlansAssumption
    <3>3. made[j] # 1
      BY <2>1, <2>4, <3>1, <3>2 DEF TicketOfStep, CreatesTicket, OneTicketStep
    <3>4. made'[j] = 1
      BY <1>1, <2>0, <2>1, <2>4, <3>3 DEF ExecuteStep, TicketOfStep, Typed, TypeOK
    <3>5. \E i \in 1..job'[j].step : job'[j].steps[i] = "ticket"
      BY <2>1, <2>2, <2>4 DEF CreatesTicket
    <3>6. job'[j].step <= Len(job'[j].steps)
      BY <2>1, <2>2, <3>2
    <3>7. TicketOfStep(j)'
      BY <2>1, <2>2, <3>4, <3>5, <3>6 DEF TicketOfStep
    <3>8. QED
      BY <1>1, <2>2, <2>3, <3>7 DEF Checkpointed, TicketOfStep
  <2>5. CASE ~CreatesTicket(j)
    <3>1. made' = made
      BY <1>1, <2>0, <2>5 DEF ExecuteStep
    <3>2. Len(job[j].steps) \in Nat
      BY <1>1, <2>1, PlansAssumption DEF Typed, References
    <3>3. QED
      <4>1. TicketOfStep(j)'
        BY <2>1, <2>2, <3>1, <3>2 DEF TicketOfStep
      <4>2. QED
        BY <1>1, <2>2, <3>1, <4>1 DEF Checkpointed, TicketOfStep
  <2>6. QED
    BY <2>4, <2>5
<1>2. ASSUME Typed, Checkpointed, Next, made' = made PROVE Checkpointed'
  <2>1. \A p \in Plans : Len(p) \in Nat
    BY PlansAssumption
  <2>2. ASSUME NEW j \in Job PROVE TicketOfStep(j)'
    <3>1. JobMoves(j) /\ job[j].step \in Nat /\ TicketOfStep(j)
      BY <1>2, JobStep DEF Checkpointed, Typed, TypeOK, JobRow
    <3>2. /\ job[j].status # "none" => job[j].steps \in Plans
          /\ plan \in Plans
      BY <1>2 DEF Typed, TypeOK, References
    <3>3. CASE job[j].status = "none"
      BY <1>2, <2>1, <3>1, <3>3 DEF TicketOfStep, JobMoves, Pickable
    <3>4. CASE job[j].status # "none"
      BY <1>2, <2>1, <3>1, <3>2, <3>4 DEF TicketOfStep, JobMoves, PrefixKept
    <3>5. QED
      BY <3>3, <3>4
  <2>3. QED
    BY <2>2 DEF Checkpointed
<1>3. ASSUME Next, made' # made PROVE \E w \in Worker : ExecuteStep(w)
  BY <1>3 DEF Next, ClientNext, CollectorNext, WorkerNext, CleanupNext, BeginSubmit,
     CommitSubmit, BeginRetry, LockRetry, CommitRetry, AbandonRequest, DismissMessage,
     Restore, ReadMessage, EditAutomation, DeleteTicket, BeginRefresh, CommitRefresh,
     LinkOnly, AbortRefresh, PickJob, RaiseError, FlushStatus, Finish, DeadlockVictim,
     LoseJob, Crash, Release, Expire, BeginCleanup, DeleteMessage, DeleteJobs
<1>4. CASE Checkpointed /\ UNCHANGED vars
  BY <1>4 DEF Checkpointed, TicketOfStep, vars
<1>5. QED
  BY <1>1, <1>2, <1>3, <1>4

\* No job creates two tickets, although a step may be repeated by a restart,
\* the ticket deleted and the automation edited before a retry.
THEOREM TicketOnceAlways == Spec => []TicketOnce
<1>1. Checkpointed => TicketOnce
  BY DEF Checkpointed, TicketOfStep, TicketOnce
<1>2. QED
  BY <1>1, CheckpointedInit, CheckpointedStep, AlwaysTyped, PTL DEF Spec

-----------------------------------------------------------------------------
(* The refinement of UpdateInbox *)

\* Every step of requests, the worker, a refresh and the cleanup is one of the inbox, or a
\* stutter.  What a message is in the inbox is what its row and its jobs show; what the
\* steps need besides is that a row does not change under the lock of its owner (Locked).
Shown(m) ==
    IF msg[m].row # "present" THEN msg[m].row
    ELSE IF msg[m].dismissed THEN "dismissed"
    ELSE IF msg[m].submitted THEN "taken" ELSE "offered"

Answered(m) == \E j \in Job : job[j].message = m /\ job[j].input >= msg[m].revision

\* Who owns a message's row lock finds the row as it was when the lock was granted: a
\* submit an offered message, a retry and a refresh one that the cleanup did not delete.
Locked ==
    /\ \A c \in Client :
           /\ Holds(c) => /\ msg[client[c].message].row = "present"
                          /\ fetching # client[c].message
           /\ client[c].pc = "submit" => /\ ~msg[client[c].message].submitted
                                         /\ ~msg[client[c].message].dismissed
    /\ fetching # None => msg[fetching].row # "gone"

\* A message is only taken or dismissed while it is there, has active jobs only then, and
\* no job has read a revision that is still to come.
Present ==
    /\ \A m \in Message :
           /\ msg[m].row = "absent" => ~msg[m].submitted /\ ~msg[m].dismissed
           /\ m \in victims => msg[m].row = "present"
    /\ \A j \in Job : IsActive(j) => msg[job[j].message].row = "present"

InputsRead ==
    \A j \in Job : /\ job[j].status = "none" => job[j].message = None
                   /\ job[j].message \in Message =>
                          job[j].input <= msg[job[j].message].revision

Mapped == Typed /\ Exclusive /\ Locked /\ Present /\ InputsRead

\* A step leaves alone what the inbox shows of a message.
Same(m) ==
    /\ Shown(m)' = Shown(m)
    /\ Active(m)' <=> Active(m)
    /\ Answered(m)' <=> Answered(m)

Others(m) == \A k \in Message \ {m} : Same(k)

\* What the provers need to compare functions whose values are predicates.
LEMMA Booleans ==
    /\ \A k \in Message : Active(k) \in BOOLEAN /\ Answered(k) \in BOOLEAN
    /\ \A k \in Message : Active(k)' \in BOOLEAN /\ Answered(k)' \in BOOLEAN
BY DEF Active, Answered

LEMMA Stutters ==
    ASSUME \A k \in Message : Same(k)
    PROVE  UNCHANGED Inbox!vars
<1>1. [k \in Message |-> Shown(k)]' = [k \in Message |-> Shown(k)]
  BY DEF Same
<1>2. [k \in Message |-> Active(k)]' = [k \in Message |-> Active(k)]
  BY Booleans DEF Same
<1>3. [k \in Message |-> Answered(k)]' = [k \in Message |-> Answered(k)]
  BY Booleans DEF Same
<1>4. QED
  BY <1>1, <1>2, <1>3, Zenon DEF Inbox!vars, Shown, Answered

LEMMA Arrives ==
    ASSUME NEW m \in Message, Others(m), Shown(m) # "gone",
           ~Answered(m)', Active(m)' <=> Active(m),
           Shown(m)' = IF Shown(m) = "dismissed" \/ (Shown(m) = "taken" /\ Active(m))
                       THEN Shown(m) ELSE "offered"
    PROVE  Inbox!Arrive(m)
<1>1. [k \in Message |-> Shown(k)]' =
        [[k \in Message |-> Shown(k)] EXCEPT
           ![m] = IF @ = "dismissed" \/ (@ = "taken" /\ Active(m)) THEN @ ELSE "offered"]
  BY DEF Same, Others
<1>2. [k \in Message |-> Active(k)]' = [k \in Message |-> Active(k)]
  BY Booleans DEF Same, Others
<1>3. [k \in Message |-> Answered(k)]' =
        [[k \in Message |-> Answered(k)] EXCEPT ![m] = FALSE]
  BY Booleans DEF Same, Others
<1>4. QED
  BY <1>1, <1>2, <1>3 DEF Inbox!Arrive, Shown, Answered

LEMMA Takes ==
    ASSUME NEW m \in Message, Others(m),
           Shown(m) \in {"offered", "taken"}, ~Active(m),
           Shown(m)' = "taken", Active(m)',
           Answered(m)' \/ (Answered(m)' <=> Answered(m))
    PROVE  Inbox!Take(m)
<1>1. [k \in Message |-> Shown(k)]' =
        [[k \in Message |-> Shown(k)] EXCEPT ![m] = "taken"]
  BY DEF Same, Others
<1>2. [k \in Message |-> Active(k)]' =
        [[k \in Message |-> Active(k)] EXCEPT ![m] = TRUE]
  BY Booleans DEF Same, Others
<1>3. PICK a \in {TRUE, Answered(m)} : a = Answered(m)'
  BY Booleans
<1>4. [k \in Message |-> Answered(k)]' =
        [[k \in Message |-> Answered(k)] EXCEPT ![m] = a]
  BY <1>3, Booleans DEF Same, Others
<1>5. a \in {TRUE, [k \in Message |-> Answered(k)][m]}
  BY <1>3
<1>6. QED
  BY <1>1, <1>2, <1>4, <1>5 DEF Inbox!Take, Shown, Answered

LEMMA Ends ==
    ASSUME NEW m \in Message, Others(m), Active(m), ~Active(m)',
           Answered(m)' <=> Answered(m),
           \/ Shown(m)' = Shown(m) /\ (Answered(m) \/ Shown(m) = "dismissed")
           \/ Shown(m)' = "offered" /\ Shown(m) = "taken"
    PROVE  Inbox!End(m)
<1>1. [k \in Message |-> Active(k)]' =
        [[k \in Message |-> Active(k)] EXCEPT ![m] = FALSE]
  BY Booleans DEF Same, Others
<1>2. [k \in Message |-> Answered(k)]' = [k \in Message |-> Answered(k)]
  BY Booleans DEF Same, Others
<1>3. CASE Shown(m)' = Shown(m) /\ (Answered(m) \/ Shown(m) = "dismissed")
  <2>1. [k \in Message |-> Shown(k)]' = [k \in Message |-> Shown(k)]
    BY <1>3 DEF Same, Others
  <2>2. QED
    BY <1>1, <1>2, <1>3, <2>1 DEF Inbox!End, Shown, Answered
<1>4. CASE Shown(m)' = "offered" /\ Shown(m) = "taken"
  <2>1. [k \in Message |-> Shown(k)]' =
          [[k \in Message |-> Shown(k)] EXCEPT ![m] = "offered"]
    BY <1>4 DEF Same, Others
  <2>2. QED
    BY <1>1, <1>2, <1>4, <2>1 DEF Inbox!End, Shown, Answered
<1>5. QED
  BY <1>3, <1>4

LEMMA Dismisses ==
    ASSUME NEW m \in Message, Others(m),
           Shown(m) \in {"offered", "taken", "dismissed"}, Shown(m)' = "dismissed",
           Active(m)' <=> Active(m), Answered(m)' <=> Answered(m)
    PROVE  Inbox!Dismiss(m)
<1>1. [k \in Message |-> Shown(k)]' =
        [[k \in Message |-> Shown(k)] EXCEPT ![m] = "dismissed"]
  BY DEF Same, Others
<1>2. [k \in Message |-> Active(k)]' = [k \in Message |-> Active(k)]
  BY Booleans DEF Same, Others
<1>3. [k \in Message |-> Answered(k)]' = [k \in Message |-> Answered(k)]
  BY Booleans DEF Same, Others
<1>4. QED
  BY <1>1, <1>2, <1>3 DEF Inbox!Dismiss, Inbox!Present, Shown, Answered

LEMMA Restores ==
    ASSUME NEW m \in Message, Others(m),
           Shown(m) \in {"offered", "taken", "dismissed"},
           Shown(m)' = IF Active(m) THEN "taken" ELSE "offered",
           Active(m)' <=> Active(m), Answered(m)' <=> Answered(m)
    PROVE  Inbox!Restore(m)
<1>1. [k \in Message |-> Shown(k)]' =
        [[k \in Message |-> Shown(k)] EXCEPT ![m] = IF Active(m) THEN "taken" ELSE "offered"]
  BY DEF Same, Others
<1>2. [k \in Message |-> Active(k)]' = [k \in Message |-> Active(k)]
  BY Booleans DEF Same, Others
<1>3. [k \in Message |-> Answered(k)]' = [k \in Message |-> Answered(k)]
  BY Booleans DEF Same, Others
<1>4. QED
  BY <1>1, <1>2, <1>3 DEF Inbox!Restore, Inbox!Present, Shown, Answered

LEMMA Drops ==
    ASSUME NEW m \in Message, Others(m),
           Shown(m) \in {"offered", "taken", "dismissed"}, Shown(m)' = "gone",
           ~Active(m)', Answered(m)' <=> Answered(m)
    PROVE  Inbox!Drop(m)
<1>1. [k \in Message |-> Shown(k)]' =
        [[k \in Message |-> Shown(k)] EXCEPT ![m] = "gone"]
  BY DEF Same, Others
<1>2. [k \in Message |-> Active(k)]' =
        [[k \in Message |-> Active(k)] EXCEPT ![m] = FALSE]
  BY Booleans DEF Same, Others
<1>3. [k \in Message |-> Answered(k)]' = [k \in Message |-> Answered(k)]
  BY Booleans DEF Same, Others
<1>4. QED
  BY <1>1, <1>2, <1>3 DEF Inbox!Drop, Inbox!Present, Shown, Answered

-----------------------------------------------------------------------------
(* Steps the inbox does not see *)

\* A step that changes neither what a message shows nor which jobs work on what.
Quiet ==
    /\ \A j \in Job : /\ job'[j].message = job[j].message /\ job'[j].input = job[j].input
                      /\ IsActive(j)' <=> IsActive(j)
                      /\ job'[j].status = "none" => job[j].status = "none"
    /\ \A m \in Message : /\ msg'[m].row = msg[m].row /\ msg'[m].revision = msg[m].revision
                          /\ msg'[m].submitted = msg[m].submitted
                          /\ msg'[m].dismissed = msg[m].dismissed

LEMMA QuietStutters ==
    ASSUME Quiet
    PROVE  UNCHANGED Inbox!vars
<1>1. ASSUME NEW m \in Message
      PROVE  Same(m)
  <2>1. Shown(m)' = Shown(m)
    BY DEF Quiet, Shown
  <2>2. Active(m)' <=> Active(m)
    BY DEF Quiet, Active, IsActive
  <2>3. Answered(m)' <=> Answered(m)
    BY DEF Quiet, Answered
  <2>4. QED
    BY <2>1, <2>2, <2>3 DEF Same
<1>2. QED
  BY <1>1, Stutters

\* The quiet steps that grant no lock keep the invariant.
LEMMA QuietMapped ==
    ASSUME Mapped, Quiet,
           \A c \in Client : Holds(c)' => client'[c] = client[c],
           fetching' \in {fetching, None}, victims' \subseteq victims
    PROVE  (Locked /\ Present /\ InputsRead)'
<1>1. \A c \in Client : Holds(c)' => Holds(c) /\ client[c].message \in Message
  BY DEF Holds, Mapped, Typed, References
<1>2. fetching # None => fetching \in Message
  BY DEF Mapped, Typed, TypeOK
<1>3. Locked'
  <2>1. ASSUME NEW c \in Client, Holds(c)'
        PROVE  /\ msg'[client'[c].message].row = "present"
               /\ fetching' # client'[c].message
    BY <1>1, <2>1, NoneAssumption DEF Mapped, Locked, Quiet
  <2>2. ASSUME NEW c \in Client, client'[c].pc = "submit"
        PROVE  /\ ~msg'[client'[c].message].submitted
               /\ ~msg'[client'[c].message].dismissed
    <3>1. Holds(c)'
      BY <2>2 DEF Holds
    <3>2. QED
      BY <1>1, <2>2, <3>1 DEF Mapped, Locked, Quiet
  <2>3. fetching' # None => msg'[fetching'].row # "gone"
    BY <1>2 DEF Mapped, Locked, Quiet
  <2>4. QED
    BY <2>1, <2>2, <2>3 DEF Locked
<1>4. Present'
  <2>1. \A j \in Job : IsActive(j) => job[j].message \in Message
    BY DEF IsActive, ActiveStatus, Mapped, Typed, References
  <2>2. QED
    BY <2>1 DEF Mapped, Present, Quiet
<1>5. InputsRead'
  <2>1. ASSUME NEW j \in Job
        PROVE  /\ job'[j].status = "none" => job'[j].message = None
               /\ job'[j].message \in Message =>
                      job'[j].input <= msg'[job'[j].message].revision
    <3>1. /\ job'[j].message = job[j].message /\ job'[j].input = job[j].input
          /\ job'[j].status = "none" => job[j].status = "none"
      BY DEF Quiet
    <3>2. \A m \in Message : msg'[m].revision = msg[m].revision
      BY DEF Quiet
    <3>3. /\ job[j].status = "none" => job[j].message = None
          /\ job[j].message \in Message => job[j].input <= msg[job[j].message].revision
      BY DEF Mapped, InputsRead
    <3>4. QED
      BY <3>1, <3>2, <3>3
  <2>2. QED
    BY <2>1 DEF InputsRead
<1>6. QED
  BY <1>3, <1>4, <1>5

\* Rows that keep the fields the inbox reads.
LEMMA QuietRows ==
    ASSUME Typed,
           \/ msg' = msg
           \/ \E m \in Message : \/ msg' = [msg EXCEPT ![m].is_read = TRUE]
                                 \/ \E b \in BOOLEAN : msg' = [msg EXCEPT ![m].live = b],
           \/ job' = job
           \/ \E j \in Job : job' = [job EXCEPT ![j].ticket = FALSE] \/ job' = Checkpoint(j)
           \/ \E j \in Job : IsActive(j) /\ job' = [job EXCEPT ![j].status = "running"]
           \/ \E js \in SUBSET {j \in Job : ~IsActive(j)} : job' = Without(js)
    PROVE  Quiet
<1>1. \A m \in Message : /\ msg'[m].row = msg[m].row /\ msg'[m].revision = msg[m].revision
                         /\ msg'[m].submitted = msg[m].submitted
                         /\ msg'[m].dismissed = msg[m].dismissed
  <2>1. CASE msg' = msg
    BY <2>1
  <2>2. ASSUME NEW m \in Message, msg' = [msg EXCEPT ![m].is_read = TRUE]
        PROVE  <1>1!:
    BY <2>2 DEF Typed, TypeOK, MsgRow
  <2>3. ASSUME NEW m \in Message, NEW b \in BOOLEAN, msg' = [msg EXCEPT ![m].live = b]
        PROVE  <1>1!:
    BY <2>3 DEF Typed, TypeOK, MsgRow
  <2>4. QED
    BY <2>1, <2>2, <2>3
<1>2. \A j \in Job : /\ job'[j].message = job[j].message /\ job'[j].input = job[j].input
                     /\ IsActive(j)' <=> IsActive(j)
                     /\ job'[j].status = "none" => job[j].status = "none"
  <2>1. CASE job' = job
    BY <2>1 DEF IsActive
  <2>2. ASSUME NEW j \in Job, job' = [job EXCEPT ![j].ticket = FALSE] \/ job' = Checkpoint(j)
        PROVE  <1>2!:
    <3>1. \A k \in Job \ {j} : job'[k] = job[k]
      BY <2>2 DEF Checkpoint, Typed, TypeOK
    <3>2. \/ job'[j] = [job[j] EXCEPT !.ticket = FALSE]
          \/ job'[j] = Stepped(job[j])
      BY <2>2 DEF Checkpoint, Typed, TypeOK
    <3>3. job[j] \in JobRow
      BY DEF Typed, TypeOK
    <3>4. /\ job'[j].message = job[j].message /\ job'[j].input = job[j].input
          /\ job'[j].status = job[j].status
      BY <3>2, <3>3 DEF Stepped, JobRow
    <3>5. QED
      BY <3>1, <3>4 DEF IsActive
  <2>3. ASSUME NEW j \in Job, IsActive(j), job' = [job EXCEPT ![j].status = "running"]
        PROVE  <1>2!:
    BY <2>3 DEF IsActive, ActiveStatus, Typed, TypeOK, JobRow
  <2>4. ASSUME NEW js \in SUBSET {j \in Job : ~IsActive(j)}, job' = Without(js)
        PROVE  <1>2!:
    BY <2>4 DEF Without, IsActive, ActiveStatus, Typed, TypeOK, JobRow
  <2>5. QED
    BY <2>1, <2>2, <2>3, <2>4
<1>3. QED
  BY <1>1, <1>2 DEF Quiet

-----------------------------------------------------------------------------
(* Every step of the workbench is a step of the inbox or none *)

Maps ==
    /\ (Locked /\ Present /\ InputsRead)'
    /\ Inbox!Next \/ UNCHANGED Inbox!vars

LEMMA QuietMaps ==
    ASSUME Mapped, Quiet,
           \A c \in Client : Holds(c)' => client'[c] = client[c],
           fetching' \in {fetching, None}, victims' \subseteq victims
    PROVE  Maps
BY QuietMapped, QuietStutters DEF Maps

\* The lock of a message is granted when nobody else holds it.
LEMMA SubmitMaps ==
    ASSUME Mapped, NEW c \in Client, NEW m \in Message, BeginSubmit(c, m)
    PROVE  Maps
<1>1. /\ client'[c] = [pc |-> "submit", message |-> m, job |-> None]
      /\ \A d \in Client \ {c} : client'[d] = client[d]
      /\ UNCHANGED <<msg, job, fetching, victims>>
  BY DEF BeginSubmit, Mapped, Typed, TypeOK
<1>2. fetching # m /\ msg[m].row = "present" /\ ~msg[m].submitted /\ ~msg[m].dismissed
  BY DEF BeginSubmit, MessageLocked, Unexpired
<1>3. Locked'
  BY <1>1, <1>2 DEF Locked, Holds, Mapped
<1>4. Present' /\ InputsRead'
  BY <1>1 DEF Present, InputsRead, IsActive, Mapped
<1>5. Quiet
  BY <1>1 DEF Quiet, IsActive
<1>6. QED
  BY <1>3, <1>4, <1>5, QuietStutters DEF Maps

LEMMA LockRetryMaps ==
    ASSUME Mapped, NEW c \in Client, LockRetry(c)
    PROVE  Maps
<1>1. /\ client'[c].pc = "retrying" /\ client'[c].message = client[c].message
      /\ \A d \in Client \ {c} : client'[d] = client[d]
      /\ UNCHANGED <<msg, job, fetching, victims>>
  BY DEF LockRetry, Mapped, Typed, TypeOK
<1>2. fetching # client[c].message /\ msg[client[c].message].row = "present"
  BY DEF LockRetry, MessageLocked
<1>3. Locked'
  BY <1>1, <1>2 DEF Locked, Holds, Mapped
<1>4. Present' /\ InputsRead'
  BY <1>1 DEF Present, InputsRead, IsActive, Mapped
<1>5. Quiet
  BY <1>1 DEF Quiet, IsActive
<1>6. QED
  BY <1>3, <1>4, <1>5, QuietStutters DEF Maps

\* A request that commits turns job j of message m active and takes the message.
LEMMA TakeMaps ==
    ASSUME Mapped, NEW c \in Client, NEW m \in Message, NEW j \in Job,
           Holds(c), client[c].message = m, client'[c].pc = "idle",
           \A d \in Client \ {c} : client'[d] = client[d],
           ~Active(m), ~msg[m].dismissed, msg' = [msg EXCEPT ![m] = Taken(@)],
           \A k \in Job \ {j} : job'[k] = job[k],
           job'[j].status = "queued", job'[j].message = m,
           \/ job[j].status = "none" /\ job'[j].input = msg[m].revision
           \/ ~IsActive(j) /\ job[j].message = m /\ job'[j].input = job[j].input,
           UNCHANGED <<fetching, victims>>
    PROVE  Maps
<1>1. /\ msg'[m].row = msg[m].row /\ msg'[m].revision = msg[m].revision
      /\ msg'[m].submitted /\ msg'[m].dismissed = msg[m].dismissed
      /\ \A k \in Message \ {m} : msg'[k] = msg[k]
      /\ \A k \in Message : msg[k].revision \in Nat
  BY DEF Taken, Mapped, Typed, TypeOK, MsgRow
<1>2. msg[m].row = "present" /\ fetching # m
  BY DEF Mapped, Locked
<1>3. Locked'
  <2>1. \A d \in Client : Holds(d)' =>
            /\ d # c /\ Holds(d) /\ client'[d] = client[d]
            /\ client[d].message \in Message \ {m}
    BY DEF Holds, Mapped, Exclusive, OneHolder, Typed, References
  <2>2. \A d \in Client : client'[d].pc = "submit" => Holds(d)'
    BY DEF Holds
  <2>3. fetching # None => fetching \in Message
    BY DEF Mapped, Typed, TypeOK
  <2>4. QED
    BY <1>1, <2>1, <2>2, <2>3 DEF Mapped, Locked
<1>4. Present'
  <2>1. \A k \in Job : IsActive(k)' => k = j \/ IsActive(k)
    BY DEF IsActive
  <2>2. \A k \in Job : IsActive(k) => job[k].message \in Message
    BY DEF IsActive, ActiveStatus, Mapped, Typed, References
  <2>3. QED
    BY <1>1, <1>2, <2>1, <2>2 DEF Mapped, Present
<1>5. InputsRead'
  <2>1. job'[j].input <= msg'[m].revision
    <3>1. CASE job'[j].input = msg[m].revision
      BY <1>1, <3>1
    <3>2. CASE job[j].message = m /\ job'[j].input = job[j].input
      BY <1>1, <3>2 DEF Mapped, InputsRead
    <3>3. QED
      BY <3>1, <3>2
  <2>2. QED
    BY <1>1, <2>1 DEF Mapped, InputsRead
<1>6. Others(m)
  <2>1. ASSUME NEW k \in Message \ {m}
        PROVE  Same(k)
    <3>1. job[j].message # k
      <4>1. job[j].message = None \/ job[j].message = m
        BY DEF Mapped, InputsRead
      <4>2. QED
        BY <4>1, NoneAssumption
    <3>2. Shown(k)' = Shown(k)
      BY <1>1 DEF Shown
    <3>3. Active(k)' <=> Active(k)
      BY <3>1 DEF Active
    <3>4. Answered(k)' <=> Answered(k)
      BY <1>1, <3>1 DEF Answered
    <3>5. QED
      BY <3>2, <3>3, <3>4 DEF Same
  <2>2. QED
    BY <2>1 DEF Others
<1>7. Shown(m) \in {"offered", "taken"} /\ Shown(m)' = "taken"
  BY <1>1, <1>2 DEF Shown
<1>8. Active(m)'
  BY DEF Active, ActiveStatus
<1>9. Answered(m)' \/ (Answered(m)' <=> Answered(m))
  <2>1. CASE job[j].status = "none" /\ job'[j].input = msg[m].revision
    BY <1>1, <2>1 DEF Answered
  <2>2. CASE ~IsActive(j) /\ job[j].message = m /\ job'[j].input = job[j].input
    <3>1. \A k \in Job : job'[k].message = job[k].message /\ job'[k].input = job[k].input
      BY <2>2
    <3>2. QED
      BY <1>1, <3>1 DEF Answered
  <2>3. QED
    BY <2>1, <2>2
<1>10. Inbox!Take(m)
  BY <1>6, <1>7, <1>8, <1>9, Takes
<1>11. QED
  BY <1>3, <1>4, <1>5, <1>10 DEF Maps, Inbox!Next

\* dismiss and restore find the message unlocked.
LEMMA DismissMaps ==
    ASSUME Mapped, NEW m \in Message, DismissMessage(m) \/ Restore(m)
    PROVE  Maps
<1>1. /\ msg[m].row = "present" /\ ~MessageLocked(m)
      /\ UNCHANGED <<job, client, fetching, victims>>
  BY DEF DismissMessage, Restore, Unexpired
<1>2. /\ msg'[m].row = msg[m].row /\ msg'[m].revision = msg[m].revision
      /\ \A k \in Message \ {m} : msg'[k] = msg[k]
  BY DEF DismissMessage, Restore, Mapped, Typed, TypeOK, MsgRow
<1>3. Locked'
  <2>1. fetching # m /\ \A c \in Client : Holds(c) => client[c].message \in Message \ {m}
    BY <1>1 DEF MessageLocked, Holds, Mapped, Typed, References
  <2>2. fetching # None => fetching \in Message
    BY DEF Mapped, Typed, TypeOK
  <2>3. QED
    BY <1>1, <1>2, <2>1, <2>2 DEF Mapped, Locked, Holds
<1>4. Present'
  <2>1. \A j \in Job : IsActive(j) => job[j].message \in Message
    BY DEF IsActive, ActiveStatus, Mapped, Typed, References
  <2>2. QED
    BY <1>1, <1>2, <2>1 DEF Mapped, Present, IsActive
<1>5. InputsRead'
  BY <1>1, <1>2 DEF Mapped, InputsRead
<1>6. Others(m)
  BY <1>1, <1>2 DEF Others, Same, Shown, Active, Answered
<1>7. /\ Shown(m) \in {"offered", "taken", "dismissed"}
      /\ Active(m)' <=> Active(m)
      /\ Answered(m)' <=> Answered(m)
  BY <1>1, <1>2 DEF Shown, Active, Answered
<1>8. Inbox!Dismiss(m) \/ Inbox!Restore(m)
  <2>1. CASE DismissMessage(m)
    <3>1. msg'[m].dismissed
      BY <2>1 DEF DismissMessage, Mapped, Typed, TypeOK, MsgRow
    <3>2. Shown(m)' = "dismissed"
      BY <1>1, <1>2, <3>1 DEF Shown
    <3>3. QED
      BY <1>6, <1>7, <3>2, Dismisses
  <2>2. CASE Restore(m)
    <3>1. ~msg'[m].dismissed /\ msg'[m].submitted = Active(m)
      BY <2>2 DEF Restore, Mapped, Typed, TypeOK, MsgRow
    <3>2. Shown(m)' = IF Active(m) THEN "taken" ELSE "offered"
      BY <1>1, <1>2, <3>1 DEF Shown
    <3>3. QED
      BY <1>6, <1>7, <3>2, Restores
  <2>3. QED
    BY <2>1, <2>2
<1>9. QED
  BY <1>3, <1>4, <1>5, <1>8 DEF Maps, Inbox!Next

LEMMA ClientMaps ==
    ASSUME Mapped, ClientNext
    PROVE  Maps
<1> USE DEF Mapped
<1>1. ASSUME NEW c \in Client, NEW m \in Message, BeginSubmit(c, m)
      PROVE  Maps
  BY <1>1, SubmitMaps
<1>2. ASSUME NEW c \in Client, NEW j \in Job, CommitSubmit(c, j)
      PROVE  Maps
  <2>1. PICK m \in Message : m = client[c].message
    BY <1>2 DEF CommitSubmit, Typed, References
  <2>2. Holds(c) /\ ~msg[m].dismissed
    BY <1>2, <2>1 DEF CommitSubmit, Holds, Locked
  <2>3. ~Active(m)
    BY <1>2, <2>1 DEF CommitSubmit, Active, Exclusive, SubmitAlone, IsActive
  <2>4. /\ client'[c].pc = "idle" /\ \A d \in Client \ {c} : client'[d] = client[d]
        /\ \A k \in Job \ {j} : job'[k] = job[k]
        /\ job[j].status = "none" /\ job'[j].status = "queued" /\ job'[j].message = m
        /\ job'[j].input = msg[m].revision
        /\ msg' = [msg EXCEPT ![m] = Taken(@)] /\ UNCHANGED <<fetching, victims>>
    BY <1>2, <2>1 DEF CommitSubmit, Idle, Typed, TypeOK
  <2>5. QED
    BY <2>1, <2>2, <2>3, <2>4, TakeMaps
<1>3. ASSUME NEW c \in Client, LockRetry(c)
      PROVE  Maps
  BY <1>3, LockRetryMaps
<1>4. ASSUME NEW c \in Client, CommitRetry(c)
      PROVE  Maps
  <2>1. PICK m \in Message, j \in Job : m = client[c].message /\ j = client[c].job
    BY <1>4 DEF CommitRetry, Typed, References
  <2>2. Holds(c) /\ job[j].message = m
    BY <1>4, <2>1 DEF CommitRetry, Holds, Exclusive, RetryOfRow
  <2>3. ~Active(m) /\ ~msg[m].dismissed /\ ~IsActive(j)
    BY <1>4, <2>1, <2>2 DEF CommitRetry, MayRetry, IsActive, ActiveStatus
  <2>4. /\ client'[c].pc = "idle" /\ \A d \in Client \ {c} : client'[d] = client[d]
        /\ \A k \in Job \ {j} : job'[k] = job[k]
        /\ msg' = [msg EXCEPT ![m] = Taken(@)] /\ UNCHANGED <<fetching, victims>>
    BY <1>4, <2>1 DEF CommitRetry, Idle, Typed, TypeOK
  <2>5. /\ job'[j].status = "queued" /\ job'[j].message = m
        /\ job'[j].input = job[j].input
    BY <1>4, <2>1, <2>2 DEF CommitRetry, Typed, TypeOK, JobRow
  <2>6. QED
    BY <2>1, <2>2, <2>3, <2>4, <2>5, TakeMaps
<1>5. ASSUME NEW m \in Message, DismissMessage(m) \/ Restore(m)
      PROVE  Maps
  BY <1>5, DismissMaps
<1>6. ASSUME NEW c \in Client,
             AbandonRequest(c) \/ \E j \in Job : BeginRetry(c, j)
      PROVE  Maps
  <2>1. /\ UNCHANGED <<msg, job, fetching, victims>>
        /\ \A d \in Client \ {c} : client'[d] = client[d]
        /\ client'[c].pc \in {"idle", "retry"}
    BY <1>6 DEF AbandonRequest, BeginRetry, Idle, Typed, TypeOK
  <2>2. Quiet
    BY <2>1, QuietRows
  <2>3. QED
    BY <2>1, <2>2, QuietMaps DEF Holds
<1>7. ASSUME \/ \E m \in Message : ReadMessage(m)
             \/ \E p \in Plans : EditAutomation(p)
             \/ \E j \in Job : DeleteTicket(j)
      PROVE  Maps
  <2>1. Quiet
    BY <1>7, QuietRows DEF ReadMessage, EditAutomation, DeleteTicket
  <2>2. UNCHANGED <<client, fetching, victims>>
    BY <1>7 DEF ReadMessage, EditAutomation, DeleteTicket
  <2>3. QED
    BY <2>1, <2>2, QuietMaps
<1>8. QED
  BY <1>1, <1>2, <1>3, <1>4, <1>5, <1>6, <1>7 DEF ClientNext

\* An update is newer than what any job of the message has read.
LEMMA UpdateMaps ==
    ASSUME Mapped, NEW n \in Additions, CommitRefresh(n)
    PROVE  Maps
<1>1. PICK m \in Message : m = fetching
  BY DEF CommitRefresh, Mapped, Typed, TypeOK
<1>2. /\ msg' = [msg EXCEPT ![m] = ApplyUpdate(m, n)]
      /\ fetching' = None /\ UNCHANGED <<job, client, victims>>
  BY <1>1 DEF CommitRefresh
<1>3. msg[m] \in MsgRow /\ \A k \in Message : msg[k].revision \in Nat
  BY DEF Mapped, Typed, TypeOK, MsgRow
<1>4. /\ msg'[m] = ApplyUpdate(m, n)
      /\ \A k \in Message \ {m} : msg'[k] = msg[k]
  BY <1>2 DEF Mapped, Typed, TypeOK
<1>5. /\ msg'[m].row = "present" /\ msg'[m].revision = msg[m].revision + n
      /\ msg'[m].dismissed = msg[m].dismissed
      /\ msg'[m].submitted =
            IF msg[m].dismissed \/ Active(m) THEN msg[m].submitted ELSE FALSE
  BY <1>3, <1>4 DEF ApplyUpdate, MsgRow
<1>6. msg'[m].revision > msg[m].revision /\ msg'[m].revision \in Nat
  BY <1>3, <1>5 DEF Additions
<1>7. msg[m].row # "gone" /\ \A c \in Client : Holds(c) => client[c].message \in Message \ {m}
  BY <1>1, NoneAssumption DEF Mapped, Locked, Holds, Typed, References
<1>8. Locked'
  BY <1>2, <1>4, <1>7, NoneAssumption DEF Mapped, Locked, Holds
<1>9. Present'
  <2>1. \A j \in Job : IsActive(j) => job[j].message \in Message
    BY DEF IsActive, ActiveStatus, Mapped, Typed, References
  <2>2. QED
    BY <1>2, <1>4, <1>5, <2>1 DEF Mapped, Present, IsActive
<1>10. ASSUME NEW j \in Job, job[j].message = m
       PROVE  job[j].input \in Nat /\ job[j].input < msg'[m].revision
  BY <1>3, <1>6, <1>10 DEF Mapped, InputsRead, Typed, TypeOK, JobRow
<1>11. InputsRead'
  BY <1>2, <1>4, <1>6, <1>10 DEF Mapped, InputsRead
<1>12. Others(m)
  BY <1>2, <1>4 DEF Others, Same, Shown, Active, Answered
<1>13. Active(m)' <=> Active(m)
  BY <1>2 DEF Active
<1>14. ~Answered(m)'
  BY <1>2, <1>6, <1>10 DEF Answered
<1>15. Active(m) => msg[m].submitted /\ msg[m].row = "present"
  BY DEF Active, Mapped, Exclusive, ActiveSubmitted, Present, IsActive
<1>16. msg[m].row = "absent" => ~msg[m].dismissed
  BY DEF Mapped, Present
<1>17. msg[m].row \in {"absent", "present"}
  BY <1>3, <1>7 DEF MsgRow
<1>18. /\ Shown(m) # "gone"
       /\ Shown(m)' = IF Shown(m) = "dismissed" \/ (Shown(m) = "taken" /\ Active(m))
                      THEN Shown(m) ELSE "offered"
  BY <1>5, <1>15, <1>16, <1>17 DEF Shown
<1>19. Inbox!Arrive(m)
  BY <1>12, <1>13, <1>14, <1>18, Arrives
<1>20. QED
  BY <1>8, <1>9, <1>11, <1>19 DEF Maps, Inbox!Next

LEMMA CollectorMaps ==
    ASSUME Mapped, CollectorNext
    PROVE  Maps
<1>1. ASSUME NEW m \in Message, BeginRefresh(m)
      PROVE  Maps
  <2>1. /\ fetching' = m /\ msg[m].row # "gone"
        /\ UNCHANGED <<msg, job, client, victims>>
    BY <1>1 DEF BeginRefresh
  <2>2. \A c \in Client : Holds(c) => client[c].message # m
    BY <1>1 DEF BeginRefresh, MessageLocked, Holds
  <2>3. Locked'
    BY <2>1, <2>2 DEF Mapped, Locked, Holds
  <2>4. Present' /\ InputsRead'
    BY <2>1 DEF Mapped, Present, InputsRead, IsActive
  <2>5. Quiet
    BY <2>1 DEF Quiet, IsActive
  <2>6. QED
    BY <2>3, <2>4, <2>5, QuietStutters DEF Maps
<1>2. CASE LinkOnly
  <2>1. fetching \in Message
    BY <1>2 DEF LinkOnly, Mapped, Typed, TypeOK
  <2>2. Quiet
    BY <1>2, <2>1, QuietRows DEF LinkOnly, Mapped
  <2>3. QED
    BY <1>2, <2>2, QuietMaps DEF LinkOnly
<1>3. CASE AbortRefresh
  <2>1. Quiet
    BY <1>3, QuietRows DEF AbortRefresh, Mapped
  <2>2. QED
    BY <1>3, <2>1, QuietMaps DEF AbortRefresh
<1>4. QED
  BY <1>1, <1>2, <1>3, UpdateMaps DEF CollectorNext

\* The end of a job compares what it read with what the message has become.
LEMMA FinishMaps ==
    ASSUME Mapped, NEW w \in Worker, Finish(w)
    PROVE  Maps
<1>1. PICK j \in Job : j = worker[w].job
  BY DEF Finish, Closing, Mapped, Typed, References
<1>2. IsActive(j) /\ job[j].message \in Message
  BY <1>1 DEF Finish, IsActive, ActiveStatus, Mapped, Typed, References
<1>3. PICK m \in Message : m = job[j].message
  BY <1>2
<1>4. /\ job' = [job EXCEPT ![j].status = Outcome(w)] /\ msg' = FinishMessage(j)
      /\ ~MessageLocked(m) /\ UNCHANGED <<fetching, client, victims>>
  BY <1>1, <1>3 DEF Finish
<1>5. Outcome(w) \in {"completed", "failed"}
  BY DEF Outcome
<1>6. /\ \A k \in Job : job'[k].message = job[k].message /\ job'[k].input = job[k].input
      /\ \A k \in Job \ {j} : job'[k] = job[k]
      /\ job'[j].status = Outcome(w)
  BY <1>4 DEF Mapped, Typed, TypeOK, JobRow
<1>7. /\ msg'[m].row = msg[m].row /\ msg'[m].revision = msg[m].revision
      /\ msg'[m].dismissed = msg[m].dismissed
      /\ msg'[m].submitted = (msg[m].submitted /\
             ~ (msg[m].row = "present" /\ msg[m].revision > job[j].input
                /\ ~msg[m].dismissed))
      /\ \A k \in Message \ {m} : msg'[k] = msg[k]
  <2>1. msg[m] \in MsgRow
    BY DEF Mapped, Typed, TypeOK
  <2>2. CASE msg' = msg /\ ~ (msg[m].row = "present" /\ msg[m].revision > job[j].input
                              /\ ~msg[m].dismissed)
    BY <2>1, <2>2 DEF MsgRow
  <2>3. CASE /\ msg' = [msg EXCEPT ![m] = [@ EXCEPT !.submitted = FALSE, !.is_read = FALSE]]
             /\ msg[m].row = "present" /\ msg[m].revision > job[j].input
             /\ ~msg[m].dismissed
    BY <2>1, <2>3 DEF MsgRow, Mapped, Typed, TypeOK
  <2>4. QED
    BY <1>3, <1>4, <2>2, <2>3 DEF FinishMessage
<1>8. /\ msg[m].submitted /\ msg[m].row = "present"
      /\ msg[m].revision \in Nat /\ job[j].input \in Nat
  BY <1>2, <1>3
     DEF Mapped, Exclusive, ActiveSubmitted, Present, Typed, TypeOK, MsgRow, JobRow
<1>9. Locked'
  <2>1. fetching # m /\ \A c \in Client : Holds(c) => client[c].message \in Message \ {m}
    BY <1>4 DEF MessageLocked, Holds, Mapped, Typed, References
  <2>2. fetching # None => fetching \in Message
    BY DEF Mapped, Typed, TypeOK
  <2>3. QED
    BY <1>4, <1>7, <2>1, <2>2 DEF Mapped, Locked, Holds
<1>10. \A k \in Job : IsActive(k)' <=> IsActive(k) /\ k # j
  BY <1>5, <1>6 DEF IsActive, ActiveStatus
<1>11. Present'
  <2>1. \A k \in Job : IsActive(k) => job[k].message \in Message
    BY DEF IsActive, ActiveStatus, Mapped, Typed, References
  <2>2. QED
    BY <1>4, <1>6, <1>7, <1>8, <1>10, <2>1 DEF Mapped, Present
<1>12. InputsRead'
  <2>1. job'[j].status # "none"
    BY <1>5, <1>6
  <2>2. QED
    BY <1>6, <1>7, <2>1 DEF Mapped, InputsRead
<1>13. Others(m)
  BY <1>3, <1>6, <1>7 DEF Others, Same, Shown, Active, Answered
<1>14. Active(m) /\ ~Active(m)'
  <2>1. \A k \in Job : IsActive(k) /\ job[k].message = m => k = j
    BY <1>2, <1>3 DEF Mapped, Exclusive, OneActiveJob, IsActive
  <2>2. QED
    BY <1>2, <1>3, <1>6, <1>10, <2>1 DEF Active, IsActive
<1>15. Answered(m)' <=> Answered(m)
  BY <1>6, <1>7 DEF Answered
<1>16. \/ Shown(m)' = Shown(m) /\ (Answered(m) \/ Shown(m) = "dismissed")
       \/ Shown(m)' = "offered" /\ Shown(m) = "taken"
  <2>1. msg[m].revision > job[j].input \/ Answered(m)
    BY <1>3, <1>8 DEF Answered
  <2>2. QED
    BY <1>7, <1>8, <2>1 DEF Shown
<1>17. Inbox!End(m)
  BY <1>13, <1>14, <1>15, <1>16, Ends
<1>18. QED
  BY <1>9, <1>11, <1>12, <1>17 DEF Maps, Inbox!Next

LEMMA WorkerMaps ==
    ASSUME Mapped, WorkerNext
    PROVE  Maps
<1>1. ASSUME NEW w \in Worker, NEW j \in Job, PickJob(w, j)
      PROVE  Maps
  <2>1. Quiet
    BY <1>1, QuietRows DEF PickJob, Pickable, IsActive, ActiveStatus, Mapped
  <2>2. QED
    BY <1>1, <2>1, QuietMaps DEF PickJob
<1>2. ASSUME NEW w \in Worker, ExecuteStep(w)
      PROVE  Maps
  <2>1. worker[w].job \in Job
    BY <1>2 DEF ExecuteStep, Running, Mapped, Typed, References
  <2>2. Quiet
    BY <1>2, <2>1, QuietRows DEF ExecuteStep, Mapped
  <2>3. QED
    BY <1>2, <2>2, QuietMaps DEF ExecuteStep
<1>3. ASSUME NEW w \in Worker,
             \/ RaiseError(w) \/ FlushStatus(w) \/ DeadlockVictim(w)
             \/ LoseJob(w) \/ Crash(w)
      PROVE  Maps
  <2>1. UNCHANGED <<msg, job, client, fetching, victims>>
    BY <1>3 DEF RaiseError, FlushStatus, DeadlockVictim, LoseJob, Crash, Release
  <2>2. Quiet
    BY <2>1, QuietRows DEF Mapped
  <2>3. QED
    BY <2>1, <2>2, QuietMaps
<1>4. QED
  BY <1>1, <1>2, <1>3, FinishMaps DEF WorkerNext

\* The cleanup deletes a message with its jobs, and only one that nobody has locked.
LEMMA DeleteMaps ==
    ASSUME Mapped, NEW m \in Message, DeleteMessage(m), ~msg[m].live
    PROVE  Maps
<1>1. /\ msg' = [msg EXCEPT ![m].row = "gone"] /\ job' = Without(Rows(m))
      /\ victims' = victims \ {m} /\ m \in victims /\ ~MessageLocked(m)
      /\ UNCHANGED <<fetching, client>>
  BY DEF DeleteMessage
<1>2. /\ msg'[m].row = "gone" /\ msg'[m].revision = msg[m].revision
      /\ \A k \in Message \ {m} : msg'[k] = msg[k]
  BY <1>1 DEF Mapped, Typed, TypeOK, MsgRow
<1>3. \A j \in Job : /\ job'[j].message = job[j].message /\ job'[j].input = job[j].input
                     /\ job'[j].status = IF j \in Rows(m) THEN "gone" ELSE job[j].status
  BY <1>1 DEF Without, Mapped, Typed, TypeOK, JobRow
<1>4. \A j \in Job : IsActive(j)' <=> IsActive(j) /\ job[j].message # m
  BY <1>3 DEF IsActive, ActiveStatus, Rows
<1>5. Locked'
  <2>1. fetching # m /\ \A c \in Client : Holds(c) => client[c].message \in Message \ {m}
    BY <1>1 DEF MessageLocked, Holds, Mapped, Typed, References
  <2>2. fetching # None => fetching \in Message
    BY DEF Mapped, Typed, TypeOK
  <2>3. QED
    BY <1>1, <1>2, <2>1, <2>2 DEF Mapped, Locked, Holds
<1>6. Present'
  <2>1. \A j \in Job : IsActive(j) => job[j].message \in Message
    BY DEF IsActive, ActiveStatus, Mapped, Typed, References
  <2>2. QED
    BY <1>1, <1>2, <1>3, <1>4, <2>1 DEF Mapped, Present
<1>7. InputsRead'
  BY <1>2, <1>3 DEF Mapped, InputsRead
<1>8. Others(m)
  <2>1. ASSUME NEW k \in Message \ {m}
        PROVE  Same(k)
    <3>1. Shown(k)' = Shown(k)
      BY <1>2 DEF Shown
    <3>2. Active(k)' <=> Active(k)
      BY <1>3, <1>4 DEF Active, IsActive
    <3>3. Answered(k)' <=> Answered(k)
      BY <1>2, <1>3 DEF Answered
    <3>4. QED
      BY <3>1, <3>2, <3>3 DEF Same
  <2>2. QED
    BY <2>1 DEF Others
<1>9. Shown(m) \in {"offered", "taken", "dismissed"} /\ Shown(m)' = "gone"
  BY <1>1, <1>2 DEF Shown, Mapped, Present
<1>10. ~Active(m)' /\ (Answered(m)' <=> Answered(m))
  BY <1>2, <1>3, <1>4 DEF Active, Answered, IsActive
<1>11. Inbox!Drop(m)
  BY <1>8, <1>9, <1>10, Drops
<1>12. QED
  BY <1>5, <1>6, <1>7, <1>11 DEF Maps, Inbox!Next

LEMMA CleanupMaps ==
    ASSUME Mapped, CleanupNext
    PROVE  Maps
<1>1. ASSUME NEW m \in Message, Expire(m)
      PROVE  Maps
  <2>1. Quiet
    BY <1>1, QuietRows DEF Expire, Mapped
  <2>2. QED
    BY <1>1, <2>1, QuietMaps DEF Expire
<1>2. ASSUME NEW m \in Message, DeleteMessage(m), msg[m].live
      PROVE  Maps
  <2>1. Quiet
    BY <1>2, QuietRows DEF DeleteMessage, Mapped
  <2>2. QED
    BY <1>2, <2>1, QuietMaps DEF DeleteMessage
<1>3. CASE BeginCleanup
  <2>1. /\ UNCHANGED <<msg, job, client, fetching>>
        /\ \A m \in victims' : msg[m].row = "present"
    BY <1>3 DEF BeginCleanup
  <2>2. Quiet
    BY <2>1, QuietRows DEF Mapped
  <2>3. Locked' /\ InputsRead'
    BY <2>1 DEF Mapped, Locked, InputsRead, Holds
  <2>4. Present'
    BY <2>1 DEF Mapped, Present, IsActive
  <2>5. QED
    BY <2>2, <2>3, <2>4, QuietStutters DEF Maps
<1>4. CASE DeleteJobs
  <2>1. {j \in Job : Removable(j)} \in SUBSET {j \in Job : ~IsActive(j)}
    BY DEF Removable, IsActive, ActiveStatus
  <2>2. Quiet
    BY <1>4, <2>1, QuietRows DEF DeleteJobs, Mapped
  <2>3. QED
    BY <1>4, <2>2, QuietMaps DEF DeleteJobs
<1>5. QED
  BY <1>1, <1>2, <1>3, <1>4, DeleteMaps DEF CleanupNext

LEMMA MappedInit ==
    ASSUME Init
    PROVE  Locked /\ Present /\ InputsRead /\ Inbox!Init
<1>1. Locked /\ Present /\ InputsRead
  BY NoneAssumption
     DEF Init, Locked, Present, InputsRead, Holds, IsActive, ActiveStatus
<1>2. [k \in Message |-> Shown(k)] = [k \in Message |-> "absent"]
  BY DEF Init, Shown
<1>3. \A k \in Message : Active(k) = FALSE /\ Answered(k) = FALSE
  BY NoneAssumption DEF Init, Active, Answered
<1>4. /\ [k \in Message |-> Active(k)] = [k \in Message |-> FALSE]
      /\ [k \in Message |-> Answered(k)] = [k \in Message |-> FALSE]
  BY <1>3
<1>5. QED
  BY <1>1, <1>2, <1>4 DEF Inbox!Init, Shown, Answered

LEMMA MappedStep ==
    ASSUME Mapped, [Next]_vars
    PROVE  Maps
<1>1. CASE Next
  BY <1>1, ClientMaps, CollectorMaps, WorkerMaps, CleanupMaps DEF Next
<1>2. CASE UNCHANGED vars
  <2>1. Quiet
    BY <1>2, QuietRows DEF vars, Mapped
  <2>2. QED
    BY <1>2, <2>1, QuietMaps DEF vars
<1>3. QED
  BY <1>1, <1>2

LEMMA AlwaysExclusive == Spec => []Exclusive
BY ExclusiveInit, ExclusiveStep, AlwaysTyped, PTL DEF Spec

LEMMA AlwaysMapped == Spec => []Mapped
<1>1. Init => Locked /\ Present /\ InputsRead
  BY MappedInit
<1>2. Mapped /\ [Next]_vars => (Locked /\ Present /\ InputsRead)'
  BY MappedStep DEF Maps
<1>3. Mapped <=> Typed /\ Exclusive /\ (Locked /\ Present /\ InputsRead)
  BY DEF Mapped
<1>4. QED
  BY <1>1, <1>2, <1>3, AlwaysTyped, AlwaysExclusive, PTL DEF Spec

\* Collected messages, jobs, locks, the worker and retention together behave as the inbox:
\* no interleaving of theirs hides an update.
THEOREM ImplementsInboxAlways == Spec => ImplementsInbox
<1>1. Init => Inbox!Init
  BY MappedInit
<1>2. Mapped /\ [Next]_vars => [Inbox!Next]_(Inbox!vars)
  BY MappedStep DEF Maps
<1>3. QED
  BY <1>1, <1>2, AlwaysMapped, PTL DEF Spec, ImplementsInbox, Inbox!Spec

LEMMA HiddenStep ==
    ASSUME Inbox!NothingHidden, Inbox!Next
    PROVE  Inbox!NothingHidden'
<1> USE DEF Inbox!NothingHidden
<1>1. ASSUME NEW m \in Message, Inbox!Arrive(m)
      PROVE  Inbox!NothingHidden'
  BY <1>1 DEF Inbox!Arrive
<1>2. ASSUME NEW m \in Message, Inbox!Take(m)
      PROVE  Inbox!NothingHidden'
  BY <1>2 DEF Inbox!Take
<1>3. ASSUME NEW m \in Message, Inbox!End(m)
      PROVE  Inbox!NothingHidden'
  BY <1>3 DEF Inbox!End
<1>4. ASSUME NEW m \in Message, Inbox!Dismiss(m) \/ Inbox!Restore(m) \/ Inbox!Drop(m)
      PROVE  Inbox!NothingHidden'
  BY <1>4 DEF Inbox!Dismiss, Inbox!Restore, Inbox!Drop
<1>5. QED
  BY <1>1, <1>2, <1>3, <1>4 DEF Inbox!Next

\* A message that is neither offered nor dismissed hides no update: what the inbox
\* guarantees, the workbench does.
THEOREM UpdateNeverHiddenAlways == Spec => []UpdateNeverHidden
<1>1. Inbox!Init => Inbox!NothingHidden
  BY DEF Inbox!Init, Inbox!NothingHidden
<1>2. Inbox!NothingHidden /\ UNCHANGED Inbox!vars => Inbox!NothingHidden'
  BY DEF Inbox!NothingHidden, Inbox!vars
<1>3. Inbox!NothingHidden => UpdateNeverHidden
  BY DEF Inbox!NothingHidden, UpdateNeverHidden
<1>4. QED
  BY <1>1, <1>2, <1>3, HiddenStep, ImplementsInboxAlways, PTL
     DEF ImplementsInbox, Inbox!Spec
=============================================================================
