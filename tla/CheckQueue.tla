----------------------------- MODULE CheckQueue ------------------------------
(***************************************************************************)
(* The durable queue of mail and tracker checks: manual requests from      *)
(* several tabs, the scheduler that enqueues due checks in one batch, and  *)
(* the workers that run the oldest check under a global advisory lock and  *)
(* collect under a per-user advisory lock held by a second connection.     *)
(* A mailbox refresh in the API process takes the same per-user lock.      *)
(***************************************************************************)
EXTENDS Integers, Sequences, FiniteSets, SequencesExt

CONSTANTS
    User,
    Scheduled,    \* users who enabled their schedule; the others check by hand
    Worker,       \* processes that poll process_check
    Client,       \* concurrent POST /check-updates requests
    None,         \* no holder
    Free, Mail,   \* per-user lock: nobody, a mailbox refresh
    MaxLosses,    \* bound: worker connections lost
    MaxSyncs      \* bound: mailbox refreshes

HolderAssumption ==
    /\ None \notin Worker \cup User /\ Free \notin Worker /\ Mail \notin Worker
    /\ Free # Mail /\ Scheduled \subseteq User

LossBounds == MaxLosses \in Nat /\ MaxSyncs \in Nat

VARIABLES
    queue,       \* rows with status queued or running, in id order
    holder,      \* holder of advisory lock 74182101
    worker,      \* phase of each worker and the user it checks
    collecting,  \* holder of each user's collection lock
    client,      \* requests that hold the lock on a preference row
    batch,       \* preferences locked by the scheduler, and the checks it adds
    due,         \* next_run_at has passed
    open,        \* the schedule is enabled and it is working time
    active,      \* users.is_active
    cooling,     \* less than five seconds since a check finished
    losses,      \* connections lost so far
    syncs        \* mailbox refreshes so far

vars == <<queue, holder, worker, collecting, client, batch, due, open, active, cooling,
          losses, syncs>>

Origin == {"manual", "scheduled"}

Row(u, o, s) == [user |-> u, origin |-> o, status |-> s]

HasRow(u, o) == \E i \in 1..Len(queue) : queue[i].user = u /\ queue[i].origin = o

NoBatch == [locked |-> {}, adds |-> {}]

\* Mutant: enqueue operations do not lock the preference row.
PrefNeverLocked(u) == FALSE

PrefLocked(u) ==
    \/ u \in batch.locked
    \/ \E c \in Client : client[c].pc = "enqueue" /\ client[c].user = u

Init ==
    /\ queue = <<>>
    /\ holder = None
    /\ worker = [w \in Worker |-> [pc |-> "idle", user |-> None]]
    /\ collecting = [u \in User |-> Free]
    /\ client = [c \in Client |-> [pc |-> "idle", user |-> None, found |-> FALSE]]
    /\ batch = NoBatch
    /\ due = [u \in User |-> FALSE]
    /\ open = [u \in User |-> u \in Scheduled]
    /\ active = [u \in User |-> TRUE]
    /\ cooling = FALSE
    /\ losses = 0 /\ syncs = 0

-----------------------------------------------------------------------------
(* Enqueueing *)

\* enqueue_manual: the preference row is locked, then the active check looked up.
BeginManual(c, u) ==
    /\ client[c].pc = "idle" /\ ~PrefLocked(u)
    /\ client' = [client EXCEPT ![c] = [pc |-> "enqueue", user |-> u,
                                        found |-> HasRow(u, "manual")]]
    /\ UNCHANGED <<queue, holder, worker, collecting, batch, due, open, active, cooling,
                   losses, syncs>>

CommitManual(c) ==
    /\ client[c].pc = "enqueue"
    /\ queue' = IF client[c].found THEN queue
                ELSE Append(queue, Row(client[c].user, "manual", "queued"))
    /\ client' = [client EXCEPT ![c] = [pc |-> "idle", user |-> None, found |-> FALSE]]
    /\ UNCHANGED <<holder, worker, collecting, batch, due, open, active, cooling,
                   losses, syncs>>

\* The next slot of an enabled schedule arrives.
SlotDue(u) ==
    /\ ~due[u] /\ open[u]
    /\ due' = [due EXCEPT ![u] = TRUE]
    /\ UNCHANGED <<queue, holder, worker, collecting, client, batch, open, active,
                   cooling, losses, syncs>>

TickWanted(u) == active[u] /\ open[u] /\ \A o \in Origin : ~HasRow(u, o)

\* enqueue_due_checks: due rows that are not locked, all locked at once.
BeginTick ==
    /\ batch = NoBatch
    /\ \E u \in User : due[u] /\ ~PrefLocked(u)
    /\ LET found == {u \in User : due[u] /\ ~PrefLocked(u)}
       IN  batch' = [locked |-> found, adds |-> {u \in found : TickWanted(u)}]
    /\ UNCHANGED <<queue, holder, worker, collecting, client, due, open, active, cooling,
                   losses, syncs>>

\* One commit moves every slot on and inserts the checks in slot order.
CommitTick ==
    /\ batch # NoBatch
    /\ due' = [u \in User |-> due[u] /\ u \notin batch.locked]
    /\ \E s \in SetToSeqs(batch.adds) :
         queue' = queue \o [i \in 1..Len(s) |-> Row(s[i], "scheduled", "queued")]
    /\ batch' = NoBatch
    /\ UNCHANGED <<holder, worker, collecting, client, open, active, cooling, losses,
                   syncs>>

\* Working hours begin or end.
SetOpen(u) ==
    /\ u \in Scheduled
    /\ open' = [open EXCEPT ![u] = ~@]
    /\ UNCHANGED <<queue, holder, worker, collecting, client, batch, due, active,
                   cooling, losses, syncs>>

Deactivate(u) ==
    /\ active[u]
    /\ active' = [active EXCEPT ![u] = FALSE]
    /\ UNCHANGED <<queue, holder, worker, collecting, client, batch, due, open, cooling,
                   losses, syncs>>

-----------------------------------------------------------------------------
(* process_check *)

Eligible(row) == active[row.user] /\ (row.origin = "manual" \/ open[row.user])

\* Mutant: the worker takes the oldest check that is not running.
OldestQueued == SelectInSeq(queue, LAMBDA r : r.status = "queued")

\* A running row belongs to a disconnected worker, so the oldest row is taken
\* whatever its status.
Oldest == 1

\* The lock is taken, a check finished five seconds ago, the oldest row is
\* eligible.  last_run_at is written, so a locked preference is waited for.
StartCheck(w) ==
    /\ worker[w].pc = "idle" /\ holder = None
    /\ queue # <<>> /\ Oldest \in 1..Len(queue) /\ ~cooling
    /\ LET row == queue[Oldest] IN
       /\ Eligible(row) /\ ~PrefLocked(row.user)
       /\ worker' = [worker EXCEPT ![w] = [pc |-> "calling", user |-> row.user]]
    /\ queue' = [queue EXCEPT ![Oldest].status = "running"]
    /\ holder' = w
    /\ UNCHANGED <<collecting, client, batch, due, open, active, cooling, losses, syncs>>

\* A disabled user or a closed schedule completes the check without collection.
SkipCheck(w) ==
    /\ worker[w].pc = "idle" /\ holder = None
    /\ queue # <<>> /\ ~cooling
    /\ ~Eligible(Head(queue))
    /\ queue' = Tail(queue)
    /\ cooling' = TRUE
    /\ UNCHANGED <<holder, worker, collecting, client, batch, due, open, active, losses,
                   syncs>>

\* run_collection on its own connection: pg_try_advisory_lock for the user.
LockUser(w) ==
    /\ worker[w].pc = "calling"
    /\ collecting[worker[w].user] = Free
    /\ collecting' = [collecting EXCEPT ![worker[w].user] = w]
    /\ worker' = [worker EXCEPT ![w].pc = "collecting"]
    /\ UNCHANGED <<queue, holder, client, batch, due, open, active, cooling, losses,
                   syncs>>

\* Mutant: the requeued row gets a status of its own.
RequeuedAsRetry == [queue EXCEPT ![1].status = "retry"]

Requeued == [queue EXCEPT ![1].status = "queued"]

Idle(w) == worker' = [worker EXCEPT ![w] = [pc |-> "idle", user |-> None]]

\* The user's lock is taken: the check keeps its place in the queue.
Requeue(w) ==
    /\ worker[w].pc = "calling"
    /\ collecting[worker[w].user] # Free
    /\ queue' = Requeued
    /\ holder' = None
    /\ Idle(w)
    /\ UNCHANGED <<collecting, client, batch, due, open, active, cooling, losses, syncs>>

\* The collection ends or raises; its connection unlocks the user first.
EndCollection(w) ==
    /\ worker[w].pc = "collecting"
    /\ collecting' = [collecting EXCEPT ![worker[w].user] = Free]
    /\ worker' = [worker EXCEPT ![w].pc = "ending"]
    /\ UNCHANGED <<queue, holder, client, batch, due, open, active, cooling, losses,
                   syncs>>

\* completed or failed: finished_at starts the cooldown either way.
EndCheck(w) ==
    /\ worker[w].pc = "ending"
    /\ queue' = Tail(queue)
    /\ cooling' = TRUE
    /\ holder' = None
    /\ Idle(w)
    /\ UNCHANGED <<collecting, client, batch, due, open, active, losses, syncs>>

CooldownOver ==
    /\ cooling /\ cooling' = FALSE
    /\ UNCHANGED <<queue, holder, worker, collecting, client, batch, due, open, active,
                   losses, syncs>>

\* The connection with the global lock is lost.  PostgreSQL frees that lock;
\* the collection keeps its own connection and lock until it ends or PostgreSQL
\* notices that the whole process is gone.
LoseConnection(w) ==
    /\ worker[w].pc \in {"calling", "collecting", "ending"} /\ losses < MaxLosses
    /\ losses' = losses + 1
    /\ holder' = None
    /\ CASE worker[w].pc = "calling" -> worker' = [worker EXCEPT ![w].pc = "late"]
         [] worker[w].pc = "collecting" -> worker' = [worker EXCEPT ![w].pc = "orphan"]
         [] worker[w].pc = "ending" -> Idle(w)
    /\ UNCHANGED <<queue, collecting, client, batch, due, open, active, cooling, syncs>>

\* run_collection was called but has not locked the user when the connection is
\* lost: it still tries to, unless the process is gone.
LateLock(w) ==
    /\ worker[w].pc = "late"
    /\ \/ /\ collecting[worker[w].user] = Free
          /\ collecting' = [collecting EXCEPT ![worker[w].user] = w]
          /\ worker' = [worker EXCEPT ![w].pc = "orphan"]
       \/ Idle(w) /\ UNCHANGED collecting
    /\ UNCHANGED <<queue, holder, client, batch, due, open, active, cooling, losses,
                   syncs>>

\* The orphaned collection ends; its commit on the lost connection fails.
EndOrphan(w) ==
    /\ worker[w].pc = "orphan"
    /\ collecting' = [collecting EXCEPT ![worker[w].user] = Free]
    /\ Idle(w)
    /\ UNCHANGED <<queue, holder, client, batch, due, open, active, cooling, losses,
                   syncs>>

\* sync_background: a mailbox refresh in an API process.
BeginSync(u) ==
    /\ collecting[u] = Free /\ syncs < MaxSyncs
    /\ syncs' = syncs + 1
    /\ collecting' = [collecting EXCEPT ![u] = Mail]
    /\ UNCHANGED <<queue, holder, worker, client, batch, due, open, active, cooling,
                   losses>>

EndSync(u) ==
    /\ collecting[u] = Mail
    /\ collecting' = [collecting EXCEPT ![u] = Free]
    /\ UNCHANGED <<queue, holder, worker, client, batch, due, open, active, cooling,
                   losses, syncs>>

-----------------------------------------------------------------------------
(* Specification *)

EnqueueNext ==
    \/ \E c \in Client : CommitManual(c) \/ \E u \in User : BeginManual(c, u)
    \/ \E u \in User : SlotDue(u) \/ SetOpen(u) \/ Deactivate(u)
    \/ BeginTick \/ CommitTick

CheckNext ==
    \/ \E w \in Worker : \/ StartCheck(w) \/ SkipCheck(w) \/ LockUser(w) \/ Requeue(w)
                         \/ EndCollection(w) \/ EndCheck(w)
                         \/ LoseConnection(w) \/ LateLock(w) \/ EndOrphan(w)
    \/ CooldownOver
    \/ \E u \in User : BeginSync(u) \/ EndSync(u)

Next == EnqueueNext \/ CheckNext

Spec == Init /\ [][Next]_vars

\* Every worker loop polls once a second (StartCheck and SkipCheck need a free
\* lock, hence SF), transactions and collections end (HTTP and account timeouts
\* of 30 s and 600 s), and time passes.
Fairness ==
    /\ \A c \in Client : WF_vars(CommitManual(c))
    /\ WF_vars(CommitTick) /\ WF_vars(CooldownOver)
    /\ SF_vars(\E w \in Worker : StartCheck(w) \/ SkipCheck(w))
    /\ \A w \in Worker : /\ WF_vars(LockUser(w) \/ Requeue(w))
                         /\ WF_vars(EndCollection(w)) /\ WF_vars(EndCheck(w))
                         /\ WF_vars(LateLock(w)) /\ WF_vars(EndOrphan(w))
    /\ \A u \in User : WF_vars(EndSync(u))

FairSpec == Spec /\ Fairness

-----------------------------------------------------------------------------
(* Properties *)

\* The variables keep the shapes of the rows and of the connections' phases.
TypeOK ==
    /\ queue \in Seq([user : User, origin : Origin, status : {"queued", "running"}])
    /\ holder \in Worker \cup {None}
    /\ worker \in [Worker -> [pc : {"idle", "calling", "collecting", "ending", "late",
                                    "orphan"},
                              user : User \cup {None}]]
    /\ collecting \in [User -> Worker \cup {Free, Mail}]
    /\ client \in [Client -> [pc : {"idle", "enqueue"}, user : User \cup {None},
                              found : BOOLEAN]]
    /\ batch \in [locked : SUBSET User, adds : SUBSET User]
    /\ due \in [User -> BOOLEAN] /\ open \in [User -> BOOLEAN]
    /\ active \in [User -> BOOLEAN] /\ cooling \in BOOLEAN
    /\ losses \in Nat /\ syncs \in Nat

\* Clicks in several tabs, several API processes and the scheduler never insert
\* a second active check of one origin: the unique index is never hit.
OneRowPerOrigin ==
    \A i, j \in 1..Len(queue) :
        queue[i].user = queue[j].user /\ queue[i].origin = queue[j].origin => i = j

\* A scheduled tick does not duplicate work already pending for the user.
TickOnlyWhenIdle ==
    [][\A u \in User :
        ~HasRow(u, "scheduled") /\ HasRow(u, "scheduled")' => ~HasRow(u, "manual")]_queue

\* Checks start strictly in order: behind the oldest row nothing runs, not even
\* after lost connections and requeues.
OnlyOldestRuns == \A i \in 2..Len(queue) : queue[i].status = "queued"

\* While the global lock is held for a check, its row is the oldest one, so the
\* end of a check never removes another user's row.
HolderOwnsOldest ==
    \A w \in Worker : worker[w].pc \in {"calling", "collecting", "ending"} =>
        /\ holder = w
        /\ queue # <<>> /\ Head(queue) = Row(worker[w].user, Head(queue).origin, "running")

\* Every check that was accepted ends, whatever connections are lost and
\* whatever mailbox refreshes hold the user's lock on the way.
EveryCheckEnds == \A u \in User, o \in Origin : HasRow(u, o) ~> ~HasRow(u, o)
=============================================================================
