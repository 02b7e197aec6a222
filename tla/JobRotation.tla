----------------------------- MODULE JobRotation -----------------------------
(***************************************************************************)
(* Which queued job the automation worker takes next (pick_job).  The      *)
(* oldest queued job names the user to serve; that user's automations take *)
(* turns in their saved order, each giving its oldest job.  Jobs keep      *)
(* arriving, users reorder their automations, and the worker takes one job *)
(* at a time.                                                              *)
(***************************************************************************)
EXTENDS Integers, Sequences, FiniteSets

CONSTANTS
    User,        \* owners of automations
    Automation,  \* rows of workbench_automations, soft-deleted ones included
    Owner,       \* the user each automation belongs to
    None,        \* last_automation_id before the first job
    MaxQueue,    \* bound: jobs queued at once
    MaxReorders  \* bound: changes of the order of automations

OwnerAssumption ==
    Owner \in [Automation -> User] /\ IsFiniteSet(Automation) /\ None \notin Automation

RotationBounds == MaxQueue \in Nat /\ MaxReorders \in Nat

VARIABLES
    queue,     \* automation of each queued job, in the order of (queued_at, id)
    position,  \* rank of each automation among its user's, by (position, id)
    last,      \* last_automation_id of each user's preferences
    reorders,  \* changes of order so far
    passed     \* history: jobs taken since the oldest job became the oldest

vars == <<queue, position, last, reorders, passed>>

Owned(u) == {a \in Automation : Owner[a] = u}

Count(u) == Cardinality(Owned(u))

\* Ranks 0..n-1 without gaps or ties within each user's automations.
Ranks == {p \in [Automation -> 0..Cardinality(Automation)] :
            \A a \in Automation :
                /\ p[a] < Count(Owner[a])
                /\ \A b \in Owned(Owner[a]) : p[b] = p[a] => b = a}

Init ==
    /\ queue = <<>>
    /\ position \in Ranks
    /\ last = [u \in User |-> None]
    /\ reorders = 0
    /\ passed = 0

\* submit and retry stamp queued_at with the current time.
Enqueue(a) ==
    /\ Len(queue) < MaxQueue
    /\ queue' = Append(queue, a)
    /\ UNCHANGED <<position, last, reorders, passed>>

\* PUT /order/automations.  No wait is bounded while a user keeps reordering,
\* so the history starts again.
Reorder(p) ==
    /\ reorders < MaxReorders
    /\ position' = p
    /\ reorders' = reorders + 1
    /\ passed' = 0
    /\ UNCHANGED <<queue, last>>

\* Mutant: every turn starts at the first automation again.
TurnFromFirst(u, a) == position[a]

\* Mutant: the turn starts at the automation served last, not after it.
TurnFromLast(u, a) ==
    IF last[u] = None THEN position[a]
    ELSE (position[a] - position[last[u]]) % Count(u)

\* Index of a in ids[offset:] + ids[:offset]: the offset is after the
\* automation served last.
Turn(u, a) ==
    IF last[u] = None THEN position[a]
    ELSE (position[a] - position[last[u]] - 1) % Count(u)

Waiting(u) == {a \in Owned(u) : \E i \in 1..Len(queue) : queue[i] = a}

\* The first automation of the rotation that has a queued job.
IsNext(u, a) == a \in Waiting(u) /\ \A b \in Waiting(u) : Turn(u, a) <= Turn(u, b)

IsOldest(i) == \A k \in 1..i - 1 : queue[k] # queue[i]

\* The queue without its i-th job.
Without(i) == [k \in 1..Len(queue) - 1 |-> IF k < i THEN queue[k] ELSE queue[k + 1]]

\* The history stops counting where BoundedOvertaking is long broken.
Counted(n) == IF n > Cardinality(Automation) THEN Cardinality(Automation) ELSE n

PickJob(i) ==
    /\ queue # <<>>
    /\ IsNext(Owner[Head(queue)], queue[i]) /\ IsOldest(i)
    /\ last' = [last EXCEPT ![Owner[Head(queue)]] = queue[i]]
    /\ queue' = Without(i)
    /\ passed' = IF i = 1 THEN 0 ELSE Counted(passed + 1)
    /\ UNCHANGED <<position, reorders>>

PickSome == \E i \in 1..Len(queue) : PickJob(i)

Next ==
    \/ \E a \in Automation : Enqueue(a)
    \/ \E p \in Ranks : Reorder(p)
    \/ PickSome

Spec == Init /\ [][Next]_vars

\* The worker polls once a second and every job ends (module WorkbenchJobs).
FairSpec == Spec /\ WF_vars(PickSome)

-----------------------------------------------------------------------------
(* Properties *)

\* The oldest queued job is overtaken by at most one job of each of its user's
\* other automations, however many jobs arrive meanwhile.
BoundedOvertaking == queue # <<>> => passed < Count(Owner[Head(queue)])

\* An automation whose backlog never empties is served again and again: neither
\* its user's other automations nor another user's jobs shut it out.
EveryAutomationServed ==
    \A a \in Automation :
        \/ []<>(a \notin Waiting(Owner[a]))
        \/ []<><<\E i \in 1..Len(queue) : queue[i] = a /\ PickJob(i)>>_vars
=============================================================================
