-------------------------- MODULE CheckQueueProofs --------------------------
(***************************************************************************)
(* Proofs about CheckQueue for any finite set of users, any workers, tabs, *)
(* lost connections and mailbox refreshes.                                 *)
(***************************************************************************)
EXTENDS CheckQueue, FiniteSetTheorems, SequenceTheorems, TLAPS

QueueAssumption == HolderAssumption /\ LossBounds /\ IsFiniteSet(User)

CheckRow == [user : User, origin : Origin, status : {"queued", "running"}]

\* Requests and workers at work refer to a user.
References ==
    /\ \A c \in Client : client[c].pc = "enqueue" => client[c].user \in User
    /\ \A w \in Worker : worker[w].pc # "idle" => worker[w].user \in User

Typed == TypeOK /\ References

\* Why no second row of an origin is inserted: the row lock of a preference has one owner,
\* and what its owner found missing is missing until it inserts it.
LockedOnce ==
    /\ \A c, d \in Client :
           client[c].pc = "enqueue" /\ client[d].pc = "enqueue"
           /\ client[c].user = client[d].user => c = d
    /\ \A c \in Client : client[c].pc = "enqueue" => client[c].user \notin batch.locked
    /\ batch.adds \subseteq batch.locked

StillMissing ==
    /\ \A c \in Client : client[c].pc = "enqueue" /\ ~client[c].found =>
                             ~HasRow(client[c].user, "manual")
    /\ \A u \in batch.adds, o \in Origin : ~HasRow(u, o)

Ordered ==
    /\ Typed /\ LockedOnce /\ StillMissing
    /\ OneRowPerOrigin /\ OnlyOldestRuns /\ HolderOwnsOldest

-----------------------------------------------------------------------------
(* What happens to the queue *)

LEMMA StatusSet ==
    ASSUME queue \in Seq(CheckRow), queue # <<>>, NEW s \in {"queued", "running"},
           queue' = [queue EXCEPT ![1].status = s]
    PROVE  /\ queue' \in Seq(CheckRow) /\ Len(queue') = Len(queue)
           /\ queue'[1] = Row(queue[1].user, queue[1].origin, s)
           /\ \A i \in 2..Len(queue) : queue'[i] = queue[i]
           /\ \A i \in 1..Len(queue) : /\ queue'[i].user = queue[i].user
                                       /\ queue'[i].origin = queue[i].origin
<1>1. Len(queue) \in Nat /\ Len(queue) >= 1 /\ queue[1] \in CheckRow
  OBVIOUS
<1>2. [queue[1] EXCEPT !.status = s] \in CheckRow
  BY <1>1 DEF CheckRow
<1>3. queue' = [queue EXCEPT ![1] = [queue[1] EXCEPT !.status = s]]
  OBVIOUS
<1>4. queue' \in Seq(CheckRow) /\ Len(queue') = Len(queue)
  BY <1>1, <1>2, <1>3, ExceptSeq
<1>5. queue'[1] = [queue[1] EXCEPT !.status = s]
  BY <1>1, <1>3
<1>6. \A i \in 2..Len(queue) : queue'[i] = queue[i]
  BY <1>1, <1>3
<1>7. queue'[1] = Row(queue[1].user, queue[1].origin, s)
  BY <1>1, <1>5 DEF Row, CheckRow
<1>8. QED
  BY <1>1, <1>4, <1>5, <1>6, <1>7 DEF Row

LEMMA OldestGone ==
    ASSUME queue \in Seq(CheckRow), queue # <<>>, queue' = Tail(queue)
    PROVE  /\ queue' \in Seq(CheckRow) /\ Len(queue') = Len(queue) - 1
           /\ \A i \in 1..Len(queue') : queue'[i] = queue[i + 1]
BY HeadTailProperties

LEMMA RowsAdded ==
    ASSUME queue \in Seq(CheckRow), NEW rows \in Seq(CheckRow), queue' = queue \o rows
    PROVE  /\ queue' \in Seq(CheckRow) /\ Len(queue') = Len(queue) + Len(rows)
           /\ \A i \in 1..Len(queue) : queue'[i] = queue[i]
           /\ \A i \in 1..Len(queue') : i > Len(queue) => queue'[i] = rows[i - Len(queue)]
BY ConcatProperties

\* No row appears: each is as unique and as ordered as before.
NoNewRow ==
    /\ queue' \in Seq(CheckRow) /\ OneRowPerOrigin' /\ OnlyOldestRuns'
    /\ \A u, o : HasRow(u, o)' => HasRow(u, o)

LEMMA StatusKeeps ==
    ASSUME queue \in Seq(CheckRow), OneRowPerOrigin, OnlyOldestRuns, queue # <<>>,
           NEW s \in {"queued", "running"}, queue' = [queue EXCEPT ![1].status = s]
    PROVE  NoNewRow /\ Len(queue') = Len(queue)
           /\ queue'[1] = Row(queue[1].user, queue[1].origin, s)
<1>1. /\ queue' \in Seq(CheckRow) /\ Len(queue') = Len(queue)
      /\ queue'[1] = Row(queue[1].user, queue[1].origin, s)
      /\ \A i \in 2..Len(queue) : queue'[i] = queue[i]
      /\ \A i \in 1..Len(queue) : /\ queue'[i].user = queue[i].user
                                  /\ queue'[i].origin = queue[i].origin
  BY StatusSet
<1>2. OneRowPerOrigin'
  BY <1>1 DEF OneRowPerOrigin
<1>3. OnlyOldestRuns'
  BY <1>1 DEF OnlyOldestRuns
<1>4. \A u, o : HasRow(u, o)' => HasRow(u, o)
  BY <1>1 DEF HasRow
<1>5. QED
  BY <1>1, <1>2, <1>3, <1>4 DEF NoNewRow

LEMMA TailKeeps ==
    ASSUME queue \in Seq(CheckRow), OneRowPerOrigin, OnlyOldestRuns, queue # <<>>,
           queue' = Tail(queue)
    PROVE  NoNewRow
<1>1. /\ queue' \in Seq(CheckRow) /\ Len(queue') = Len(queue) - 1
      /\ \A i \in 1..Len(queue') : queue'[i] = queue[i + 1]
      /\ Len(queue) \in Nat
  BY OldestGone
<1>2. \A i \in 1..Len(queue') : i + 1 \in 2..Len(queue) /\ i + 1 \in 1..Len(queue)
  BY <1>1
<1>3. OneRowPerOrigin'
  <2>1. ASSUME NEW i \in 1..Len(queue'), NEW j \in 1..Len(queue'),
               queue'[i].user = queue'[j].user, queue'[i].origin = queue'[j].origin
        PROVE  i = j
    <3>1. i + 1 = j + 1
      BY <1>1, <1>2, <2>1 DEF OneRowPerOrigin
    <3>2. QED
      BY <3>1
  <2>2. QED
    BY <2>1 DEF OneRowPerOrigin
<1>4. OnlyOldestRuns'
  <2>1. \A i \in 2..Len(queue') : i \in 1..Len(queue')
    BY <1>1
  <2>2. QED
    BY <1>1, <1>2, <2>1 DEF OnlyOldestRuns
<1>5. \A u, o : HasRow(u, o)' => HasRow(u, o)
  BY <1>1, <1>2 DEF HasRow
<1>6. QED
  BY <1>1, <1>3, <1>4, <1>5 DEF NoNewRow

\* New rows queue behind the others; they are of users without one of their origin.
LEMMA AddedKeeps ==
    ASSUME queue \in Seq(CheckRow), OneRowPerOrigin, OnlyOldestRuns,
           NEW rows \in Seq(CheckRow), queue' = queue \o rows,
           \A i \in 1..Len(rows) : /\ rows[i].status = "queued"
                                   /\ ~HasRow(rows[i].user, rows[i].origin),
           \A i, j \in 1..Len(rows) :
               rows[i].user = rows[j].user /\ rows[i].origin = rows[j].origin => i = j
    PROVE  /\ queue' \in Seq(CheckRow) /\ OneRowPerOrigin' /\ OnlyOldestRuns'
           /\ queue # <<>> => queue' # <<>> /\ Head(queue') = Head(queue)
           /\ \A u, o : HasRow(u, o)' =>
                  \/ HasRow(u, o)
                  \/ \E i \in 1..Len(rows) : rows[i].user = u /\ rows[i].origin = o
<1>1. /\ queue' \in Seq(CheckRow) /\ Len(queue') = Len(queue) + Len(rows)
      /\ \A i \in 1..Len(queue) : queue'[i] = queue[i]
      /\ \A i \in 1..Len(queue') : i > Len(queue) => queue'[i] = rows[i - Len(queue)]
      /\ Len(queue) \in Nat /\ Len(rows) \in Nat
  BY RowsAdded
<1>2. ASSUME NEW i \in 1..Len(queue')
      PROVE  \/ i \in 1..Len(queue) /\ queue'[i] = queue[i]
             \/ /\ i > Len(queue) /\ i - Len(queue) \in 1..Len(rows)
                /\ queue'[i] = rows[i - Len(queue)]
  BY <1>1
<1>3. OneRowPerOrigin'
  <2>1. ASSUME NEW i \in 1..Len(queue'), NEW j \in 1..Len(queue'),
               queue'[i].user = queue'[j].user, queue'[i].origin = queue'[j].origin
        PROVE  i = j
    <3>1. CASE i \in 1..Len(queue) /\ j \in 1..Len(queue)
      BY <1>1, <2>1, <3>1 DEF OneRowPerOrigin
    <3>2. CASE i > Len(queue) /\ j > Len(queue)
      <4>1. i - Len(queue) = j - Len(queue)
        BY <1>1, <1>2, <2>1, <3>2
      <4>2. QED
        BY <1>1, <4>1
    <3>3. CASE i \in 1..Len(queue) /\ j > Len(queue)
      <4>1. j - Len(queue) \in 1..Len(rows) /\ queue'[j] = rows[j - Len(queue)]
        BY <1>1, <3>3
      <4>2. QED
        BY <1>1, <2>1, <3>3, <4>1 DEF HasRow
    <3>4. CASE j \in 1..Len(queue) /\ i > Len(queue)
      <4>1. i - Len(queue) \in 1..Len(rows) /\ queue'[i] = rows[i - Len(queue)]
        BY <1>1, <3>4
      <4>2. QED
        BY <1>1, <2>1, <3>4, <4>1 DEF HasRow
    <3>5. QED
      BY <1>2, <3>1, <3>2, <3>3, <3>4
  <2>2. QED
    BY <2>1 DEF OneRowPerOrigin
<1>4. OnlyOldestRuns'
  <2>1. ASSUME NEW i \in 2..Len(queue')
        PROVE  queue'[i].status = "queued"
    <3>1. i \in 1..Len(queue') /\ (i \in 1..Len(queue) => i \in 2..Len(queue))
      BY <1>1
    <3>2. QED
      BY <1>2, <3>1 DEF OnlyOldestRuns
  <2>2. QED
    BY <2>1 DEF OnlyOldestRuns
<1>5. queue # <<>> => queue' # <<>> /\ Head(queue') = Head(queue)
  BY <1>1
<1>6. ASSUME NEW u, NEW o, HasRow(u, o)'
      PROVE  \/ HasRow(u, o)
             \/ \E i \in 1..Len(rows) : rows[i].user = u /\ rows[i].origin = o
  <2>1. PICK i \in 1..Len(queue') : queue'[i].user = u /\ queue'[i].origin = o
    BY <1>6 DEF HasRow
  <2>2. QED
    BY <1>2, <2>1 DEF HasRow
<1>7. QED
  BY <1>1, <1>3, <1>4, <1>5, <1>6

-----------------------------------------------------------------------------
(* Enqueueing *)

Working(w) == worker[w].pc \in {"calling", "collecting", "ending"}

LEMMA OrderedInit ==
    ASSUME QueueAssumption, Init
    PROVE  Ordered
<1>1. queue \in Seq(CheckRow) /\ queue = <<>> /\ Len(queue) = 0
  BY DEF Init
<1>2. Typed
  <2>1. queue \in Seq([user : User, origin : Origin, status : {"queued", "running"}])
    BY <1>1 DEF CheckRow
  <2>2. /\ holder \in Worker \cup {None}
        /\ worker \in [Worker -> [pc : {"idle", "calling", "collecting", "ending", "late",
                                        "orphan"},
                                  user : User \cup {None}]]
        /\ client \in [Client -> [pc : {"idle", "enqueue"}, user : User \cup {None},
                                  found : BOOLEAN]]
    BY DEF Init
  <2>3. /\ collecting \in [User -> Worker \cup {Free, Mail}]
        /\ batch \in [locked : SUBSET User, adds : SUBSET User]
        /\ losses \in Nat /\ syncs \in Nat
    BY DEF Init, NoBatch
  <2>4. /\ due \in [User -> BOOLEAN] /\ active \in [User -> BOOLEAN]
        /\ cooling \in BOOLEAN
    BY DEF Init
  <2>5. open \in [User -> BOOLEAN]
    <3>1. \A u \in User : (u \in Scheduled) \in BOOLEAN
      OBVIOUS
    <3>2. open = [u \in User |-> u \in Scheduled]
      BY DEF Init
    <3>3. QED
      BY <3>1, <3>2, Zenon
  <2>6. References
    BY DEF Init, References
  <2>7. QED
    BY <2>1, <2>2, <2>3, <2>4, <2>5, <2>6 DEF Typed, TypeOK
<1>3. LockedOnce /\ StillMissing
  BY DEF Init, LockedOnce, StillMissing, NoBatch
<1>4. OneRowPerOrigin /\ OnlyOldestRuns /\ HolderOwnsOldest
  BY <1>1 DEF Init, OneRowPerOrigin, OnlyOldestRuns, HolderOwnsOldest
<1>5. QED
  BY <1>2, <1>3, <1>4 DEF Ordered

LEMMA BeginManualOrdered ==
    ASSUME Ordered, NEW c \in Client, NEW u \in User, BeginManual(c, u)
    PROVE  Ordered'
<1>1. /\ client'[c] = [pc |-> "enqueue", user |-> u, found |-> HasRow(u, "manual")]
      /\ \A d \in Client \ {c} : client'[d] = client[d]
      /\ UNCHANGED <<queue, holder, worker, batch>>
  BY DEF BeginManual, Ordered, Typed, TypeOK
<1>2. HasRow(u, "manual") \in BOOLEAN
  BY DEF HasRow
<1>3. Typed'
  BY <1>1, <1>2 DEF BeginManual, Ordered, Typed, TypeOK, References
<1>4. /\ u \notin batch.locked
      /\ \A d \in Client : client[d].pc = "enqueue" => client[d].user # u
  BY DEF BeginManual, PrefLocked
<1>5. LockedOnce'
  BY <1>1, <1>4 DEF Ordered, LockedOnce
<1>6. StillMissing'
  BY <1>1, <1>2 DEF Ordered, StillMissing, HasRow
<1>7. (OneRowPerOrigin /\ OnlyOldestRuns /\ HolderOwnsOldest)'
  BY <1>1 DEF Ordered, OneRowPerOrigin, OnlyOldestRuns, HolderOwnsOldest
<1>8. QED
  BY <1>3, <1>5, <1>6, <1>7 DEF Ordered

LEMMA CommitManualOrdered ==
    ASSUME Ordered, NEW c \in Client, CommitManual(c)
    PROVE  Ordered'
<1>1. PICK u \in User : u = client[c].user
  BY DEF CommitManual, Ordered, Typed, References
<1>2. /\ client[c].pc = "enqueue" /\ client'[c].pc = "idle"
      /\ \A d \in Client \ {c} : client'[d] = client[d]
      /\ client' \in [Client -> [pc : {"idle", "enqueue"}, user : User \cup {None},
                                found : BOOLEAN]]
      /\ UNCHANGED <<holder, worker, batch>>
  BY DEF CommitManual, Ordered, Typed, TypeOK
<1>3. LockedOnce'
  BY <1>2 DEF Ordered, LockedOnce
<1>4. References'
  BY <1>2 DEF Ordered, Typed, References
<1>5. queue \in Seq(CheckRow)
  BY DEF Ordered, Typed, TypeOK, CheckRow
<1>6. CASE client[c].found
  <2>1. queue' = queue
    BY <1>6 DEF CommitManual
  <2>2. TypeOK'
    BY <1>2, <2>1 DEF CommitManual, Ordered, Typed, TypeOK
  <2>3. StillMissing'
    BY <1>2, <2>1 DEF Ordered, StillMissing, HasRow
  <2>4. (OneRowPerOrigin /\ OnlyOldestRuns /\ HolderOwnsOldest)'
    BY <1>2, <2>1 DEF Ordered, OneRowPerOrigin, OnlyOldestRuns, HolderOwnsOldest
  <2>5. QED
    BY <1>3, <1>4, <2>2, <2>3, <2>4 DEF Ordered, Typed
<1>7. CASE ~client[c].found
  <2> DEFINE row == Row(u, "manual", "queued")
             rows == <<row>>
  <2>1. row \in CheckRow /\ rows \in Seq(CheckRow) /\ Len(rows) = 1 /\ rows[1] = row
    BY DEF Row, CheckRow, Origin
  <2>2. queue' = Append(queue, row)
    BY <1>1, <1>7 DEF CommitManual
  <2>3. queue' = queue \o rows
    BY <1>5, <2>1, <2>2, AppendIsConcat
  <2>4. ~HasRow(u, "manual")
    BY <1>1, <1>2, <1>7 DEF Ordered, StillMissing
  <2>5. row.user = u /\ row.origin = "manual" /\ row.status = "queued"
    BY DEF Row
  <2>6. /\ queue' \in Seq(CheckRow) /\ OneRowPerOrigin' /\ OnlyOldestRuns'
        /\ queue # <<>> => queue' # <<>> /\ Head(queue') = Head(queue)
        /\ \A v, o : HasRow(v, o)' => HasRow(v, o) \/ (v = u /\ o = "manual")
    <3>1. \A i \in 1..Len(rows) : /\ rows[i].status = "queued"
                                  /\ ~HasRow(rows[i].user, rows[i].origin)
      BY <2>1, <2>4, <2>5
    <3>2. \A i, j \in 1..Len(rows) : i = j
      BY <2>1
    <3> HIDE DEF row, rows
    <3>3. /\ queue' \in Seq(CheckRow) /\ OneRowPerOrigin' /\ OnlyOldestRuns'
          /\ queue # <<>> => queue' # <<>> /\ Head(queue') = Head(queue)
          /\ \A v, o : HasRow(v, o)' =>
                 \/ HasRow(v, o)
                 \/ \E i \in 1..Len(rows) : rows[i].user = v /\ rows[i].origin = o
      BY <1>5, <2>1, <2>3, <3>1, <3>2, AddedKeeps DEF Ordered
    <3>4. QED
      BY <2>1, <2>5, <3>3
  <2>7. TypeOK'
    BY <1>2, <2>6 DEF CommitManual, Ordered, Typed, TypeOK, CheckRow
  <2>8. StillMissing'
    <3>1. \A d \in Client : client'[d].pc = "enqueue" =>
              client'[d] = client[d] /\ client[d].user # u
      BY <1>1, <1>2 DEF Ordered, LockedOnce
    <3>2. u \notin batch.adds
      BY <1>1, <1>2 DEF Ordered, LockedOnce
    <3>3. QED
      BY <1>2, <2>6, <3>1, <3>2 DEF Ordered, StillMissing
  <2>9. HolderOwnsOldest'
    BY <1>2, <2>6 DEF Ordered, HolderOwnsOldest
  <2>10. QED
    BY <1>3, <1>4, <2>6, <2>7, <2>8, <2>9 DEF Ordered, Typed
<1>8. QED
  BY <1>6, <1>7

LEMMA BeginTickOrdered ==
    ASSUME Ordered, BeginTick
    PROVE  Ordered'
<1> DEFINE found == {u \in User : due[u] /\ ~PrefLocked(u)}
<1>1. /\ batch' = [locked |-> found, adds |-> {u \in found : TickWanted(u)}]
      /\ UNCHANGED <<queue, holder, worker, client, collecting, due, open, active,
                     cooling, losses, syncs>>
  BY DEF BeginTick
<1>2. /\ batch'.locked = found /\ batch'.adds = {u \in found : TickWanted(u)}
      /\ batch' \in [locked : SUBSET User, adds : SUBSET User]
  BY <1>1
<1>3. Typed'
  BY <1>1, <1>2 DEF Ordered, Typed, TypeOK, References
<1>4. LockedOnce'
  BY <1>1, <1>2 DEF Ordered, LockedOnce, PrefLocked
<1>5. StillMissing'
  BY <1>1, <1>2 DEF Ordered, StillMissing, TickWanted, HasRow
<1>6. (OneRowPerOrigin /\ OnlyOldestRuns /\ HolderOwnsOldest)'
  BY <1>1 DEF Ordered, OneRowPerOrigin, OnlyOldestRuns, HolderOwnsOldest
<1>7. QED
  BY <1>3, <1>4, <1>5, <1>6 DEF Ordered

LEMMA CommitTickOrdered ==
    ASSUME QueueAssumption, Ordered, CommitTick
    PROVE  Ordered'
<1>1. /\ batch' = NoBatch /\ due' = [u \in User |-> due[u] /\ u \notin batch.locked]
      /\ UNCHANGED <<holder, worker, client, collecting, open, active, cooling, losses,
                     syncs>>
  BY DEF CommitTick
<1>2. batch.adds \subseteq User
  BY DEF Ordered, Typed, TypeOK
<1>3. Cardinality(batch.adds) \in Nat
  BY <1>2, FS_Subset, FS_CardinalityType DEF QueueAssumption
<1>4. PICK s \in SetToSeqs(batch.adds) :
          queue' = queue \o [i \in 1..Len(s) |-> Row(s[i], "scheduled", "queued")]
  BY DEF CommitTick
<1>5. /\ s \in Seq(batch.adds) /\ Len(s) \in Nat
      /\ \A i \in 1..Len(s) : s[i] \in batch.adds
      /\ \A i, j \in 1..Len(s) : s[i] = s[j] => i = j
  BY <1>3, <1>4 DEF SetToSeqs
<1> DEFINE rows == [i \in 1..Len(s) |-> Row(s[i], "scheduled", "queued")]
<1>6. /\ rows \in Seq(CheckRow) /\ Len(rows) = Len(s)
      /\ \A i \in 1..Len(rows) : /\ rows[i].user = s[i] /\ rows[i].origin = "scheduled"
                                 /\ rows[i].status = "queued"
  <2>1. \A i \in 1..Len(s) : Row(s[i], "scheduled", "queued") \in CheckRow
    BY <1>2, <1>5 DEF Row, CheckRow, Origin
  <2>2. rows \in Seq(CheckRow) /\ Len(rows) = Len(s)
    BY <1>5, <2>1
  <2>3. QED
    BY <2>2 DEF Row
<1>7. queue' = queue \o rows
  BY <1>4
<1> HIDE DEF rows
<1>8. \A i \in 1..Len(rows) : ~HasRow(rows[i].user, rows[i].origin)
  BY <1>5, <1>6 DEF Ordered, StillMissing, Origin
<1>9. \A i, j \in 1..Len(rows) :
          rows[i].user = rows[j].user /\ rows[i].origin = rows[j].origin => i = j
  BY <1>5, <1>6
<1>10. /\ queue' \in Seq(CheckRow) /\ OneRowPerOrigin' /\ OnlyOldestRuns'
       /\ queue # <<>> => queue' # <<>> /\ Head(queue') = Head(queue)
       /\ \A u, o : HasRow(u, o)' =>
              \/ HasRow(u, o)
              \/ \E i \in 1..Len(rows) : rows[i].user = u /\ rows[i].origin = o
  <2>1. queue \in Seq(CheckRow)
    BY DEF Ordered, Typed, TypeOK, CheckRow
  <2>2. QED
    BY <1>6, <1>7, <1>8, <1>9, <2>1, AddedKeeps DEF Ordered
<1>11. Typed'
  <2>1. batch' \in [locked : SUBSET User, adds : SUBSET User]
    BY <1>1 DEF NoBatch
  <2>2. due' \in [User -> BOOLEAN]
    <3>1. \A u \in User : (due[u] /\ u \notin batch.locked) \in BOOLEAN
      OBVIOUS
    <3>2. QED
      BY <1>1, <3>1, Zenon
  <2>3. QED
    BY <1>1, <1>10, <2>1, <2>2 DEF Ordered, Typed, TypeOK, References, CheckRow
<1>12. LockedOnce'
  BY <1>1 DEF Ordered, LockedOnce, NoBatch
<1>13. StillMissing'
  BY <1>1, <1>6, <1>10 DEF Ordered, StillMissing, NoBatch
<1>14. HolderOwnsOldest'
  BY <1>1, <1>10 DEF Ordered, HolderOwnsOldest
<1>15. QED
  BY <1>10, <1>11, <1>12, <1>13, <1>14 DEF Ordered

\* Slots, working hours and accounts, the cooldown and mailbox refreshes.
LEMMA OtherOrdered ==
    ASSUME Ordered,
           \/ \E u \in User : SlotDue(u) \/ SetOpen(u) \/ Deactivate(u)
           \/ CooldownOver
           \/ \E u \in User : BeginSync(u) \/ EndSync(u)
           \/ UNCHANGED vars
    PROVE  Ordered'
<1>1. UNCHANGED <<queue, holder, worker, client, batch>>
  BY DEF SlotDue, SetOpen, Deactivate, CooldownOver, BeginSync, EndSync, vars
<1>2. Typed'
  <2>1. /\ due' \in [User -> BOOLEAN] /\ open' \in [User -> BOOLEAN]
        /\ active' \in [User -> BOOLEAN] /\ cooling' \in BOOLEAN
    BY DEF SlotDue, SetOpen, Deactivate, CooldownOver, BeginSync, EndSync, vars, Ordered,
           Typed, TypeOK
  <2>2. /\ collecting' \in [User -> Worker \cup {Free, Mail}]
        /\ losses' \in Nat /\ syncs' \in Nat
    BY DEF SlotDue, SetOpen, Deactivate, CooldownOver, BeginSync, EndSync, vars, Ordered,
           Typed, TypeOK
  <2>3. QED
    BY <1>1, <2>1, <2>2 DEF Ordered, Typed, TypeOK, References
<1>3. QED
  BY <1>1, <1>2
     DEF Ordered, LockedOnce, StillMissing, HasRow, OneRowPerOrigin, OnlyOldestRuns,
         HolderOwnsOldest

-----------------------------------------------------------------------------
(* Workers *)

WorkerType ==
    [pc : {"idle", "calling", "collecting", "ending", "late", "orphan"},
     user : User \cup {None}]

\* Workers insert no row and lock no preference.
LEMMA WorkerFrame ==
    ASSUME Ordered, UNCHANGED <<client, batch, due, open, active>>,
           queue' = queue \/ NoNewRow,
           holder' \in Worker \cup {None}, worker' \in [Worker -> WorkerType],
           \A w \in Worker : worker'[w].pc # "idle" => worker'[w].user \in User,
           collecting' \in [User -> Worker \cup {Free, Mail}],
           cooling' \in BOOLEAN, losses' \in Nat, syncs' = syncs,
           HolderOwnsOldest'
    PROVE  Ordered'
<1>1. queue' \in Seq(CheckRow) /\ OneRowPerOrigin' /\ OnlyOldestRuns'
  BY DEF NoNewRow, Ordered, OneRowPerOrigin, OnlyOldestRuns, Typed, TypeOK, CheckRow
<1>2. \A u, o : HasRow(u, o)' => HasRow(u, o)
  BY DEF NoNewRow, HasRow
<1>3. Typed'
  BY <1>1 DEF Ordered, Typed, TypeOK, References, CheckRow, WorkerType
<1>4. LockedOnce' /\ StillMissing'
  BY <1>2 DEF Ordered, LockedOnce, StillMissing
<1>5. QED
  BY <1>1, <1>3, <1>4 DEF Ordered

\* The lock of one who is gone is free, and who works has it alone.
LEMMA OneWorks ==
    ASSUME QueueAssumption, Ordered
    PROVE  /\ holder = None => \A v \in Worker : ~Working(v)
           /\ \A w, v \in Worker : Working(w) /\ Working(v) => w = v
BY DEF QueueAssumption, HolderAssumption, Ordered, HolderOwnsOldest, Working

LEMMA StartOrdered ==
    ASSUME QueueAssumption, Ordered, NEW w \in Worker, StartCheck(w)
    PROVE  Ordered'
<1>1. queue \in Seq(CheckRow) /\ queue # <<>> /\ queue[1] \in CheckRow
  <2>1. queue \in Seq(CheckRow) /\ queue # <<>>
    BY DEF StartCheck, Ordered, Typed, TypeOK, CheckRow
  <2>2. QED
    BY <2>1
<1>2. queue' = [queue EXCEPT ![1].status = "running"]
  BY DEF StartCheck, Oldest
<1>3. /\ NoNewRow /\ Len(queue') = Len(queue)
      /\ queue'[1] = Row(queue[1].user, queue[1].origin, "running")
  BY <1>1, <1>2, StatusKeeps DEF Ordered
<1>4. queue' # <<>> /\ Head(queue') = queue'[1]
  BY <1>1, <1>3 DEF NoNewRow
<1>5. /\ worker' = [worker EXCEPT ![w] = [pc |-> "calling", user |-> queue[1].user]]
      /\ holder' = w /\ holder = None
      /\ UNCHANGED <<client, batch, due, open, active, collecting, cooling, losses, syncs>>
  BY DEF StartCheck, Oldest
<1>6. /\ worker'[w] = [pc |-> "calling", user |-> queue[1].user]
      /\ \A v \in Worker \ {w} : worker'[v] = worker[v]
      /\ worker' \in [Worker -> WorkerType]
      /\ queue[1].user \in User
  BY <1>1, <1>5 DEF Ordered, Typed, TypeOK, CheckRow, WorkerType
<1>7. HolderOwnsOldest'
  <2>1. \A v \in Worker : worker'[v].pc \in {"calling", "collecting", "ending"} => v = w
    BY <1>5, <1>6, OneWorks DEF Working
  <2>2. Head(queue') = Row(worker'[w].user, Head(queue').origin, "running")
    BY <1>3, <1>4, <1>6 DEF Row
  <2>3. QED
    BY <1>4, <1>5, <2>1, <2>2 DEF HolderOwnsOldest
<1>8. QED
  BY <1>3, <1>5, <1>6, <1>7, WorkerFrame DEF Ordered, Typed, TypeOK, References

LEMMA SkipOrdered ==
    ASSUME QueueAssumption, Ordered, NEW w \in Worker, SkipCheck(w)
    PROVE  Ordered'
<1>1. NoNewRow
  BY TailKeeps DEF SkipCheck, Ordered, Typed, TypeOK, CheckRow
<1>2. HolderOwnsOldest'
  BY OneWorks DEF SkipCheck, HolderOwnsOldest, Working
<1>3. QED
  BY <1>1, <1>2, WorkerFrame
     DEF SkipCheck, Ordered, Typed, TypeOK, References, WorkerType

\* A collection begins or ends while the check keeps the global lock.
LEMMA CollectOrdered ==
    ASSUME QueueAssumption, Ordered, NEW w \in Worker, LockUser(w) \/ EndCollection(w)
    PROVE  Ordered'
<1>1. /\ UNCHANGED <<queue, holder, client, batch, due, open, active, cooling, losses,
                     syncs>>
      /\ Working(w) /\ worker[w].user \in User
  BY DEF LockUser, EndCollection, Working, Ordered, Typed, References
<1>2. /\ worker'[w].pc \in {"collecting", "ending"} /\ worker'[w].user = worker[w].user
      /\ \A v \in Worker \ {w} : worker'[v] = worker[v]
      /\ worker' \in [Worker -> WorkerType]
  BY DEF LockUser, EndCollection, Ordered, Typed, TypeOK, WorkerType
<1>3. collecting' \in [User -> Worker \cup {Free, Mail}]
  BY <1>1 DEF LockUser, EndCollection, Ordered, Typed, TypeOK
<1>4. HolderOwnsOldest'
  BY <1>1, <1>2 DEF Ordered, HolderOwnsOldest, Working
<1>5. QED
  BY <1>1, <1>2, <1>3, <1>4, WorkerFrame DEF Ordered, Typed, TypeOK, References

\* The lock is given up: the row goes back, ends, or stays as the lost connection left it.
LEMMA ReleaseOrdered ==
    ASSUME QueueAssumption, Ordered, NEW w \in Worker,
           Requeue(w) \/ EndCheck(w) \/ LoseConnection(w)
    PROVE  Ordered'
<1>1. Working(w) /\ worker[w].user \in User
  BY DEF Requeue, EndCheck, LoseConnection, Working, Ordered, Typed, References
<1>2. queue \in Seq(CheckRow) /\ queue # <<>>
  BY <1>1 DEF Working, Ordered, HolderOwnsOldest, Typed, TypeOK, CheckRow
<1>3. queue' = queue \/ NoNewRow
  <2>1. CASE Requeue(w)
    BY <1>2, <2>1, StatusKeeps DEF Requeue, Requeued, Ordered
  <2>2. CASE EndCheck(w)
    BY <1>2, <2>2, TailKeeps DEF EndCheck, Ordered
  <2>3. CASE LoseConnection(w)
    BY <2>3 DEF LoseConnection
  <2>4. QED
    BY <2>1, <2>2, <2>3
<1>4. /\ holder' = None
      /\ UNCHANGED <<client, batch, due, open, active, collecting, syncs>>
      /\ cooling' \in BOOLEAN /\ losses' \in Nat
  <2>1. cooling \in BOOLEAN /\ losses \in Nat
    BY DEF Ordered, Typed, TypeOK
  <2>2. CASE Requeue(w)
    BY <2>1, <2>2 DEF Requeue
  <2>3. CASE EndCheck(w)
    BY <2>1, <2>3 DEF EndCheck
  <2>4. CASE LoseConnection(w)
    BY <2>1, <2>4 DEF LoseConnection
  <2>5. QED
    BY <2>2, <2>3, <2>4
<1>5. \/ worker' = [worker EXCEPT ![w].pc = "late"]
      \/ worker' = [worker EXCEPT ![w].pc = "orphan"]
      \/ worker' = [worker EXCEPT ![w] = [pc |-> "idle", user |-> None]]
  BY DEF Requeue, EndCheck, LoseConnection, Idle
<1>6. /\ worker'[w].pc \in {"late", "orphan", "idle"}
      /\ worker'[w].pc # "idle" => worker'[w].user = worker[w].user
      /\ \A v \in Worker \ {w} : worker'[v] = worker[v]
      /\ worker' \in [Worker -> WorkerType]
  BY <1>5 DEF Ordered, Typed, TypeOK, WorkerType
<1>7. HolderOwnsOldest'
  BY <1>1, <1>6, OneWorks DEF HolderOwnsOldest, Working
<1>8. QED
  BY <1>1, <1>3, <1>4, <1>6, <1>7, WorkerFrame DEF Ordered, Typed, TypeOK, References

LEMMA OrphanOrdered ==
    ASSUME QueueAssumption, Ordered, NEW w \in Worker, LateLock(w) \/ EndOrphan(w)
    PROVE  Ordered'
<1>1. /\ UNCHANGED <<queue, holder, client, batch, due, open, active, cooling, losses,
                     syncs>>
      /\ worker[w].pc \in {"late", "orphan"} /\ worker[w].user \in User
  BY DEF LateLock, EndOrphan, Ordered, Typed, References
<1>2. \/ worker' = [worker EXCEPT ![w].pc = "orphan"]
      \/ worker' = [worker EXCEPT ![w] = [pc |-> "idle", user |-> None]]
  BY DEF LateLock, EndOrphan, Idle
<1>3. /\ worker'[w].pc \in {"orphan", "idle"}
      /\ worker'[w].pc # "idle" => worker'[w].user = worker[w].user
      /\ \A v \in Worker \ {w} : worker'[v] = worker[v]
      /\ worker' \in [Worker -> WorkerType]
  BY <1>2 DEF Ordered, Typed, TypeOK, WorkerType
<1>4. collecting' \in [User -> Worker \cup {Free, Mail}]
  BY <1>1 DEF LateLock, EndOrphan, Ordered, Typed, TypeOK
<1>5. HolderOwnsOldest'
  BY <1>1, <1>3 DEF Ordered, HolderOwnsOldest
<1>6. QED
  BY <1>1, <1>3, <1>4, <1>5, WorkerFrame DEF Ordered, Typed, TypeOK, References

LEMMA OrderedStep ==
    ASSUME QueueAssumption, Ordered, [Next]_vars
    PROVE  Ordered'
BY BeginManualOrdered, CommitManualOrdered, BeginTickOrdered, CommitTickOrdered,
   OtherOrdered, StartOrdered, SkipOrdered, CollectOrdered, ReleaseOrdered, OrphanOrdered
   DEF Next, EnqueueNext, CheckNext

\* However clicks in several tabs, API processes, the scheduler and workers that lose
\* their connections interleave, no user has two unfinished checks of one origin, only the
\* oldest check runs, and who ends a check removes the row it ran.
THEOREM ChecksInOrderAlways ==
    ASSUME QueueAssumption
    PROVE  Spec => [](OneRowPerOrigin /\ OnlyOldestRuns /\ HolderOwnsOldest)
<1>1. Init => Ordered
  BY OrderedInit
<1>2. Ordered /\ [Next]_vars => Ordered'
  BY OrderedStep
<1>3. Ordered => OneRowPerOrigin /\ OnlyOldestRuns /\ HolderOwnsOldest
  BY DEF Ordered
<1>4. QED
  BY <1>1, <1>2, <1>3, PTL DEF Spec

-----------------------------------------------------------------------------
(* Who adds a scheduled row *)

NoNewTick == \A u \in User : HasRow(u, "scheduled")' => HasRow(u, "scheduled")

LEMMA StatusAddsNothing ==
    ASSUME queue \in Seq(CheckRow), queue # <<>>, NEW s \in {"queued", "running"},
           queue' = [queue EXCEPT ![1].status = s]
    PROVE  NoNewTick
<1>1. /\ Len(queue') = Len(queue)
      /\ \A i \in 1..Len(queue) : /\ queue'[i].user = queue[i].user
                                  /\ queue'[i].origin = queue[i].origin
  BY StatusSet
<1>2. QED
  BY <1>1 DEF NoNewTick, HasRow

LEMMA TailAddsNothing ==
    ASSUME queue \in Seq(CheckRow), queue # <<>>, queue' = Tail(queue)
    PROVE  NoNewTick
<1>1. /\ Len(queue') = Len(queue) - 1 /\ Len(queue) \in Nat
      /\ \A i \in 1..Len(queue') : queue'[i] = queue[i + 1] /\ i + 1 \in 1..Len(queue)
  BY OldestGone
<1>2. QED
  BY <1>1 DEF NoNewTick, HasRow

LEMMA ManualIsNoTick ==
    ASSUME queue \in Seq(CheckRow), NEW c \in Client, CommitManual(c)
    PROVE  NoNewTick
<1> DEFINE row == Row(client[c].user, "manual", "queued")
<1>1. row.origin = "manual"
  BY DEF Row
<1>2. queue' = queue \/ queue' = Append(queue, row)
  BY DEF CommitManual
<1> HIDE DEF row
<1>3. CASE queue' = queue
  BY <1>3 DEF NoNewTick, HasRow
<1>4. CASE queue' = Append(queue, row)
  <2>1. /\ Len(queue) \in Nat /\ Len(queue') = Len(queue) + 1
        /\ queue'[Len(queue) + 1] = row
        /\ \A i \in 1..Len(queue) : queue'[i] = queue[i]
    BY <1>4, AppendProperties
  <2>2. \A i \in 1..Len(queue') : i \in 1..Len(queue) \/ i = Len(queue) + 1
    BY <2>1
  <2>3. QED
    BY <1>1, <2>1, <2>2 DEF NoNewTick, HasRow
<1>5. QED
  BY <1>2, <1>3, <1>4

\* The scheduler adds the checks it found missing when it locked the preferences.
LEMMA TickAddsMissing ==
    ASSUME QueueAssumption, Ordered, CommitTick
    PROVE  \A u \in User :
               HasRow(u, "scheduled")' => HasRow(u, "scheduled") \/ u \in batch.adds
<1>1. queue \in Seq(CheckRow) /\ batch.adds \subseteq User
  BY DEF Ordered, Typed, TypeOK, CheckRow
<1>2. Cardinality(batch.adds) \in Nat
  BY <1>1, FS_Subset, FS_CardinalityType DEF QueueAssumption
<1>3. PICK s \in SetToSeqs(batch.adds) :
          queue' = queue \o [i \in 1..Len(s) |-> Row(s[i], "scheduled", "queued")]
  BY DEF CommitTick
<1>4. Len(s) \in Nat /\ \A i \in 1..Len(s) : s[i] \in batch.adds
  BY <1>2, <1>3 DEF SetToSeqs
<1> DEFINE rows == [i \in 1..Len(s) |-> Row(s[i], "scheduled", "queued")]
<1>5. rows \in Seq(CheckRow) /\ Len(rows) = Len(s)
      /\ \A i \in 1..Len(rows) : rows[i].user \in batch.adds
  <2>1. \A i \in 1..Len(s) : Row(s[i], "scheduled", "queued") \in CheckRow
    BY <1>1, <1>4 DEF Row, CheckRow, Origin
  <2>2. rows \in Seq(CheckRow) /\ Len(rows) = Len(s)
    BY <1>4, <2>1
  <2>3. QED
    BY <1>4, <2>2 DEF Row
<1>6. queue' = queue \o rows
  BY <1>3
<1> HIDE DEF rows
<1>7. /\ Len(queue') = Len(queue) + Len(rows)
      /\ \A i \in 1..Len(queue) : queue'[i] = queue[i]
      /\ \A i \in 1..Len(queue') : i > Len(queue) => queue'[i] = rows[i - Len(queue)]
  <2>1. rows \in Seq(CheckRow)
    BY <1>5
  <2>2. QED
    BY <1>1, <1>6, <2>1, RowsAdded
<1>8. ASSUME NEW u \in User, HasRow(u, "scheduled")'
      PROVE  HasRow(u, "scheduled") \/ u \in batch.adds
  <2>1. PICK i \in 1..Len(queue') : queue'[i].user = u /\ queue'[i].origin = "scheduled"
    BY <1>8 DEF HasRow
  <2> Len(queue) \in Nat /\ Len(rows) \in Nat
    BY <1>1, <1>5
  <2>2. CASE i > Len(queue)
    <3>1. i - Len(queue) \in 1..Len(rows)
      BY <1>7, <2>2
    <3>2. QED
      BY <1>5, <1>7, <2>1, <2>2, <3>1
  <2>3. CASE ~(i > Len(queue))
    <3>1. i \in 1..Len(queue)
      BY <1>7, <2>3
    <3>2. QED
      BY <1>7, <2>1, <3>1 DEF HasRow
  <2>4. QED
    BY <2>2, <2>3
<1>9. QED
  BY <1>8

LEMMA OtherAddsNoTick ==
    ASSUME QueueAssumption, Ordered, [Next]_vars, ~CommitTick
    PROVE  NoNewTick
<1>1. queue \in Seq(CheckRow)
  BY DEF Ordered, Typed, TypeOK, CheckRow
<1>2. ASSUME queue' = queue
      PROVE  NoNewTick
  BY <1>2 DEF NoNewTick, HasRow
<1>3. ASSUME NEW w \in Worker, StartCheck(w) \/ SkipCheck(w)
      PROVE  NoNewTick
  BY <1>1, <1>3, StatusAddsNothing, TailAddsNothing DEF StartCheck, SkipCheck, Oldest
<1>4. ASSUME NEW w \in Worker, Requeue(w) \/ EndCheck(w)
      PROVE  NoNewTick
  <2>1. queue # <<>>
    BY <1>4 DEF Requeue, EndCheck, Ordered, HolderOwnsOldest
  <2>2. QED
    BY <1>1, <1>4, <2>1, StatusAddsNothing, TailAddsNothing DEF Requeue, EndCheck, Requeued
<1>5. \/ UNCHANGED queue
      \/ \E c \in Client : CommitManual(c)
      \/ \E w \in Worker : StartCheck(w) \/ SkipCheck(w) \/ Requeue(w) \/ EndCheck(w)
  <2>1. \A c \in Client, u \in User : BeginManual(c, u) => UNCHANGED queue
    BY DEF BeginManual
  <2>2. /\ \A u \in User : SlotDue(u) \/ SetOpen(u) \/ Deactivate(u) => UNCHANGED queue
        /\ BeginTick => UNCHANGED queue
    BY DEF SlotDue, SetOpen, Deactivate, BeginTick
  <2>3. \A w \in Worker :
            LockUser(w) \/ EndCollection(w) \/ LoseConnection(w) \/ LateLock(w) \/ EndOrphan(w)
            => UNCHANGED queue
    BY DEF LockUser, EndCollection, LoseConnection, LateLock, EndOrphan
  <2>4. /\ \A u \in User : BeginSync(u) \/ EndSync(u) => UNCHANGED queue
        /\ CooldownOver \/ UNCHANGED vars => UNCHANGED queue
    BY DEF BeginSync, EndSync, CooldownOver, vars
  <2>5. QED
    BY <2>1, <2>2, <2>3, <2>4 DEF Next, EnqueueNext, CheckNext
<1>6. QED
  BY <1>1, <1>2, <1>3, <1>4, <1>5, ManualIsNoTick

\* A tick of the scheduler never adds a check for a user who has one: what it found
\* missing when it locked the preference is still missing when it commits, whatever
\* requests and workers did in between.
THEOREM TickOnlyWhenIdleAlways ==
    ASSUME QueueAssumption
    PROVE  Spec => TickOnlyWhenIdle
<1>1. Init => Ordered
  BY OrderedInit
<1>2. Ordered /\ [Next]_vars => Ordered'
  BY OrderedStep
<1>3. ASSUME Ordered, [Next]_vars
      PROVE  \A u \in User :
                 ~HasRow(u, "scheduled") /\ HasRow(u, "scheduled")' => ~HasRow(u, "manual")
  <2>1. \A u \in batch.adds : ~HasRow(u, "manual")
    BY <1>3 DEF Ordered, StillMissing, Origin
  <2>2. QED
    BY <1>3, <2>1, TickAddsMissing, OtherAddsNoTick DEF NoNewTick
<1>4. Ordered /\ [Next]_vars =>
          [\A u \in User :
              ~HasRow(u, "scheduled") /\ HasRow(u, "scheduled")' => ~HasRow(u, "manual")]_queue
  BY <1>3
<1>5. QED
  BY <1>1, <1>2, <1>4, PTL DEF Spec, TickOnlyWhenIdle

\* The queue, the locks and the connections keep their shapes.
THEOREM TypeCorrect ==
    ASSUME QueueAssumption
    PROVE  Spec => []TypeOK
<1>1. Init => Ordered
  BY OrderedInit
<1>2. Ordered /\ [Next]_vars => Ordered'
  BY OrderedStep
<1>3. Ordered => TypeOK
  BY DEF Ordered, Typed
<1>4. QED
  BY <1>1, <1>2, <1>3, PTL DEF Spec
=============================================================================
