--------------------------- MODULE ServerLiveProofs ---------------------------
(***************************************************************************)
(* The bound on waiting in the rotation of MCServerLive, for any users,    *)
(* automations, jobs and orders: how often the oldest job of a user can be *)
(* passed over by the user's other automations.                            *)
(***************************************************************************)
EXTENDS MCServerLive, SequenceTheorems, FiniteSetTheorems, TLAPS

-----------------------------------------------------------------------------
(* Turns *)

\* Of numbers within one round of n.
LEMMA Rounds ==
    ASSUME NEW n \in Nat \ {0}, NEW x \in Int, 0 - n <= x, x < n
    PROVE  x % n = IF x >= 0 THEN x ELSE x + n
  OBVIOUS

\* The turn of an automation with rank a after that with rank l.
After(l, a, n) == (a - l - 1) % n

LEMMA AfterIs ==
    ASSUME NEW n \in Nat \ {0}, NEW l \in Nat, NEW a \in Nat, l < n, a < n
    PROVE  /\ After(l, a, n) \in Nat /\ After(l, a, n) < n
           /\ After(l, a, n) = IF a > l THEN a - l - 1 ELSE a - l - 1 + n
<1>1. a - l - 1 \in Int /\ 0 - n <= a - l - 1 /\ a - l - 1 < n
  OBVIOUS
<1>2. After(l, a, n) = IF a - l - 1 >= 0 THEN a - l - 1 ELSE a - l - 1 + n
  BY <1>1, Rounds DEF After
<1>3. QED
  BY <1>1, <1>2

\* Who is served takes its turns from all who come behind it.
LEMMA AfterServed ==
    ASSUME NEW n \in Nat \ {0}, NEW l \in Nat, NEW a \in Nat, NEW h \in Nat,
           l < n, a < n, h < n, a # h, After(l, a, n) <= After(l, h, n)
    PROVE  After(a, h, n) + 1 <= After(l, h, n)
<1>1. /\ After(l, a, n) = IF a > l THEN a - l - 1 ELSE a - l - 1 + n
      /\ After(l, h, n) = IF h > l THEN h - l - 1 ELSE h - l - 1 + n
      /\ After(a, h, n) = IF h > a THEN h - a - 1 ELSE h - a - 1 + n
  BY AfterIs
<1>2. QED
  BY <1>1

\* Both modules take these from FiniteSets.
LEMMA SameSets ==
    ASSUME NEW S
    PROVE  /\ Rotation!IsFiniteSet(S) <=> IsFiniteSet(S)
           /\ Rotation!Cardinality(S) = Cardinality(S)
<1>1. Rotation!IsFiniteSet(S) <=> IsFiniteSet(S)
  BY DEF IsFiniteSet, Rotation!IsFiniteSet
<1>2. Rotation!Cardinality(S) = Cardinality(S)
  BY DEF Cardinality, Rotation!Cardinality
<1>3. QED
  BY <1>1, <1>2

LEMMA Owners ==
    /\ Owner \in [Automation -> User] /\ IsFiniteSet(Automation) /\ None \notin Automation
    /\ Cardinality(Automation) \in Nat
    /\ \A u : Rotation!Count(u) \in Nat
<1>1. Owner \in [Automation -> User] /\ IsFiniteSet(Automation) /\ None \notin Automation
  BY RotationHolds, SameSets DEF Rotation!OwnerAssumption
<1>2. ASSUME NEW u PROVE Rotation!Count(u) \in Nat
  <2>1. Rotation!Owned(u) \subseteq Automation
    BY DEF Rotation!Owned
  <2>2. IsFiniteSet(Rotation!Owned(u))
    BY <1>1, <2>1, FS_Subset
  <2>3. QED
    BY <2>2, FS_CardinalityType, SameSets DEF Rotation!Count
<1>3. Cardinality(Automation) \in Nat
  BY <1>1, FS_CardinalityType
<1>4. QED
  BY <1>1, <1>2, <1>3

\* The ranks p of the automations that one user has.
LEMMA RanksOfUser ==
    ASSUME NEW p \in Rotation!Ranks, NEW a \in Automation
    PROVE  /\ p[a] \in Nat /\ p[a] < Rotation!Count(Owner[a])
           /\ Rotation!Count(Owner[a]) \in Nat \ {0}
           /\ \A b \in Automation : Owner[b] = Owner[a] /\ b # a => p[b] # p[a]
<1>1. /\ p \in [Automation -> 0..Cardinality(Automation)] /\ p[a] < Rotation!Count(Owner[a])
      /\ \A b \in Rotation!Owned(Owner[a]) : p[b] = p[a] => b = a
  BY SameSets DEF Rotation!Ranks
<1>2. p[a] \in Nat
  BY <1>1, Owners
<1>3. Rotation!Count(Owner[a]) \in Nat \ {0}
  BY <1>1, <1>2, Owners
<1>4. \A b \in Automation : Owner[b] = Owner[a] /\ b # a => p[b] # p[a]
  BY <1>1 DEF Rotation!Owned
<1>5. QED
  BY <1>1, <1>2, <1>3, <1>4

\* What Turn is with the ranks p and the automation l served last.
TurnOf(p, l, a) ==
    IF l = None THEN p[a] ELSE After(p[l], p[a], Rotation!Count(Owner[a]))

LEMMA TurnBelow ==
    ASSUME NEW p \in Rotation!Ranks, NEW a \in Automation,
           NEW l \in Automation \cup {None}, l # None => Owner[l] = Owner[a]
    PROVE  TurnOf(p, l, a) \in Nat /\ TurnOf(p, l, a) < Rotation!Count(Owner[a])
<1>1. CASE l = None
  BY <1>1, RanksOfUser DEF TurnOf
<1>2. CASE l # None
  <2>1. l \in Automation /\ Owner[l] = Owner[a]
    BY <1>2
  <2>2. /\ p[l] \in Nat /\ p[l] < Rotation!Count(Owner[a])
        /\ p[a] \in Nat /\ p[a] < Rotation!Count(Owner[a])
        /\ Rotation!Count(Owner[a]) \in Nat \ {0}
    BY <2>1, RanksOfUser
  <2>3. QED
    BY <1>2, <2>2, AfterIs DEF TurnOf
<1>3. QED
  BY <1>1, <1>2

LEMMA TurnServed ==
    ASSUME NEW p \in Rotation!Ranks, NEW a \in Automation, NEW h \in Automation,
           NEW l \in Automation \cup {None}, l # None => Owner[l] = Owner[h],
           Owner[a] = Owner[h], a # h, TurnOf(p, l, a) <= TurnOf(p, l, h)
    PROVE  TurnOf(p, a, h) + 1 <= TurnOf(p, l, h)
<1> DEFINE n == Rotation!Count(Owner[h])
<1>1. /\ p[a] \in Nat /\ p[a] < n /\ p[h] \in Nat /\ p[h] < n
      /\ n \in Nat \ {0} /\ p[a] # p[h]
  BY RanksOfUser
<1>2. TurnOf(p, a, h) = After(p[a], p[h], n)
  BY Owners DEF TurnOf
<1>3. CASE l = None
  <2>1. p[a] <= p[h] /\ TurnOf(p, l, h) = p[h]
    BY <1>3 DEF TurnOf
  <2>2. After(p[a], p[h], n) = IF p[h] > p[a] THEN p[h] - p[a] - 1 ELSE p[h] - p[a] - 1 + n
    BY <1>1, AfterIs
  <2>3. QED
    BY <1>1, <1>2, <2>1, <2>2
<1>4. CASE l # None
  <2>1. l \in Automation /\ Owner[l] = Owner[h]
    BY <1>4
  <2>2. p[l] \in Nat /\ p[l] < n
    BY <2>1, RanksOfUser
  <2>3. TurnOf(p, l, a) = After(p[l], p[a], n) /\ TurnOf(p, l, h) = After(p[l], p[h], n)
    BY <1>4 DEF TurnOf
  <2>4. QED
    BY <1>1, <1>2, <2>2, <2>3, AfterServed
<1>5. QED
  BY <1>3, <1>4

-----------------------------------------------------------------------------
(* The oldest job *)

RotationTyped ==
    /\ waiting \in Seq(Automation) /\ position \in Rotation!Ranks /\ passed \in Nat
    /\ last \in [User -> Automation \cup {None}]
    /\ \A u \in User : last[u] # None => Owner[last[u]] = u

\* What the oldest job of the queue q has been passed over by, and what is before it in
\* the rotation, are together fewer than the automations of its user.
TurnsLeft(q, p, l, n) ==
    IF q = <<>> THEN n = 0
    ELSE n + TurnOf(p, l[Owner[Head(q)]], Head(q)) < Rotation!Count(Owner[Head(q)])

RotationInv == RotationTyped /\ TurnsLeft(waiting, position, last, passed)

LEMMA TurnIs ==
    ASSUME RotationTyped, NEW a \in Automation
    PROVE  Rotation!Turn(Owner[a], a) = TurnOf(position, last[Owner[a]], a)
  BY DEF Rotation!Turn, TurnOf, After

LEMMA HeadOf ==
    ASSUME NEW q \in Seq(Automation), q # <<>>
    PROVE  /\ Head(q) \in Automation /\ Owner[Head(q)] \in User /\ Head(q) = q[1]
           /\ Len(q) \in Nat /\ 1 \in 1 .. Len(q)
<1>1. Len(q) \in Nat \ {0}
  BY EmptySeq, LenProperties
<1>2. Head(q) \in Automation /\ Head(q) = q[1]
  BY HeadTailProperties
<1>3. QED
  BY <1>1, <1>2, Owners

\* A count that begins again is within the bound.
LEMMA BeginsAgain ==
    ASSUME NEW q \in Seq(Automation), NEW p \in Rotation!Ranks,
           NEW l \in [User -> Automation \cup {None}],
           \A u \in User : l[u] # None => Owner[l[u]] = u
    PROVE  TurnsLeft(q, p, l, 0)
<1>1. CASE q = <<>>
  BY <1>1 DEF TurnsLeft
<1>2. CASE q # <<>>
  <2> DEFINE h == Head(q)
  <2>1. h \in Automation /\ Owner[h] \in User
    BY <1>2, HeadOf
  <2>2. l[Owner[h]] \in Automation \cup {None}
    BY <2>1
  <2>3. l[Owner[h]] # None => Owner[l[Owner[h]]] = Owner[h]
    BY <2>1
  <2>4. TurnOf(p, l[Owner[h]], h) \in Nat
        /\ TurnOf(p, l[Owner[h]], h) < Rotation!Count(Owner[h])
    BY <2>1, <2>2, <2>3, TurnBelow
  <2>5. QED
    BY <1>2, <2>4 DEF TurnsLeft
<1>3. QED
  BY <1>1, <1>2

LEMMA RotationInit ==
    ASSUME Rotation!Init
    PROVE  RotationInv
<1>1. waiting \in Seq(Automation)
  BY EmptySeq DEF Rotation!Init
<1>2. RotationTyped
  BY <1>1 DEF Rotation!Init, RotationTyped
<1>3. TurnsLeft(waiting, position, last, passed)
  BY DEF Rotation!Init, TurnsLeft
<1>4. QED
  BY <1>2, <1>3 DEF RotationInv

LEMMA EnqueueStep ==
    ASSUME RotationInv, NEW a \in Automation, Rotation!Enqueue(a)
    PROVE  RotationInv'
<1>1. RotationTyped /\ waiting' = Append(waiting, a)
      /\ UNCHANGED <<position, last, reorders, passed>>
  BY DEF RotationInv, Rotation!Enqueue
<1>2. /\ waiting' \in Seq(Automation)
      /\ waiting # <<>> => waiting' # <<>> /\ Head(waiting') = Head(waiting)
  <2>1. waiting \in Seq(Automation)
    BY <1>1 DEF RotationTyped
  <2>2. /\ Append(waiting, a) \in Seq(Automation)
        /\ Len(Append(waiting, a)) = Len(waiting) + 1
        /\ \A k \in 1 .. Len(waiting) : Append(waiting, a)[k] = waiting[k]
    BY <2>1, AppendProperties
  <2>3. ASSUME waiting # <<>>
        PROVE  waiting' # <<>> /\ Head(waiting') = Head(waiting)
    <3>1. Head(waiting) = waiting[1] /\ Len(waiting) \in Nat /\ 1 \in 1 .. Len(waiting)
      BY <2>1, <2>3, HeadOf
    <3>2. waiting' # <<>>
      BY <1>1, <2>2, <3>1, EmptySeq
    <3>3. Head(waiting') = waiting'[1]
      BY <1>1, <2>2, <3>2, HeadOf
    <3>4. QED
      BY <1>1, <2>2, <3>1, <3>2, <3>3
  <2>4. QED
    BY <1>1, <2>2, <2>3
<1>3. RotationTyped'
  BY <1>1, <1>2 DEF RotationTyped
<1>4. TurnsLeft(waiting', position', last', passed')
  <2>1. CASE waiting = <<>>
    <3>1. passed' = 0
      BY <1>1, <2>1 DEF RotationInv, TurnsLeft
    <3>2. QED
      BY <1>2, <1>3, <3>1, BeginsAgain DEF RotationTyped
  <2>2. CASE waiting # <<>>
    BY <1>1, <1>2, <2>2 DEF RotationInv, TurnsLeft
  <2>3. QED
    BY <2>1, <2>2
<1>5. QED
  BY <1>3, <1>4 DEF RotationInv

LEMMA ReorderStep ==
    ASSUME RotationInv, NEW p \in Rotation!Ranks, Rotation!Reorder(p)
    PROVE  RotationInv'
<1>1. RotationTyped'
  BY DEF RotationInv, RotationTyped, Rotation!Reorder
<1>2. passed' = 0
  BY DEF Rotation!Reorder
<1>3. TurnsLeft(waiting', position', last', passed')
  BY <1>1, <1>2, BeginsAgain DEF RotationTyped
<1>4. QED
  BY <1>1, <1>3 DEF RotationInv

\* The queue without its i-th job, and what it has at its head.
LEMMA WithoutJob ==
    ASSUME waiting \in Seq(Automation), NEW i \in 1 .. Len(waiting)
    PROVE  /\ Rotation!Without(i) \in Seq(Automation)
           /\ i # 1 => /\ Rotation!Without(i) # <<>>
                       /\ Head(Rotation!Without(i)) = Head(waiting)
<1> DEFINE w == Rotation!Without(i)
<1>1. Len(waiting) \in Nat \ {0} /\ waiting \in [1 .. Len(waiting) -> Automation]
  BY LenProperties
<1>2. Len(waiting) - 1 \in Nat
  BY <1>1
<1>3. w \in [1 .. Len(waiting) - 1 -> Automation]
  <2>1. \A k \in 1 .. Len(waiting) - 1 : waiting[k] \in Automation /\ waiting[k + 1] \in Automation
    BY <1>1
  <2>2. QED
    BY <2>1 DEF Rotation!Without
<1>4. w \in Seq(Automation) /\ Len(w) = Len(waiting) - 1
  <2>1. w \in Seq(Automation)
    BY <1>2, <1>3
  <2>2. QED
    BY <1>2, <1>3, <2>1, LenProperties
<1>5. ASSUME i # 1
      PROVE  w # <<>> /\ Head(w) = Head(waiting)
  <2>1. Len(w) \in Nat \ {0}
    BY <1>1, <1>4, <1>5
  <2>2. w # <<>> /\ waiting # <<>>
    BY <1>1, <2>1, EmptySeq
  <2>3. Head(w) = w[1] /\ Head(waiting) = waiting[1]
    BY <1>4, <2>2, HeadOf
  <2>4. w[1] = waiting[1]
    BY <1>1, <1>5, <1>4, <2>1 DEF Rotation!Without
  <2>5. QED
    BY <2>2, <2>3, <2>4
<1>6. QED
  BY <1>4, <1>5

LEMMA PickStep ==
    ASSUME RotationInv, NEW i \in 1 .. Len(waiting), Rotation!PickJob(i)
    PROVE  RotationInv'
<1> DEFINE h == Head(waiting)
           a == waiting[i]
           u == Owner[h]
<1>1. /\ RotationTyped /\ waiting # <<>> /\ Rotation!IsNext(u, a) /\ Rotation!IsOldest(i)
      /\ last' = [last EXCEPT ![u] = a] /\ waiting' = Rotation!Without(i)
      /\ passed' = IF i = 1 THEN 0 ELSE Rotation!Counted(passed + 1)
      /\ position' = position
  BY DEF RotationInv, Rotation!PickJob
<1>2. waiting \in Seq(Automation) /\ passed \in Nat
  BY <1>1 DEF RotationTyped
<1>3. h \in Automation /\ u \in User /\ h = waiting[1] /\ 1 \in 1 .. Len(waiting)
      /\ Len(waiting) \in Nat
  BY <1>1, <1>2, HeadOf
<1>4. a \in Automation /\ Owner[a] = u
  BY <1>1 DEF Rotation!IsNext, Rotation!Waiting, Rotation!Owned
<1>5. passed' \in Nat /\ (i # 1 => passed' <= passed + 1)
  BY <1>1, <1>2, Owners, SameSets DEF Rotation!Counted
<1>6. waiting' \in Seq(Automation) /\ (i # 1 => waiting' # <<>> /\ Head(waiting') = h)
  BY <1>1, <1>2, WithoutJob
<1>7. /\ last' \in [User -> Automation \cup {None}] /\ last'[u] = a
      /\ \A v \in User : last'[v] # None => Owner[last'[v]] = v
  BY <1>1, <1>3, <1>4 DEF RotationTyped
<1>8. RotationTyped'
  BY <1>1, <1>5, <1>6, <1>7 DEF RotationTyped
<1>9. TurnsLeft(waiting', position', last', passed')
  <2>1. CASE i = 1
    BY <1>1, <1>8, <2>1, BeginsAgain DEF RotationTyped
  <2>2. CASE i # 1
    <3>1. a # h
      BY <1>1, <1>3, <2>2 DEF Rotation!IsOldest
    <3>2. h \in Rotation!Waiting(u)
      BY <1>3 DEF Rotation!Waiting, Rotation!Owned
    <3>3. TurnOf(position, last[u], a) <= TurnOf(position, last[u], h)
      BY <1>1, <1>3, <1>4, <3>2, TurnIs DEF Rotation!IsNext
    <3>4. /\ position \in Rotation!Ranks /\ last[u] \in Automation \cup {None}
          /\ last[u] # None => Owner[last[u]] = u
      BY <1>1, <1>3 DEF RotationTyped
    <3>5. TurnOf(position, a, h) + 1 <= TurnOf(position, last[u], h)
      BY <1>3, <1>4, <3>1, <3>3, <3>4, TurnServed
    <3>6. TurnOf(position, a, h) \in Nat /\ TurnOf(position, last[u], h) \in Nat
      BY <1>3, <1>4, <3>4, TurnBelow
    <3>7. passed + TurnOf(position, last[u], h) < Rotation!Count(u)
      BY <1>1 DEF RotationInv, TurnsLeft
    <3>8. Rotation!Count(u) \in Nat
      BY Owners
    <3>9. passed' + TurnOf(position, a, h) < Rotation!Count(u)
      BY <1>2, <1>5, <2>2, <3>5, <3>6, <3>7, <3>8
    <3>10. QED
      BY <1>1, <1>6, <1>7, <2>2, <3>9 DEF TurnsLeft
  <2>3. QED
    BY <2>1, <2>2
<1>10. QED
  BY <1>8, <1>9 DEF RotationInv

LEMMA RotationStep ==
    ASSUME RotationInv, [Rotation!Next]_rotationVars
    PROVE  RotationInv'
<1>1. CASE UNCHANGED rotationVars
  BY <1>1 DEF RotationInv, RotationTyped, rotationVars
<1>2. ASSUME NEW a \in Automation, Rotation!Enqueue(a) PROVE RotationInv'
  BY <1>2, EnqueueStep
<1>3. ASSUME NEW p \in Rotation!Ranks, Rotation!Reorder(p) PROVE RotationInv'
  BY <1>3, ReorderStep
<1>4. CASE Rotation!PickSome
  BY <1>4, PickStep DEF Rotation!PickSome
<1>5. QED
  BY <1>1, <1>2, <1>3, <1>4 DEF Rotation!Next

\* The oldest queued job is overtaken by at most one job of each of its user's other
\* automations, for any number of automations and jobs, whatever arrives meanwhile
\* (pick_job): each job that overtakes it uses up turns that were before it.
THEOREM BoundedOvertakingAlways == PartsSpec => []BoundedOvertaking
<1>1. PartsInit => RotationInv
  BY RotationInit DEF PartsInit
<1>2. RotationInv /\ [PartsNext]_<<focus, vars, checkVars, rotationVars>> => RotationInv'
  <2>1. [PartsNext]_<<focus, vars, checkVars, rotationVars>> => [Rotation!Next]_rotationVars
    BY DEF PartsNext
  <2>2. QED
    BY <2>1, RotationStep
<1>3. RotationInv => BoundedOvertaking
  <2>1. SUFFICES ASSUME RotationInv, waiting # <<>>
                 PROVE  passed < Rotation!Count(Owner[Head(waiting)])
    BY DEF BoundedOvertaking, Rotation!BoundedOvertaking
  <2> DEFINE h == Head(waiting)
  <2>2. /\ waiting \in Seq(Automation) /\ position \in Rotation!Ranks /\ passed \in Nat
        /\ passed + TurnOf(position, last[Owner[h]], h) < Rotation!Count(Owner[h])
    BY <2>1 DEF RotationInv, RotationTyped, TurnsLeft
  <2>3. h \in Automation /\ Owner[h] \in User
    BY <2>1, <2>2, HeadOf
  <2>4. /\ last[Owner[h]] \in Automation \cup {None}
        /\ last[Owner[h]] # None => Owner[last[Owner[h]]] = Owner[h]
    BY <2>1, <2>3 DEF RotationInv, RotationTyped
  <2>5. TurnOf(position, last[Owner[h]], h) \in Nat
    BY <2>2, <2>3, <2>4, TurnBelow
  <2>6. QED
    BY <2>2, <2>5, Owners
<1>4. QED
  BY <1>1, <1>2, <1>3, PTL DEF PartsSpec
=============================================================================
