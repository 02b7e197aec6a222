----------------------------- MODULE RemotePress -----------------------------
(***************************************************************************)
(* The virtual remote control (remote-press.ts, remote-control.tsx): a key *)
(* that is held repeats its command over a serial line, whose session      *)
(* writes one command after the other (enqueue of device-session.ts).      *)
(*                                                                         *)
(* A press is a number, as the code compares objects and not keys; 0 is    *)
(* none.  Keys without a code send nothing and are left out.               *)
(***************************************************************************)
EXTENDS Naturals, Sequences

CONSTANTS
    MaxPresses,  \* bound: presses
    MaxPlugs     \* bound: changes of the connection

RemoteAssumption == MaxPresses \in Nat /\ MaxPlugs \in Nat

VARIABLES
    presses,  \* presses so far
    repeats,  \* is the key of a press one that repeats
    hold,     \* held, the press the controller works for
    clock,    \* the timer it remembers, by its press
    timers,   \* presses whose timer runs
    lane,     \* commands of the session's queue, the head first
    plug,     \* the connection of the session: up, and its number
    panel,    \* the component: mounted, the presses before it (since), and whether the
              \* pointer and the keyboard hold a key down
    down,     \* history: the press under the finger
    after     \* history: commands of a press that left after its key was released

remoteVars == <<presses, repeats, hold, clock, timers, lane, plug, panel, down, after>>

Press == 1 .. MaxPresses

Unmounted == [mounted |-> FALSE, since |-> 0, pointer |-> FALSE, keyboard |-> FALSE]

Init ==
    /\ presses = 0 /\ repeats = [p \in Press |-> FALSE] /\ hold = 0 /\ clock = 0 /\ timers = {}
    /\ lane = <<>> /\ plug = [up |-> FALSE, number |-> 0]
    /\ panel = Unmounted /\ down = 0 /\ after = [p \in Press |-> 0]

\* stop(): only the timer that is remembered is cleared.
Stop == hold' = 0 /\ clock' = 0 /\ timers' = timers \ {clock}

\* transmit(): nothing is queued for a line that is not connected.
Queued(p) == Append(lane, [press |-> p, number |-> plug.number, started |-> FALSE])

\* start(): the press before it is over.
Start(repeating) ==
    LET p == presses + 1 IN
    /\ panel.mounted /\ presses < MaxPresses /\ presses' = p
    /\ repeats' = [repeats EXCEPT ![p] = repeating]
    /\ clock' = 0 /\ timers' = timers \ {clock}
    /\ IF plug.up THEN hold' = p /\ lane' = Queued(p) ELSE hold' = 0 /\ UNCHANGED lane

PointerDown(repeating) ==
    /\ Start(repeating) /\ panel' = [panel EXCEPT !.pointer = TRUE] /\ down' = presses'
    /\ UNCHANGED <<plug, after>>

KeyDown(repeating) ==
    /\ ~panel.keyboard /\ Start(repeating)
    /\ panel' = [panel EXCEPT !.keyboard = TRUE] /\ down' = presses'
    /\ UNCHANGED <<plug, after>>

\* A click of an assistive device: start and stop in one step.
Click(repeating) ==
    /\ panel.mounted /\ ~panel.keyboard /\ presses < MaxPresses /\ presses' = presses + 1
    /\ repeats' = [repeats EXCEPT ![presses'] = repeating]
    /\ Stop /\ lane' = IF plug.up THEN Queued(presses') ELSE lane
    /\ down' = 0 /\ UNCHANGED <<plug, panel, after>>

\* The pointer leaves the key or is released; the key of the keyboard is, or loses the
\* focus; the window loses it, or is hidden.
Release(still) ==
    /\ panel.mounted /\ still # panel /\ panel' = still /\ Stop /\ down' = 0
    /\ UNCHANGED <<presses, repeats, lane, plug, after>>

PointerEnds == Release([panel EXCEPT !.pointer = FALSE])

KeyEnds == Release([panel EXCEPT !.keyboard = FALSE])

WindowLeft == Release([panel EXCEPT !.pointer = FALSE, !.keyboard = FALSE])

Mount ==
    /\ ~panel.mounted /\ panel' = [panel EXCEPT !.mounted = TRUE, !.since = presses]
    /\ UNCHANGED <<presses, repeats, hold, clock, timers, lane, plug, down, after>>

Unmount ==
    /\ panel.mounted /\ panel' = Unmounted /\ Stop /\ down' = 0
    /\ UNCHANGED <<presses, repeats, lane, plug, after>>

\* The line is connected or lost: the effect of the component stops the press.
Replug ==
    /\ plug.number < MaxPlugs /\ plug' = [up |-> ~plug.up, number |-> plug.number + 1]
    /\ IF panel.mounted THEN Stop ELSE UNCHANGED <<hold, clock, timers>>
    /\ UNCHANGED <<presses, repeats, lane, panel, down, after>>

-----------------------------------------------------------------------------
(* the timer and the queue of the session *)

\* repeat(): for a press that is not held any more nothing happens.
Fire(p) ==
    /\ p \in timers /\ clock' = 0 /\ timers' = timers \ {p}
    /\ IF hold # p THEN UNCHANGED <<hold, lane>>
       ELSE IF plug.up THEN lane' = Queued(p) /\ UNCHANGED hold
       ELSE hold' = 0 /\ UNCHANGED lane
    /\ UNCHANGED <<presses, repeats, plug, panel, down, after>>

Deliverable == lane # <<>> /\ ~lane[1].started /\ plug.up /\ lane[1].number = plug.number

\* The head of the queue goes to the port of the connection it was queued for.
Transmit ==
    /\ Deliverable /\ lane' = [lane EXCEPT ![1].started = TRUE]
    /\ after' = [after EXCEPT ![lane[1].press] = IF down = lane[1].press THEN @ ELSE @ + 1]
    /\ UNCHANGED <<presses, repeats, hold, clock, timers, plug, panel, down>>

\* The next command is timed when the one before it was written, and the key still held.
Written ==
    /\ lane # <<>> /\ lane[1].started /\ lane' = Tail(lane)
    /\ LET p == lane[1].press IN
       IF hold = p /\ repeats[p] THEN clock' = p /\ timers' = timers \cup {p}
       ELSE UNCHANGED <<clock, timers>>
    /\ UNCHANGED <<presses, repeats, hold, plug, panel, down, after>>

\* A write fails, or is refused by another connection: whatever its component holds is
\* stopped, also a later press.
WriteFails ==
    /\ lane # <<>> /\ ~Deliverable /\ lane' = Tail(lane)
    /\ IF lane[1].press > panel.since THEN Stop ELSE UNCHANGED <<hold, clock, timers>>
    /\ UNCHANGED <<presses, repeats, plug, panel, down, after>>

Next ==
    \/ \E repeating \in BOOLEAN :
           PointerDown(repeating) \/ KeyDown(repeating) \/ Click(repeating)
    \/ PointerEnds \/ KeyEnds \/ WindowLeft \/ Mount \/ Unmount \/ Replug
    \/ \E p \in Press : Fire(p)
    \/ Transmit \/ Written \/ WriteFails

Spec == Init /\ [][Next]_remoteVars

-----------------------------------------------------------------------------

\* Presses, timers and commands keep their shapes.
TypeOK ==
    /\ presses \in 0 .. MaxPresses /\ repeats \in [Press -> BOOLEAN]
    /\ {hold, clock, down} \subseteq 0 .. MaxPresses /\ timers \subseteq Press
    /\ lane \in Seq([press : Press, number : Nat, started : BOOLEAN])
    /\ plug \in [up : BOOLEAN, number : Nat]
    /\ panel \in [mounted : BOOLEAN, since : Nat, pointer : BOOLEAN, keyboard : BOOLEAN]
    /\ after \in [Press -> Nat]

\* "No repeat queue can keep changing channels/volume after release, even on a slow
\* serial port" (remote-press.ts): a press has one command in the queue or one timer at a
\* time, so that at most one of its commands leaves after the key was released.
NoRepeatAfterRelease ==
    /\ \A p \in Press : after[p] <= 1 /\ (p \in timers => hold = p)
    /\ \A m, n \in DOMAIN lane : lane[m].press = lane[n].press => m = n
    /\ \A n \in DOMAIN lane : lane[n].press \notin timers
=============================================================================
