----------------------------- MODULE TerminalView -----------------------------
(***************************************************************************)
(* The terminal's screen (terminal-view.tsx) fed by the session's output   *)
(* (device-session.ts): output waits in pending, a timer hands it to the   *)
(* emulator in pieces, and one piece at a time is being parsed.            *)
(*                                                                         *)
(* Output is 1, 2, 3...; Erase is the code that clear sends.               *)
(***************************************************************************)
EXTENDS Naturals, Sequences

CONSTANTS
    Limit,       \* what the transcript and pending hold, 500000 in the code
    Piece,       \* what one write takes, 32768 in the code
    Burst,       \* the longest output of one call
    MaxEmitted,  \* bound: output of the session
    MaxClears,   \* bound: clears
    MaxMounts    \* bound: times the view is shown

ViewAssumption ==
    /\ Limit \in Nat \ {0} /\ Piece \in Nat \ {0} /\ Burst \in Nat \ {0}
    /\ MaxEmitted \in Nat /\ MaxClears \in Nat /\ MaxMounts \in Nat

VARIABLES
    emitted,     \* output so far
    clearedAt,   \* history: emitted at the last clear
    transcript,  \* session.transcript
    view,        \* of the mounted view: shown, pending, reset, writing (the piece being
                 \* parsed), timer
    screen,      \* what the emulator has parsed since its last reset
    clears, mounts

viewVars == <<emitted, clearedAt, transcript, view, screen, clears, mounts>>

Erase == 0

\* What the emulator shows of a piece: Erase, always the first of it, shows nothing.
Parsed(s) == IF s # <<>> /\ s[1] = Erase THEN Tail(s) ELSE s

Latest(s, n) == SubSeq(s, IF Len(s) > n THEN Len(s) - n + 1 ELSE 1, Len(s))

Hidden == [shown |-> FALSE, pending |-> <<>>, reset |-> FALSE, writing |-> <<>>,
           timer |-> FALSE]

Init ==
    /\ emitted = 0 /\ clearedAt = 0 /\ transcript = <<>>
    /\ view = Hidden /\ screen = <<>>
    /\ clears = 0 /\ mounts = 0

\* A new timer, unless one is armed or a write will go on by itself.
Armed(v) == [v EXCEPT !.timer = v.timer \/ v.writing = <<>>]

\* The receiver of the view: an overflow starts over from the transcript t.
Overflowed(v, t) ==
    IF Len(v.pending) > Limit THEN [v EXCEPT !.pending = t, !.reset = TRUE] ELSE v

Received(v, data, t) == Armed(Overflowed([v EXCEPT !.pending = v.pending \o data], t))

\* Mutant of Cleared: the emulator is not reset before the next write.
ClearedUnreset(v) == Armed([v EXCEPT !.pending = <<Erase>>])

Cleared(v) == Armed([v EXCEPT !.pending = <<Erase>>, !.reset = TRUE])

Output(n) ==
    /\ emitted + n <= MaxEmitted /\ emitted' = emitted + n
    /\ LET data == [i \in 1 .. n |-> emitted + i]
       IN /\ transcript' = Latest(transcript \o data, Limit)
          /\ view' = IF view.shown THEN Received(view, data, transcript') ELSE view
    /\ UNCHANGED <<clearedAt, screen, clears, mounts>>

Clear ==
    /\ clears < MaxClears /\ clears' = clears + 1
    /\ transcript' = <<>> /\ clearedAt' = emitted
    /\ view' = IF view.shown THEN Cleared(view) ELSE view
    /\ UNCHANGED <<emitted, screen, mounts>>

\* The view appears with an empty emulator and writes the transcript first.
Mount ==
    /\ ~view.shown /\ mounts < MaxMounts /\ mounts' = mounts + 1
    /\ view' = [Hidden EXCEPT !.shown = TRUE, !.pending = transcript, !.timer = TRUE]
    /\ screen' = <<>>
    /\ UNCHANGED <<emitted, clearedAt, transcript, clears>>

Unmount ==
    /\ view.shown /\ view' = Hidden /\ screen' = <<>>
    /\ UNCHANGED <<emitted, clearedAt, transcript, clears, mounts>>

\* pump: the emulator is reset if asked for, and gets the next piece.
Pump ==
    /\ view.timer
    /\ IF view.writing # <<>> \/ view.pending = <<>>
       THEN view' = [view EXCEPT !.timer = FALSE] /\ UNCHANGED screen
       ELSE /\ screen' = IF view.reset THEN <<>> ELSE screen
            /\ LET n == IF Len(view.pending) > Piece THEN Piece ELSE Len(view.pending)
               IN view' = [view EXCEPT !.timer = FALSE, !.reset = FALSE,
                                       !.writing = SubSeq(view.pending, 1, n),
                                       !.pending = SubSeq(view.pending, n + 1,
                                                          Len(view.pending))]
    /\ UNCHANGED <<emitted, clearedAt, transcript, clears, mounts>>

\* The emulator has parsed the piece: the callback of write.
Written ==
    /\ view.writing # <<>>
    /\ screen' = screen \o Parsed(view.writing)
    /\ view' = [view EXCEPT !.writing = <<>>, !.timer = view.pending # <<>>]
    /\ UNCHANGED <<emitted, clearedAt, transcript, clears, mounts>>

Next ==
    \/ \E n \in 1 .. Burst : Output(n)
    \/ Clear \/ Mount \/ Unmount \/ Pump \/ Written

Spec == Init /\ [][Next]_viewVars

-----------------------------------------------------------------------------
(* properties *)

\* The view, the transcript and the screen keep their shapes.
TypeOK ==
    /\ emitted \in 0 .. MaxEmitted /\ clearedAt \in 0 .. emitted
    /\ transcript \in Seq(1 .. MaxEmitted) /\ Len(transcript) <= Limit
    /\ view.shown \in BOOLEAN /\ view.reset \in BOOLEAN /\ view.timer \in BOOLEAN
    /\ view.pending \in Seq(0 .. MaxEmitted) /\ view.writing \in Seq(0 .. MaxEmitted)
    /\ screen \in Seq(1 .. MaxEmitted)

\* What the screen will show once what is pending has been written.
Coming ==
    IF view.reset THEN Parsed(view.pending)
    ELSE screen \o Parsed(view.writing) \o Parsed(view.pending)

\* Whatever arrives, is cleared or overflows while a piece is being parsed, the screen
\* ends up as an unbroken tail of the output since the last clear, no shorter than the
\* transcript, and what waits is never left without a timer or a write that goes on.
ScreenFollows ==
    view.shown =>
        /\ Coming = [i \in 1 .. Len(Coming) |-> emitted - Len(Coming) + i]
        /\ Len(transcript) <= Len(Coming) /\ Len(Coming) <= emitted - clearedAt
        /\ view.pending # <<>> => view.timer \/ view.writing # <<>>
=============================================================================
