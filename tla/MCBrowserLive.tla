---------------------------- MODULE MCBrowserLive ----------------------------
(* What the page must end: the recording of a terminal, the connection to a *)
(* device and the workbench overview.  They share no state, so a behaviour  *)
(* is one of the part in focus, and the other parts keep their initial      *)
(* states.                                                                  *)
EXTENDS Naturals, Sequences

CONSTANTS
    None, QueueLimit, RotateAt, MaxOutput, MaxRecoveries,
    Kinds, Call, Chunks, MaxTyped, MaxPastes, MaxOpens, MaxLeaves, MaxErrors,
    Filter, Unread, MaxMoves, MaxChanges, MaxFailures

VARIABLES
    focus,
    received, status, accepting, timer, jobs, stage, rec, buffer, cache, part, exists,
    recovered, elsewhere, recovery, interrupted,
    kind, session, shell, link, epoch, call, closer, release, reader, queue, sending,
    paste, preview, wire, typed, pastes, leaves, errors,
    selection, overview, waiting, fetches, polling, interacting, dragging, moved, action,
    saved, moves, changes, failures

recorderVars == <<received, status, accepting, timer, jobs, stage, rec, buffer, cache, part,
                  exists, recovered, elsewhere, recovery, interrupted>>
sessionVars == <<kind, session, shell, link, epoch, call, closer, release, reader, queue,
                 sending, paste, preview, wire, typed, pastes, leaves, errors>>
overviewVars == <<selection, overview, waiting, fetches, polling, interacting, dragging,
                  moved, action, saved, moves, changes, failures>>

Recorder == INSTANCE TerminalRecorder
Session == INSTANCE DeviceSession
Cards == INSTANCE Overview

ASSUME RecorderHolds == Recorder!RecorderBounds
ASSUME SessionHolds == Session!SessionAssumption
ASSUME CardsHold == Cards!OverviewAssumption

\* A part that does not move begins in one of its initial states, whichever.
Settled ==
    /\ focus # "session" => kind = CHOOSE k \in Kinds : TRUE
    /\ focus # "overview" => selection = CHOOSE s \in Cards!Selection : s.page = 1

Init ==
    /\ focus \in {"recorder", "session", "overview"}
    /\ Recorder!Init /\ Session!Init /\ Cards!Init /\ Settled

Next ==
    \/ focus = "recorder" /\ Recorder!Next /\ UNCHANGED <<focus, sessionVars, overviewVars>>
    \/ focus = "session" /\ Session!Next /\ UNCHANGED <<focus, recorderVars, overviewVars>>
    \/ focus = "overview" /\ Cards!Next /\ UNCHANGED <<focus, recorderVars, sessionVars>>

\* The fairness of module Overview, asked of its own behaviours only: the first
\* request of the page is under way when it opens.
CardsFair ==
    /\ WF_overviewVars(focus = "overview" /\ Cards!Poll)
    /\ WF_overviewVars(focus = "overview" /\ \E f \in fetches : Cards!Serve(f))
    /\ WF_overviewVars(focus = "overview" /\ \E f \in fetches :
                                                 Cards!Answered(f) \/ Cards!Ignored(f))
    /\ WF_overviewVars(Cards!PollReturns)
    /\ WF_overviewVars(Cards!ActEnds) /\ WF_overviewVars(Cards!Drop)
    /\ WF_overviewVars(Cards!Save) /\ WF_overviewVars(Cards!Saved)

\* No fair action of the recorder or the session is enabled in their initial states.
Spec ==
    /\ Init /\ [][Next]_<<focus, recorderVars, sessionVars, overviewVars>>
    /\ Recorder!Fairness /\ Session!Fairness /\ CardsFair

-----------------------------------------------------------------------------
(* Properties *)

\* The recorder, the session and the overview keep their shapes.
TypeOK == Recorder!TypeOK /\ Session!TypeOK /\ Cards!TypeOK

\* The log files, one after the other, are the beginning of the output, whatever was
\* retried or rotated, and only a recovery that was interrupted leaves output twice.
FileIsOutput == Recorder!PartsArePrefix /\ Recorder!NoDuplicates

\* "Stopped and saved": nothing accepted is in memory or in the cache only.
StoppedIsSaved == Recorder!StoppedIsSaved

\* Output that was once cached or in a file is never lost again: not when a file
\* is rotated or rewritten after a failure, when the cache is updated behind the
\* file, when a recovery ends, or when the tab dies anywhere in between.
NeverForgotten == Recorder!NeverForgotten

\* What reaches a device was asked for on the very connection it goes through: a
\* command typed before the port went away is not delivered after the recovery, nor to
\* the next device (the double check of enqueue).
NothingReplayed == Session!NothingReplayed

\* The Enter of a bracketed paste follows the whole paste, closed, with no interrupt
\* and no other command in between, on one connection (sendPaste).
EnterEndsWholePaste == Session!EnterEndsWholePaste

\* An open transport always has somebody who will close it, and a connection in use is
\* the one of the latest connect call, with no disconnect asked for since.
NoOrphanLink == Session!NoOrphanLink /\ Session!ConnectedIsCurrent

\* A disconnect ends, whatever was in flight when it was asked for; a stop of the
\* recorder ends, saved or with an error; while nothing fails, output reaches a file.
RequestsEnd == Session!DisconnectEnds /\ Recorder!StopEnds /\ Recorder!OutputReachesFile

\* Whatever answers came late, were ignored during a drag or belonged to an earlier
\* selection: once the user leaves the overview alone it shows the selected cards in
\* the order that was saved, also at the moments when it polls again.
CatchesUp == focus = "overview" => Cards!CatchesUp
=============================================================================
