------------------------------- MODULE Overview -------------------------------
(***************************************************************************)
(* The overview of the workbench (components/workbench/workbench-page.tsx, *)
(* with hooks/use-polling.ts): what the page shows of the selected         *)
(* account, period, state and page, while it polls, while the user drags   *)
(* cards into another order and while an action that was begun under an    *)
(* earlier selection ends and fetches with the selection of that time.     *)
(*                                                                         *)
(* The order of the cards is a number: 0 at first, n after the n-th move.  *)
(***************************************************************************)
EXTENDS Naturals

CONSTANTS
    Filter,      \* selections of account, period and state
    Unread,
    MaxMoves,    \* bound: moves of a card
    MaxChanges,  \* bound: other selections, actions, drags, refreshes
    MaxFailures  \* bound: requests that fail

OverviewAssumption ==
    /\ Unread \notin Nat /\ MaxMoves \in Nat /\ MaxChanges \in Nat /\ MaxFailures \in Nat

VARIABLES
    selection,    \* filter and page of the controls
    overview,     \* data: the selection it answers and its order, or Unread
    waiting,      \* `loading`
    fetches,      \* requests of the present version
    polling,      \* a poll was begun and has not returned
    interacting,  \* a card is dragged, or its move is being saved
    dragging,     \* a card is in the air
    moved,        \* the save of a move: pc, order and the order before
    action,       \* selection of the action under way, or Unread
    saved,        \* server: order of the cards
    moves, changes, failures

overviewVars == <<selection, overview, waiting, fetches, polling, interacting,
                  dragging, moved, action, saved, moves, changes, failures>>

Selection == [filter : Filter, page : 1 .. 2]

Request(s, by) == [selection |-> s, by |-> by, order |-> Unread]

Still == [pc |-> "no", order |-> 0, before |-> 0]

Init ==
    /\ selection \in {s \in Selection : s.page = 1} /\ overview = Unread /\ waiting = TRUE
    /\ fetches = {Request(selection, "effect")} /\ polling = FALSE
    /\ interacting = FALSE /\ dragging = FALSE /\ moved = Still
    /\ action = Unread /\ saved = 0
    /\ moves = 0 /\ changes = 0 /\ failures = 0

Count == changes < MaxChanges /\ changes' = changes + 1

-----------------------------------------------------------------------------
(* fetchData *)

\* fetchData(quiet) increments the version: older requests are not looked at.
Fetch(s, by) == fetches' = {Request(s, by)}

\* The effect of another fetchData: the requests of the old one die with the
\* version, the interval of the poll begins anew.
Effect == Fetch(selection', "effect") /\ waiting' = TRUE /\ polling' = FALSE

Select(s) ==
    /\ s # selection /\ Count /\ (s.filter = selection.filter \/ s.page = 1)
    /\ selection' = s /\ Effect
    /\ UNCHANGED <<overview, interacting, dragging, moved, action, saved, moves, failures>>

\* The refresh button; disabled while loading.
Refresh ==
    /\ ~waiting /\ Count /\ Fetch(selection, "button") /\ waiting' = TRUE
    /\ UNCHANGED <<selection, overview, polling, interacting, dragging, moved, action,
                   saved, moves, failures>>

\* use-polling: the next poll waits for the end of the one before; fetchData
\* returns at once while the user interacts.
Poll ==
    /\ ~polling /\ ~interacting /\ polling' = TRUE /\ Fetch(selection, "poll")
    /\ UNCHANGED <<selection, overview, waiting, interacting, dragging, moved, action,
                   saved, moves, changes, failures>>

\* A poll that a newer version replaced returns.
PollReturns ==
    /\ polling /\ \A f \in fetches : f.by # "poll"
    /\ polling' = FALSE
    /\ UNCHANGED <<selection, overview, waiting, fetches, interacting, dragging, moved,
                   action, saved, moves, changes, failures>>

\* The server reads the order.
Serve(f) ==
    /\ f \in fetches /\ f.order = Unread
    /\ fetches' = {[f EXCEPT !.order = saved]}
    /\ UNCHANGED <<selection, overview, waiting, polling, interacting, dragging, moved,
                   action, saved, moves, changes, failures>>

Quiet(f) == f.by \in {"poll", "action"}

Returned(f) ==
    /\ polling' = (polling /\ f.by # "poll")
    /\ waiting' = FALSE /\ fetches' = {}

\* A quiet answer is not looked at while the user interacts.
Ignored(f) ==
    /\ f \in fetches /\ f.order # Unread /\ Quiet(f) /\ interacting /\ Returned(f)
    /\ UNCHANGED <<selection, overview, interacting, dragging, moved, action, saved,
                   moves, changes, failures>>

\* setData and setPage: a page that differs from the present one, that of an
\* action begun earlier, runs the effect.
Answered(f) ==
    /\ f \in fetches /\ f.order # Unread /\ ~(Quiet(f) /\ interacting)
    /\ overview' = [selection |-> f.selection, order |-> f.order]
    /\ selection' = [selection EXCEPT !.page = f.selection.page]
    /\ IF selection' = selection THEN Returned(f) ELSE Effect
    /\ UNCHANGED <<interacting, dragging, moved, action, saved, moves, changes, failures>>

FetchFails(f) ==
    /\ f \in fetches /\ failures < MaxFailures /\ failures' = failures + 1 /\ Returned(f)
    /\ UNCHANGED <<selection, overview, interacting, dragging, moved, action, saved,
                   moves, changes>>

-----------------------------------------------------------------------------
(* actions and moves *)

\* perform, submit, checkUpdates.
Act ==
    /\ action = Unread /\ overview # Unread /\ Count /\ action' = selection
    /\ UNCHANGED <<selection, overview, waiting, fetches, polling, interacting, dragging,
                   moved, saved, moves, failures>>

\* The action ends with fetchData(true) of the render it was begun in.
ActEnds ==
    /\ action # Unread /\ action' = Unread
    /\ IF interacting THEN UNCHANGED fetches ELSE Fetch(action, "action")
    /\ UNCHANGED <<selection, overview, waiting, polling, interacting, dragging, moved,
                   saved, moves, changes, failures>>

ActFails ==
    /\ action # Unread /\ failures < MaxFailures /\ failures' = failures + 1
    /\ action' = Unread
    /\ UNCHANGED <<selection, overview, waiting, fetches, polling, interacting, dragging,
                   moved, saved, moves, changes>>

Drag ==
    /\ overview # Unread /\ ~dragging /\ moved = Still /\ Count
    /\ dragging' = TRUE /\ interacting' = TRUE
    /\ UNCHANGED <<selection, overview, waiting, fetches, polling, moved, action, saved,
                   moves, failures>>

\* Dropped on nothing, or cancelled.
Drop ==
    /\ dragging /\ dragging' = FALSE /\ interacting' = FALSE
    /\ UNCHANGED <<selection, overview, waiting, fetches, polling, moved, action, saved,
                   moves, changes, failures>>

\* reorder: the new order is shown at once.
Move ==
    /\ dragging /\ dragging' = FALSE /\ moves < MaxMoves /\ moves' = moves + 1
    /\ interacting' = TRUE
    /\ moved' = [pc |-> "put", order |-> moves + 1, before |-> overview.order]
    /\ overview' = [overview EXCEPT !.order = moves + 1]
    /\ UNCHANGED <<selection, waiting, fetches, polling, action, saved, changes, failures>>

Save ==
    /\ moved.pc = "put" /\ moved' = [moved EXCEPT !.pc = "saved"] /\ saved' = moved.order
    /\ UNCHANGED <<selection, overview, waiting, fetches, polling, interacting, dragging,
                   action, moves, changes, failures>>

\* Mutant of LetGo: only a save that works ends the interaction.
LetGoWhenSaved == interacting' = (moved.pc # "saved")

\* The finally block of reorder.
LetGo == interacting' = FALSE

Saved ==
    /\ moved.pc = "saved" /\ moved' = Still /\ LetGo
    /\ UNCHANGED <<selection, overview, waiting, fetches, polling, dragging, action, saved,
                   moves, changes, failures>>

\* The request, or only its answer, is lost: the order before is shown.
SaveFails ==
    /\ moved # Still /\ failures < MaxFailures /\ failures' = failures + 1
    /\ moved' = Still /\ LetGo
    /\ overview' = [overview EXCEPT !.order = moved.before]
    /\ UNCHANGED <<selection, waiting, fetches, polling, dragging, action, saved, moves, changes>>

Next ==
    \/ \E s \in Selection : Select(s)
    \/ \E f \in fetches : Serve(f) \/ Ignored(f) \/ Answered(f) \/ FetchFails(f)
    \/ Refresh \/ Poll \/ PollReturns \/ Act \/ ActEnds \/ ActFails
    \/ Drag \/ Drop \/ Move \/ Save \/ Saved \/ SaveFails

Spec == Init /\ [][Next]_overviewVars

\* Requests are answered or fail, intervals end, a card does not stay in the air.
Fairness ==
    /\ WF_overviewVars(Poll) /\ WF_overviewVars(PollReturns)
    /\ WF_overviewVars(\E f \in fetches : Serve(f))
    /\ WF_overviewVars(\E f \in fetches : Answered(f) \/ Ignored(f))
    /\ WF_overviewVars(ActEnds) /\ WF_overviewVars(Drop)
    /\ WF_overviewVars(Save) /\ WF_overviewVars(Saved)

FairSpec == Spec /\ Fairness

-----------------------------------------------------------------------------

\* The selection, the data and the requests keep their shapes.
TypeOK ==
    /\ selection \in Selection
    /\ overview = Unread \/ overview \in [selection : Selection, order : Nat]
    /\ {waiting, polling, interacting, dragging} \subseteq BOOLEAN
    /\ \A f \in fetches : /\ f.selection \in Selection /\ f.order \in Nat \cup {Unread}
                          /\ f.by \in {"effect", "button", "poll", "action"}
    /\ moved \in [pc : {"no", "put", "saved"}, order : Nat, before : Nat]
    /\ action \in Selection \cup {Unread}
    /\ {saved, moves, changes, failures} \subseteq Nat

\* Whatever answers came late, were ignored during a drag or belonged to an earlier
\* selection: once the user leaves the page alone it shows the selected cards in the
\* order that was saved, also at the moments when it polls again.
CatchesUp ==
    <>[](overview # Unread /\ overview.selection = selection /\ overview.order = saved)
=============================================================================
