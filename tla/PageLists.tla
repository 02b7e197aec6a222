------------------------------ MODULE PageLists ------------------------------
(***************************************************************************)
(* The pages that list what a user filters and turns the pages of: the     *)
(* files of a folder, tickets, the catalog, saved device logs with their   *)
(* preview, and the jobs of an automation.  An effect of the page runs     *)
(* whenever the choice changes; its cleanup aborts the request, or stops   *)
(* the timer, of the choice before.                                        *)
(*                                                                         *)
(* One page is open at a time: `kind`.  A choice is a query and a page     *)
(* number; rows are named by the choice they answer.                       *)
(***************************************************************************)
EXTENDS Naturals

CONSTANTS
    None,
    Queries,    \* number of queries
    MaxChanges  \* bound: changes of the choice or of the server's rows

\* Rows fill one page or two.
Choice == [query : 1 .. Queries, page : 1 .. 2]

ListAssumption == None \notin Choice /\ Queries \in Nat \ {0} /\ MaxChanges \in Nat

Kind == {"files", "tickets", "catalog", "logs", "preview", "jobs"}

VARIABLES
    kind,     \* the page that is open
    choice,   \* what its controls select
    shown,    \* the choice its rows answer, or None
    loading,  \* its loading indicator
    error,    \* its error
    timer,    \* a timer of the effect is running
    requests, \* stage and choice of the requests that were not aborted
    last,     \* server: the last page of every query
    changes   \* changes so far (bound)

listVars == <<kind, choice, shown, loading, error, timer, requests, last, changes>>

Rows(c) == [stage |-> "rows", choice |-> c]

\* Mutant of Aborted: the cleanup of the effect forgets the request.
LeftRunning(r) == r

\* The requests left when the effect runs again.
Aborted(r) == {}

Delayed == kind \in {"tickets", "catalog"}

\* The effect of the present page: its choice' is fetched, at once or after 200 ms.
Effect ==
    /\ error' = FALSE /\ loading' = TRUE /\ timer' = Delayed
    /\ requests' = Aborted(requests) \cup IF Delayed THEN {} ELSE {Rows(choice')}

Init ==
    /\ kind \in Kind /\ choice = [query |-> 1, page |-> 1] /\ shown = None
    /\ loading = TRUE /\ error = FALSE
    /\ timer = Delayed /\ requests = IF timer THEN {} ELSE {Rows(choice)}
    /\ last \in [1 .. Queries -> 1 .. 2] /\ changes = 0

Count == changes < MaxChanges /\ changes' = changes + 1

-----------------------------------------------------------------------------
(* what the user chooses *)

\* Another folder or search, or another page: rows stay until the answer.
ChangeFiles(c) ==
    /\ kind = "files" /\ Count /\ c # choice
    /\ c.query = choice.query \/ c.page = 1
    /\ choice' = c /\ Effect
    /\ UNCHANGED <<kind, shown, last>>

\* A filter of the tickets goes back to the first page; turning pages sends
\* nothing.
FilterTickets(c) ==
    /\ kind = "tickets" /\ Count /\ c.query # choice.query /\ c.page = 1
    /\ choice' = c /\ Effect
    /\ UNCHANGED <<kind, shown, last>>

TurnTickets(c) ==
    /\ kind = "tickets" /\ Count /\ c.query = choice.query /\ c.page # choice.page
    /\ shown # None /\ choice' = c
    /\ UNCHANGED <<kind, shown, loading, error, timer, requests, last>>

\* Another tab and the trash empty the rows at once, a search and a page do not.
ChangeCatalog(c) ==
    /\ kind = "catalog" /\ Count /\ c # choice
    /\ \/ (c.query = choice.query \/ c.page = 1) /\ shown' = shown
       \/ c.query # choice.query /\ c.page = 1 /\ shown' = None
    /\ choice' = c /\ Effect
    /\ UNCHANGED <<kind, last>>

ChangeLogs(c) ==
    /\ kind = "logs" /\ Count /\ c # choice
    /\ c.query = choice.query \/ c.page = 1
    /\ choice' = c /\ Effect
    /\ UNCHANGED <<kind, shown, last>>

\* Another log is viewed, or none: the content is emptied at once.
View(c) ==
    /\ kind = "preview" /\ Count /\ c # choice
    /\ choice' = c /\ Effect /\ shown' = None
    /\ UNCHANGED <<kind, last>>

\* Another page of an automation's jobs, or Reload: the rows go at once.
ChangeJobs(c) ==
    /\ kind = "jobs" /\ Count /\ c.query = choice.query
    /\ choice' = c /\ Effect /\ shown' = None
    /\ UNCHANGED <<kind, last>>

-----------------------------------------------------------------------------
(* timers, answers and failures *)

TimerFires ==
    /\ timer /\ timer' = FALSE /\ requests' = requests \cup {Rows(choice)}
    /\ UNCHANGED <<kind, choice, shown, loading, error, last, changes>>

Answering(k, r) == kind = k /\ r \in requests /\ r.stage = "rows"

Ends(r) == requests' = requests \ {r}

Arrived(r) == shown' = r.choice /\ loading' = FALSE /\ Ends(r)

\* The rows are shown; the usage of the space is asked for next.
FilesAnswer(r) ==
    /\ Answering("files", r) /\ shown' = r.choice
    /\ requests' = (requests \ {r}) \cup {[r EXCEPT !.stage = "usage"]}
    /\ UNCHANGED <<kind, choice, loading, error, timer, last, changes>>

UsageAnswers(r) ==
    /\ kind = "files" /\ r \in requests /\ r.stage = "usage"
    /\ Ends(r) /\ loading' = FALSE
    /\ UNCHANGED <<kind, choice, shown, error, timer, last, changes>>

\* Either request fails: the rows go.
FilesFail(r) ==
    /\ kind = "files" /\ r \in requests /\ Ends(r)
    /\ shown' = None /\ error' = TRUE /\ loading' = FALSE
    /\ UNCHANGED <<kind, choice, timer, last, changes>>

Within(n, c) == [c EXCEPT !.page = IF c.page <= n THEN c.page ELSE n]

\* All tickets of the filter; the page number follows their number.
TicketsAnswer(r) ==
    /\ Answering("tickets", r) /\ Arrived(r)
    /\ choice' = Within(last[r.choice.query], choice)
    /\ UNCHANGED <<kind, error, timer, last, changes>>

\* The rows of a page beyond the last are empty: the last one is fetched.
CatalogAnswer(r) ==
    /\ Answering("catalog", r) /\ shown' = r.choice
    /\ choice' = Within(last[choice.query], choice)
    /\ IF choice' = choice
       THEN loading' = FALSE /\ Ends(r) /\ UNCHANGED <<error, timer>>
       ELSE Effect
    /\ UNCHANGED <<kind, last, changes>>

\* The jobs of a page that does not exist any more are not shown.
JobsAnswer(r) ==
    /\ Answering("jobs", r)
    /\ IF r.choice.page > last[r.choice.query]
       THEN choice' = Within(last[choice.query], choice) /\ Effect /\ shown' = None
       ELSE Arrived(r) /\ error' = FALSE /\ UNCHANGED <<choice, timer>>
    /\ UNCHANGED <<kind, last, changes>>

LogsAnswer(r) ==
    /\ Answering("logs", r) /\ Arrived(r)
    /\ UNCHANGED <<kind, choice, error, timer, last, changes>>

ContentAnswers(r) ==
    /\ Answering("preview", r) /\ Arrived(r)
    /\ UNCHANGED <<kind, choice, error, timer, last, changes>>

\* Rows that were shown stay beside the error.
Fails(r) ==
    /\ kind # "files" /\ r \in requests /\ Ends(r)
    /\ error' = TRUE /\ loading' = FALSE
    /\ UNCHANGED <<kind, choice, shown, timer, last, changes>>

\* The jobs are fetched again 8 s after every answer or failure.
PollJobs ==
    /\ kind = "jobs" /\ requests = {} /\ requests' = {Rows(choice)}
    /\ UNCHANGED <<kind, choice, shown, loading, error, timer, last, changes>>

\* Somebody adds or removes records.
RowsChange(q) ==
    /\ Count /\ last' = [last EXCEPT ![q] = 3 - @]
    /\ UNCHANGED <<kind, choice, shown, loading, error, timer, requests>>

Next ==
    \/ \E c \in Choice :
           \/ ChangeFiles(c) \/ FilterTickets(c) \/ TurnTickets(c)
           \/ ChangeCatalog(c) \/ ChangeLogs(c) \/ View(c) \/ ChangeJobs(c)
    \/ \E r \in requests :
           \/ FilesAnswer(r) \/ UsageAnswers(r) \/ FilesFail(r) \/ TicketsAnswer(r)
           \/ CatalogAnswer(r) \/ JobsAnswer(r) \/ LogsAnswer(r) \/ ContentAnswers(r)
           \/ Fails(r)
    \/ \E q \in 1 .. Queries : RowsChange(q)
    \/ TimerFires \/ PollJobs

Spec == Init /\ [][Next]_listVars

-----------------------------------------------------------------------------

\* The choice, the rows and the requests keep their shapes.
TypeOK ==
    /\ kind \in Kind /\ choice \in Choice /\ shown \in Choice \cup {None}
    /\ {loading, error, timer} \subseteq BOOLEAN
    /\ requests \subseteq [stage : {"rows", "usage"}, choice : Choice]
    /\ last \in [1 .. Queries -> 1 .. 2] /\ changes \in Nat

\* The rows answer the present choice; the tickets of every page are fetched at once.
Current ==
    shown # None /\ shown.query = choice.query
                 /\ (kind = "tickets" \/ shown.page = choice.page)

\* A page that neither loads nor shows an error shows the rows of what its controls
\* select, whatever the order in which the answers came.
RowsAreChosen == ~loading /\ ~error => Current
=============================================================================
