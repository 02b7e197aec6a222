-------------------------- MODULE BrowserPageProofs --------------------------
(***************************************************************************)
(* Proofs about MCBrowserSafe for every value of its constants, continued: *)
(* the pages that list, the mail window, the upload manager and the form of *)
(* a ticket, each with its inductive invariant; the last section joins them *)
(* with those of BrowserSafeProofs to the invariants of the page.          *)
(***************************************************************************)
EXTENDS BrowserSafeProofs

-----------------------------------------------------------------------------
(* The pages that list *)

RowRequest == [stage : {"rows", "usage"}, choice : Lists!Choice]

ListsTyped ==
    /\ kind \in Lists!Kind /\ choice \in Lists!Choice /\ shown \in Lists!Choice \cup {None}
    /\ loading \in BOOLEAN /\ error \in BOOLEAN /\ timer \in BOOLEAN
    /\ requests \subseteq RowRequest
    /\ last \in [1 .. Queries -> 1 .. 2] /\ changes \in Nat

\* One request at a time is not aborted, and none while the timer runs.
OneRequest ==
    /\ \A r, s \in requests : r = s
    /\ timer => Lists!Delayed /\ loading /\ requests = {}

\* It is that of the present choice; turning the pages of the tickets sends none.
OfChoice ==
    \A r \in requests : /\ r.choice.query = choice.query
                        /\ kind # "tickets" => r.choice.page = choice.page
                        /\ kind # "files" => r.stage = "rows"

\* The usage of the space is asked for after the rows were shown.
RowsFirst == kind = "files" => \A r \in requests : r.stage = "usage" => shown = r.choice

ListsInv == ListsTyped /\ OneRequest /\ OfChoice /\ RowsFirst /\ Lists!RowsAreChosen

LEMMA ChoiceFields ==
    ASSUME NEW c \in Lists!Choice
    PROVE  c.query \in 1 .. Queries /\ c.page \in 1 .. 2 /\ c # None
<1>1. c.query \in 1 .. Queries /\ c.page \in 1 .. 2
  BY DEF Lists!Choice
<1>2. c # None
  BY ListsHold DEF Lists!ListAssumption
<1>3. QED
  BY <1>1, <1>2

LEMMA RowRequestFields ==
    ASSUME NEW r \in RowRequest
    PROVE  r.stage \in {"rows", "usage"} /\ r.choice \in Lists!Choice
  BY DEF RowRequest

LEMMA RowsFields ==
    ASSUME NEW c \in Lists!Choice
    PROVE  LET r == Lists!Rows(c) IN r \in RowRequest /\ r.stage = "rows" /\ r.choice = c
  BY DEF Lists!Rows, RowRequest

UsageOf(r) == [r EXCEPT !.stage = "usage"]

LEMMA UsageFields ==
    ASSUME NEW r \in RowRequest
    PROVE  LET u == UsageOf(r) IN u \in RowRequest /\ u.stage = "usage" /\ u.choice = r.choice
  BY DEF UsageOf, RowRequest

LEMMA WithinFields ==
    ASSUME NEW c \in Lists!Choice, NEW n \in 1 .. 2
    PROVE  LET d == Lists!Within(n, c) IN d \in Lists!Choice /\ d.query = c.query
  BY DEF Lists!Within, Lists!Choice

LEMMA DelayedBoolean == Lists!Delayed \in BOOLEAN
<1> DEFINE d == kind \in {"tickets", "catalog"}
<1>1. d = TRUE \/ d = FALSE
  OBVIOUS
<1>2. QED
  BY <1>1 DEF Lists!Delayed

LEMMA ListsInit == Lists!Init => ListsInv
<1> SUFFICES ASSUME Lists!Init PROVE ListsInv
  OBVIOUS
<1> USE DEF Lists!Init
<1>1. choice \in Lists!Choice
  BY ListsHold DEF Lists!Choice, Lists!ListAssumption
<1>2. requests = {} \/ requests = {Lists!Rows(choice)}
  OBVIOUS
<1>3. requests \subseteq RowRequest /\ \A r \in requests : r.stage = "rows" /\ r.choice = choice
  BY <1>1, <1>2, RowsFields
<1>4. timer \in BOOLEAN /\ (timer => Lists!Delayed /\ requests = {})
  BY DelayedBoolean
<1>5. ListsTyped
  BY <1>1, <1>3, <1>4 DEF ListsTyped
<1>6. OneRequest
  BY <1>2, <1>4 DEF OneRequest
<1>7. OfChoice /\ RowsFirst
  BY <1>3 DEF OfChoice, RowsFirst
<1>8. Lists!RowsAreChosen
  BY DEF Lists!RowsAreChosen
<1>9. QED
  BY <1>5, <1>6, <1>7, <1>8 DEF ListsInv

\* The effect leaves one request, that of the choice, or its timer.
LEMMA EffectKeeps ==
    ASSUME ListsInv, Lists!Effect, kind' = kind, choice' \in Lists!Choice,
           shown' \in Lists!Choice \cup {None}, last' = last, changes' \in Nat
    PROVE  ListsInv'
<1> USE DEF ListsInv, Lists!Effect
<1>1. PICK c \in Lists!Choice : c = choice'
  OBVIOUS
<1>2. requests' = {} \/ (requests' = {Lists!Rows(c)} /\ ~Lists!Delayed)
  BY <1>1 DEF Lists!Aborted
<1>3. Lists!Delayed => requests' = {}
  BY DEF Lists!Aborted
<1>4. requests' \subseteq RowRequest /\ \A r \in requests' : r.stage = "rows" /\ r.choice = c
  BY <1>2, RowsFields
<1>5. /\ timer' \in BOOLEAN /\ loading' /\ (timer' <=> Lists!Delayed)
      /\ Lists!Delayed' <=> Lists!Delayed
  <2>1. timer' \in BOOLEAN /\ (timer' <=> Lists!Delayed)
    BY DelayedBoolean
  <2>2. Lists!Delayed' <=> Lists!Delayed
    BY DEF Lists!Delayed
  <2>3. QED
    BY <2>1, <2>2
<1>6. ListsTyped'
  BY <1>4, <1>5 DEF ListsTyped
<1>7. OneRequest'
  BY <1>2, <1>3, <1>5 DEF OneRequest
<1>8. OfChoice'
  BY <1>1, <1>4 DEF OfChoice
<1>9. RowsFirst'
  BY <1>4 DEF RowsFirst
<1>10. Lists!RowsAreChosen'
  BY <1>5 DEF Lists!RowsAreChosen
<1>11. QED
  BY <1>6, <1>7, <1>8, <1>9, <1>10

LEMMA CountLists == ASSUME ListsInv, Lists!Count PROVE changes' \in Nat
  BY DEF ListsInv, ListsTyped, Lists!Count

LEMMA ChangeKeeps ==
    ASSUME ListsInv, NEW c \in Lists!Choice,
           \/ Lists!ChangeFiles(c) \/ Lists!FilterTickets(c) \/ Lists!ChangeCatalog(c)
           \/ Lists!ChangeLogs(c) \/ Lists!View(c) \/ Lists!ChangeJobs(c)
    PROVE  ListsInv'
<1>1. /\ Lists!Count /\ Lists!Effect /\ kind' = kind /\ choice' = c /\ last' = last
      /\ shown' = shown \/ shown' = None
  BY DEF Lists!ChangeFiles, Lists!FilterTickets, Lists!ChangeCatalog, Lists!ChangeLogs,
         Lists!View, Lists!ChangeJobs
<1>2. shown' \in Lists!Choice \cup {None}
  BY <1>1 DEF ListsInv, ListsTyped
<1>3. QED
  BY <1>1, <1>2, CountLists, EffectKeeps

\* Pages of the tickets are turned over the same rows.
LEMMA TurnKeeps ==
    ASSUME ListsInv, NEW c \in Lists!Choice, Lists!TurnTickets(c)
    PROVE  ListsInv'
<1> USE DEF ListsInv, Lists!TurnTickets
<1>1. changes' \in Nat
  BY CountLists
<1>2. ListsTyped'
  BY <1>1 DEF ListsTyped
<1>3. OneRequest'
  BY DEF OneRequest, Lists!Delayed
<1>4. OfChoice' /\ RowsFirst'
  BY DEF OfChoice, RowsFirst
<1>5. Lists!RowsAreChosen'
  BY DEF Lists!RowsAreChosen, Lists!Current
<1>6. QED
  BY <1>2, <1>3, <1>4, <1>5

\* A request for the rows of the choice, when there was none.
LEMMA AskKeeps ==
    ASSUME ListsInv, Lists!TimerFires \/ Lists!PollJobs
    PROVE  ListsInv'
<1> USE DEF ListsInv
<1>1. /\ UNCHANGED <<kind, choice, shown, loading, error, last, changes>>
      /\ requests' = {Lists!Rows(choice)} /\ ~timer'
      /\ timer' \in BOOLEAN
  <2>1. CASE Lists!TimerFires
    BY <2>1 DEF Lists!TimerFires, OneRequest
  <2>2. CASE Lists!PollJobs
    BY <2>2 DEF Lists!PollJobs, OneRequest, Lists!Delayed, ListsTyped
  <2>3. QED
    BY <2>1, <2>2
<1>2. choice \in Lists!Choice
  BY DEF ListsTyped
<1>3. requests' \subseteq RowRequest /\ \A r \in requests' : r.stage = "rows" /\ r.choice = choice
  BY <1>1, <1>2, RowsFields
<1>4. ListsTyped'
  BY <1>1, <1>3 DEF ListsTyped
<1>5. OneRequest'
  BY <1>1 DEF OneRequest
<1>6. OfChoice' /\ RowsFirst'
  BY <1>1, <1>3 DEF OfChoice, RowsFirst
<1>7. Lists!RowsAreChosen'
  BY <1>1 DEF Lists!RowsAreChosen, Lists!Current
<1>8. QED
  BY <1>4, <1>5, <1>6, <1>7

\* What an answer finds: its request is the only one, of the present choice.
LEMMA OnlyRequest ==
    ASSUME ListsInv, NEW r \in requests
    PROVE  /\ r \in RowRequest /\ requests = {r} /\ ~timer /\ r.choice \in Lists!Choice
           /\ r.choice.query = choice.query
           /\ kind # "tickets" => r.choice.page = choice.page
           /\ kind = "files" /\ r.stage = "usage" => shown = r.choice
           /\ last[r.choice.query] \in 1 .. 2 /\ last[choice.query] \in 1 .. 2
<1>1. r \in RowRequest
  BY DEF ListsInv, ListsTyped
<1>2. requests = {r} /\ ~timer
  BY DEF ListsInv, OneRequest
<1>3. r.choice \in Lists!Choice
  BY <1>1, RowRequestFields
<1>4. r.choice.query \in 1 .. Queries
  BY <1>3, ChoiceFields
<1>5. choice.query \in 1 .. Queries
  BY ChoiceFields DEF ListsInv, ListsTyped
<1>6. QED
  BY <1>1, <1>2, <1>3, <1>4, <1>5 DEF ListsInv, ListsTyped, OfChoice, RowsFirst

\* With no request left, what is shown counts only without an error.
LEMMA QuietKeeps ==
    ASSUME ListsInv, ~timer, requests' = {}, UNCHANGED <<kind, timer, last, changes>>,
           choice' \in Lists!Choice, shown' \in Lists!Choice \cup {None},
           loading' \in BOOLEAN, error' \in BOOLEAN, Lists!RowsAreChosen'
    PROVE  ListsInv'
<1> USE DEF ListsInv
<1>1. ListsTyped'
  BY DEF ListsTyped
<1>2. OneRequest' /\ OfChoice' /\ RowsFirst'
  BY DEF OneRequest, OfChoice, RowsFirst
<1>3. QED
  BY <1>1, <1>2

LEMMA RowsAnswerKeeps ==
    ASSUME ListsInv, NEW r \in requests,
           \/ Lists!TicketsAnswer(r) \/ Lists!LogsAnswer(r) \/ Lists!ContentAnswers(r)
    PROVE  ListsInv'
<1> USE DEF ListsInv
<1>1. /\ ~timer /\ requests = {r} /\ r.choice \in Lists!Choice
      /\ r.choice.query = choice.query
      /\ kind # "tickets" => r.choice.page = choice.page
      /\ last[r.choice.query] \in 1 .. 2
  BY OnlyRequest
<1>2. /\ requests' = {} /\ shown' = r.choice /\ ~loading' /\ loading' \in BOOLEAN
      /\ UNCHANGED <<kind, error, timer, last, changes>>
      /\ \/ choice' = choice
         \/ kind = "tickets" /\ choice' = Lists!Within(last[r.choice.query], choice)
  BY <1>1 DEF Lists!TicketsAnswer, Lists!LogsAnswer, Lists!ContentAnswers, Lists!Arrived,
              Lists!Ends, Lists!Answering
<1>3. choice \in Lists!Choice
  BY DEF ListsTyped
<1>4. /\ choice' \in Lists!Choice /\ choice'.query = choice.query
      /\ kind = "tickets" \/ choice' = choice
  BY <1>1, <1>2, <1>3, WithinFields
<1>5. shown' # None
  BY <1>1, <1>2, ChoiceFields
<1>6. Lists!RowsAreChosen'
  BY <1>1, <1>2, <1>4, <1>5 DEF Lists!RowsAreChosen, Lists!Current
<1>7. error' \in BOOLEAN
  BY <1>2 DEF ListsTyped
<1>8. QED
  BY <1>1, <1>2, <1>4, <1>6, <1>7, QuietKeeps

\* The rows of a page that does not exist are fetched anew.
LEMMA PagedAnswerKeeps ==
    ASSUME ListsInv, NEW r \in requests, Lists!CatalogAnswer(r) \/ Lists!JobsAnswer(r)
    PROVE  ListsInv'
<1> USE DEF ListsInv
<1>1. /\ ~timer /\ requests = {r} /\ r.choice \in Lists!Choice /\ r.choice # None
      /\ r.choice.query = choice.query
      /\ kind # "tickets" => r.choice.page = choice.page
      /\ last[choice.query] \in 1 .. 2
  BY OnlyRequest, ChoiceFields
<1>2. choice \in Lists!Choice /\ Lists!Within(last[choice.query], choice) \in Lists!Choice
      /\ shown \in Lists!Choice \cup {None} /\ changes \in Nat
  BY <1>1, WithinFields DEF ListsTyped
<1>3. kind' = kind /\ kind # "tickets" /\ last' = last /\ changes' = changes
  BY DEF Lists!CatalogAnswer, Lists!JobsAnswer, Lists!Answering
<1>4. CASE Lists!Effect /\ choice' = Lists!Within(last[choice.query], choice)
           /\ shown' \in {None, r.choice}
  BY <1>1, <1>2, <1>3, <1>4, EffectKeeps
<1>5. CASE /\ ~loading' /\ loading' \in BOOLEAN /\ requests' = {} /\ shown' = r.choice
           /\ choice' = choice /\ timer' = timer /\ error' \in BOOLEAN
  <2>1. Lists!RowsAreChosen'
    BY <1>1, <1>3, <1>5 DEF Lists!RowsAreChosen, Lists!Current
  <2>2. QED
    BY <1>1, <1>2, <1>3, <1>5, <2>1, QuietKeeps
<1>6. QED
  <2>1. CASE Lists!CatalogAnswer(r)
    BY <1>1, <1>4, <1>5, <2>1 DEF Lists!CatalogAnswer, Lists!Ends, ListsTyped
  <2>2. CASE Lists!JobsAnswer(r)
    BY <1>1, <1>4, <1>5, <2>2 DEF Lists!JobsAnswer, Lists!Arrived, Lists!Ends, ListsTyped
  <2>3. QED
    BY <2>1, <2>2

LEMMA FilesAnswerKeeps ==
    ASSUME ListsInv, NEW r \in requests, Lists!FilesAnswer(r)
    PROVE  ListsInv'
<1> USE DEF ListsInv
<1>1. /\ ~timer /\ requests = {r} /\ r \in RowRequest /\ r.choice \in Lists!Choice
      /\ r.choice.query = choice.query
      /\ kind # "tickets" => r.choice.page = choice.page
      /\ r.choice # None
  BY OnlyRequest, ChoiceFields
<1>2. PICK u : u = UsageOf(r)
  OBVIOUS
<1>3. u \in RowRequest /\ u.stage = "usage" /\ u.choice = r.choice
  BY <1>1, <1>2, UsageFields
<1>4. /\ kind = "files" /\ shown' = r.choice /\ requests' = {u}
      /\ UNCHANGED <<kind, choice, loading, error, timer, last, changes>>
  BY <1>1, <1>2 DEF Lists!FilesAnswer, Lists!Answering, UsageOf
<1>5. ListsTyped'
  BY <1>1, <1>3, <1>4 DEF ListsTyped
<1>6. OneRequest'
  BY <1>1, <1>4 DEF OneRequest
<1>7. OfChoice' /\ RowsFirst'
  BY <1>1, <1>3, <1>4 DEF OfChoice, RowsFirst
<1>8. Lists!RowsAreChosen'
  BY <1>1, <1>4 DEF Lists!RowsAreChosen, Lists!Current
<1>9. QED
  BY <1>5, <1>6, <1>7, <1>8

LEMMA UsageKeeps ==
    ASSUME ListsInv, NEW r \in requests, Lists!UsageAnswers(r)
    PROVE  ListsInv'
<1> USE DEF ListsInv, Lists!UsageAnswers
<1>1. /\ ~timer /\ requests = {r} /\ r.choice \in Lists!Choice /\ r.choice # None
      /\ r.choice.query = choice.query /\ r.choice.page = choice.page /\ shown = r.choice
  BY OnlyRequest, ChoiceFields
<1>2. requests' = {}
  BY <1>1 DEF Lists!Ends
<1>3. Lists!RowsAreChosen'
  BY <1>1 DEF Lists!RowsAreChosen, Lists!Current
<1>4. QED
  BY <1>1, <1>2, <1>3, QuietKeeps DEF ListsTyped

LEMMA FailKeeps ==
    ASSUME ListsInv, NEW r \in requests, Lists!FilesFail(r) \/ Lists!Fails(r)
    PROVE  ListsInv'
<1> USE DEF ListsInv, Lists!FilesFail, Lists!Fails
<1>1. ~timer /\ requests' = {}
  BY OnlyRequest DEF Lists!Ends
<1>2. Lists!RowsAreChosen'
  BY DEF Lists!RowsAreChosen
<1>3. QED
  BY <1>1, <1>2, QuietKeeps DEF ListsTyped

LEMMA RowsChangeKeeps ==
    ASSUME ListsInv, NEW q \in 1 .. Queries, Lists!RowsChange(q)
    PROVE  ListsInv'
<1> USE DEF ListsInv, Lists!RowsChange
<1>1. changes' \in Nat
  BY CountLists
<1>2. last' \in [1 .. Queries -> 1 .. 2]
  <2>1. last \in [1 .. Queries -> 1 .. 2] /\ 3 - last[q] \in 1 .. 2
    BY DEF ListsTyped
  <2>2. QED
    BY <2>1
<1>3. ListsTyped'
  BY <1>1, <1>2 DEF ListsTyped
<1>4. OneRequest' /\ OfChoice' /\ RowsFirst'
  BY DEF OneRequest, OfChoice, RowsFirst, Lists!Delayed
<1>5. Lists!RowsAreChosen'
  BY DEF Lists!RowsAreChosen, Lists!Current
<1>6. QED
  BY <1>3, <1>4, <1>5

LEMMA ListsStep == ListsInv /\ [Lists!Next]_listVars => ListsInv'
<1> SUFFICES ASSUME ListsInv, [Lists!Next]_listVars PROVE ListsInv'
  OBVIOUS
<1>1. CASE UNCHANGED listVars
  BY <1>1 DEF listVars, ListsInv, ListsTyped, OneRequest, OfChoice, RowsFirst, Lists!Delayed,
              Lists!RowsAreChosen, Lists!Current
<1>2. ASSUME NEW c \in Lists!Choice,
             \/ Lists!ChangeFiles(c) \/ Lists!FilterTickets(c) \/ Lists!TurnTickets(c)
             \/ Lists!ChangeCatalog(c) \/ Lists!ChangeLogs(c) \/ Lists!View(c)
             \/ Lists!ChangeJobs(c)
      PROVE  ListsInv'
  BY <1>2, ChangeKeeps, TurnKeeps
<1>3. ASSUME NEW r \in requests,
             \/ Lists!FilesAnswer(r) \/ Lists!UsageAnswers(r) \/ Lists!FilesFail(r)
             \/ Lists!TicketsAnswer(r) \/ Lists!CatalogAnswer(r) \/ Lists!JobsAnswer(r)
             \/ Lists!LogsAnswer(r) \/ Lists!ContentAnswers(r) \/ Lists!Fails(r)
      PROVE  ListsInv'
  BY <1>3, FilesAnswerKeeps, UsageKeeps, FailKeeps, RowsAnswerKeeps, PagedAnswerKeeps
<1>4. ASSUME NEW q \in 1 .. Queries, Lists!RowsChange(q)
      PROVE  ListsInv'
  BY <1>4, RowsChangeKeeps
<1>5. CASE Lists!TimerFires \/ Lists!PollJobs
  BY <1>5, AskKeeps
<1>6. QED
  BY <1>1, <1>2, <1>3, <1>4, <1>5 DEF Lists!Next

-----------------------------------------------------------------------------
(* The mail window *)

ListRequest == [place : Mailbox!Place, effect : BOOLEAN]

WindowTyped ==
    /\ window \in BOOLEAN /\ wait \in BOOLEAN /\ writing \in BOOLEAN
    /\ place \in Mailbox!Place /\ items \in Mailbox!Place \cup {Nowhere}
    /\ lists \subseteq ListRequest
    /\ failed \subseteq {"list", "reader"} /\ acting \in {"idle", "acting", "listing"}
    /\ letter \in Letter \cup {Nowhere} /\ linked \in Letter \cup {Nowhere}
    /\ chosen \in Letter \cup {Nowhere} /\ opening \subseteq Letter /\ steps \in Nat

\* While an open window does not wait for its timer, the list that is awaited is the one
\* its controls select, and there is one unless it is shown or failed.
ListOfPlace ==
    /\ \A k, l \in lists : k = l
    /\ window /\ ~wait => \A l \in lists : l.place = place
    /\ window /\ ~wait /\ lists = {} /\ "list" \notin failed => items = place

\* The mail that is read is the one that was chosen last.
ReaderOfChoice ==
    /\ \A m \in opening : m = chosen
    /\ opening = {} /\ "reader" \notin failed => letter = chosen

WindowInv == WindowTyped /\ ListOfPlace /\ ReaderOfChoice

LEMMA ListRequestFields ==
    ASSUME NEW l \in ListRequest
    PROVE  l.place \in Mailbox!Place
  BY DEF ListRequest

AskedFor(p, effect) == [place |-> p, effect |-> effect]

LEMMA AskedFields ==
    ASSUME NEW p \in Mailbox!Place, NEW e \in BOOLEAN
    PROVE  LET l == AskedFor(p, e) IN l \in ListRequest /\ l.place = p
  BY DEF AskedFor, ListRequest

LEMMA PageFields ==
    ASSUME NEW p \in Mailbox!Place, NEW n \in 1 .. 2
    PROVE  [p EXCEPT !.page = n] \in Mailbox!Place /\ p.page \in 1 .. 2
  BY DEF Mailbox!Place

\* Two places with one folder and one page are the same.
LEMMA PlaceOfFolder ==
    ASSUME NEW f \in Folder
    PROVE  [folder |-> f, page |-> 1] \in Mailbox!Place
  BY DEF Mailbox!Place

LEMMA FirstPlace == ASSUME Mailbox!Init PROVE WindowInv
<1> USE DEF Mailbox!Init
<1>1. WindowTyped
  BY DEF WindowTyped
<1>2. ListOfPlace /\ ReaderOfChoice
  BY DEF ListOfPlace, ReaderOfChoice
<1>3. QED
  BY <1>1, <1>2 DEF WindowInv

\* The cleanup of the effect leaves no more than was awaited.
LEMMA RearmKeeps ==
    ASSUME WindowInv, Mailbox!Rearm, window' \in BOOLEAN, place' \in Mailbox!Place,
           UNCHANGED <<items, acting>>, failed' \subseteq {"list", "reader"}
    PROVE  /\ wait' \in BOOLEAN /\ lists' \subseteq ListRequest /\ lists' \subseteq lists
           /\ ListOfPlace'
<1>1. lists' \subseteq lists
  BY DEF Mailbox!Rearm
<1>2. wait' = window'
  BY DEF Mailbox!Rearm
<1>3. lists' \subseteq ListRequest
  BY <1>1 DEF WindowInv, WindowTyped
<1>4. ListOfPlace'
  BY <1>1, <1>2 DEF WindowInv, ListOfPlace
<1>5. QED
  BY <1>1, <1>2, <1>3, <1>4

LEMMA CountSteps == ASSUME WindowInv, Mailbox!Count PROVE steps' \in Nat
  BY DEF WindowInv, WindowTyped, Mailbox!Count

-----------------------------------------------------------------------------
(* the list *)

LEMMA ListAnswersKeeps ==
    ASSUME WindowInv, NEW l \in lists, Mailbox!ListAnswers(l)
    PROVE  WindowInv'
<1> USE DEF WindowInv, Mailbox!ListAnswers
<1>1. l \in ListRequest /\ l.place \in Mailbox!Place /\ place \in Mailbox!Place
  BY ListRequestFields DEF WindowTyped
<1>2. l.place.page \in 1 .. 2
  BY <1>1 DEF Mailbox!Place
<1>3. place' \in Mailbox!Place
  BY <1>1, <1>2, PageFields
<1>4. lists' = {}
  BY DEF ListOfPlace
<1>5. wait' \in BOOLEAN
  BY DEF WindowTyped
<1>6. failed' \subseteq {"list", "reader"}
  BY DEF WindowTyped
<1>7. WindowTyped'
  BY <1>1, <1>3, <1>4, <1>5, <1>6 DEF WindowTyped
<1>8. ListOfPlace'
  <2>1. ASSUME window', ~wait'
        PROVE  items' = place'
    <3>1. place' = place /\ wait' = wait
      BY <2>1
    <3>2. l.place = place
      BY <2>1, <3>1 DEF ListOfPlace
    <3>3. QED
      BY <3>1, <3>2
  <2>2. QED
    BY <1>4, <2>1 DEF ListOfPlace
<1>9. ReaderOfChoice'
  BY DEF ReaderOfChoice
<1>10. QED
  BY <1>7, <1>8, <1>9

LEMMA ListFailsKeeps ==
    ASSUME WindowInv, NEW l \in lists, Mailbox!ListFails(l)
    PROVE  WindowInv'
<1> USE DEF WindowInv, Mailbox!ListFails
<1>1. WindowTyped'
  BY DEF WindowTyped
<1>2. ListOfPlace' /\ ReaderOfChoice'
  BY DEF ListOfPlace, ReaderOfChoice
<1>3. QED
  BY <1>1, <1>2

LEMMA WaitEndsKeeps ==
    ASSUME WindowInv, Mailbox!WaitEnds
    PROVE  WindowInv'
<1> USE DEF WindowInv, Mailbox!WaitEnds
<1>1. lists' = {AskedFor(place, TRUE)}
  BY DEF Mailbox!Ask, Mailbox!Newest, AskedFor
<1>2. place \in Mailbox!Place
  BY DEF WindowTyped
<1>3. AskedFor(place, TRUE) \in ListRequest /\ AskedFor(place, TRUE).place = place
  BY <1>2, AskedFields
<1>4. WindowTyped'
  BY <1>1, <1>3 DEF WindowTyped
<1>5. ListOfPlace' /\ ReaderOfChoice'
  BY <1>1, <1>3 DEF ListOfPlace, ReaderOfChoice
<1>6. QED
  BY <1>4, <1>5

LEMMA ActListsKeeps ==
    ASSUME WindowInv, Mailbox!ActLists
    PROVE  WindowInv'
<1> USE DEF WindowInv, Mailbox!ActLists
<1>1. lists' = {AskedFor(place, FALSE)}
  BY DEF AskedFor
<1>2. place \in Mailbox!Place
  BY DEF WindowTyped
<1>3. AskedFor(place, FALSE) \in ListRequest /\ AskedFor(place, FALSE).place = place
  BY <1>2, AskedFields
<1>4. WindowTyped'
  BY <1>1, <1>3 DEF WindowTyped
<1>5. ListOfPlace' /\ ReaderOfChoice'
  BY <1>1, <1>3 DEF ListOfPlace, ReaderOfChoice
<1>6. QED
  BY <1>4, <1>5

LEMMA ListingKeeps ==
    ASSUME WindowInv, Mailbox!Load \/ Mailbox!TurnPage \/ Mailbox!Act \/ Mailbox!ActEnds
    PROVE  WindowInv'
<1> USE DEF WindowInv
<1>1. CASE Mailbox!Load
  <2>1. wait' \in BOOLEAN /\ lists' \subseteq ListRequest /\ ListOfPlace' /\ steps' \in Nat
    BY <1>1, RearmKeeps, CountSteps DEF Mailbox!Load, WindowTyped
  <2>2. WindowTyped' /\ ReaderOfChoice'
    BY <1>1, <2>1 DEF Mailbox!Load, WindowTyped, ReaderOfChoice
  <2>3. QED
    BY <2>1, <2>2
<1>2. CASE Mailbox!TurnPage
  <2>1. place \in Mailbox!Place
    BY DEF WindowTyped
  <2>2. 3 - place.page \in 1 .. 2
    BY <2>1 DEF Mailbox!Place
  <2>3. place' \in Mailbox!Place
    BY <1>2, <2>1, <2>2, PageFields DEF Mailbox!TurnPage
  <2>4. wait' \in BOOLEAN /\ lists' \subseteq ListRequest /\ ListOfPlace' /\ steps' \in Nat
    BY <1>2, <2>3, RearmKeeps, CountSteps DEF Mailbox!TurnPage, WindowTyped
  <2>5. WindowTyped' /\ ReaderOfChoice'
    BY <1>2, <2>3, <2>4 DEF Mailbox!TurnPage, WindowTyped, ReaderOfChoice
  <2>6. QED
    BY <2>4, <2>5
<1>3. CASE Mailbox!Act
  <2>1. steps' \in Nat
    BY <1>3, CountSteps DEF Mailbox!Act
  <2>2. QED
    BY <1>3, <2>1 DEF Mailbox!Act, WindowTyped, ListOfPlace, ReaderOfChoice
<1>4. CASE Mailbox!ActEnds
  BY <1>4 DEF Mailbox!ActEnds, WindowTyped, ListOfPlace, ReaderOfChoice
<1>5. QED
  BY <1>1, <1>2, <1>3, <1>4

LEMMA SelectKeeps ==
    ASSUME WindowInv, NEW f \in Folder, Mailbox!SelectFolder(f)
    PROVE  WindowInv'
<1> USE DEF WindowInv, Mailbox!SelectFolder
<1>1. place' \in Mailbox!Place
  BY PlaceOfFolder
<1>2. failed' \subseteq {"list", "reader"}
  BY DEF WindowTyped
<1>3. wait' \in BOOLEAN /\ lists' \subseteq ListRequest /\ ListOfPlace' /\ steps' \in Nat
  BY <1>1, <1>2, RearmKeeps, CountSteps DEF WindowTyped
<1>4. WindowTyped' /\ ReaderOfChoice'
  BY <1>1, <1>2, <1>3 DEF Mailbox!ClearReader, WindowTyped, ReaderOfChoice
<1>5. QED
  BY <1>3, <1>4

-----------------------------------------------------------------------------
(* the reader *)

LEMMA ReadMailKeeps ==
    ASSUME WindowInv, NEW m \in Letter, Mailbox!Click(m) \/ Mailbox!OpenLinked(m)
    PROVE  WindowInv'
<1> USE DEF WindowInv
<1>1. /\ opening' = {m} /\ chosen' = m /\ failed' = failed \ {"reader"} /\ steps' \in Nat
      /\ UNCHANGED <<window, place, items, wait, lists, acting, letter, writing>>
      /\ linked' \in Letter \cup {Nowhere}
  BY CountSteps DEF Mailbox!Click, Mailbox!OpenLinked, Mailbox!ReadMail, Mailbox!Newest,
                    WindowTyped
<1>2. WindowTyped'
  BY <1>1 DEF WindowTyped
<1>3. ListOfPlace' /\ ReaderOfChoice'
  BY <1>1 DEF ListOfPlace, ReaderOfChoice
<1>4. QED
  BY <1>2, <1>3

LEMMA MailReadKeeps ==
    ASSUME WindowInv, NEW m \in Letter, Mailbox!MailRead(m)
    PROVE  WindowInv'
<1> USE DEF WindowInv, Mailbox!MailRead
<1>1. FolderOf[m] \in Folder
  BY MailHolds DEF Mailbox!WindowAssumption
<1>2. place' \in Mailbox!Place
  BY <1>1, PlaceOfFolder DEF WindowTyped
<1>3. wait' \in BOOLEAN /\ lists' \subseteq ListRequest /\ ListOfPlace'
  <2>1. CASE place' = place
    BY <2>1 DEF WindowTyped, ListOfPlace
  <2>2. CASE place' # place
    BY <1>2, <2>2, RearmKeeps DEF WindowTyped
  <2>3. QED
    BY <2>1, <2>2
<1>4. window' = window
  OBVIOUS
<1>5. WindowTyped'
  BY <1>2, <1>3, <1>4 DEF WindowTyped
<1>6. ReaderOfChoice'
  BY DEF ReaderOfChoice
<1>7. QED
  BY <1>3, <1>5, <1>6

LEMMA ReaderKeeps ==
    ASSUME WindowInv,
           \/ \E m \in Letter : Mailbox!ReadFails(m)
           \/ Mailbox!Back \/ Mailbox!Compose \/ Mailbox!EndDraft
    PROVE  WindowInv'
<1> USE DEF WindowInv
<1>1. ASSUME NEW m \in Letter, Mailbox!ReadFails(m)
      PROVE  WindowInv'
  BY <1>1 DEF Mailbox!ReadFails, WindowTyped, ListOfPlace, ReaderOfChoice
<1>2. CASE Mailbox!Back
  BY <1>2 DEF Mailbox!Back, Mailbox!ClearReader, WindowTyped, ListOfPlace, ReaderOfChoice
<1>3. CASE Mailbox!Compose
  <2>1. steps' \in Nat
    BY <1>3, CountSteps DEF Mailbox!Compose
  <2>2. QED
    BY <1>3, <2>1 DEF Mailbox!Compose, WindowTyped, ListOfPlace, ReaderOfChoice
<1>4. CASE Mailbox!EndDraft
  BY <1>4 DEF Mailbox!EndDraft, WindowTyped, ListOfPlace, ReaderOfChoice
<1>5. QED
  BY <1>1, <1>2, <1>3, <1>4

LEMMA OpenCloseKeeps ==
    ASSUME WindowInv, Mailbox!Close \/ Mailbox!Open
    PROVE  WindowInv'
<1> USE DEF WindowInv
<1>1. CASE Mailbox!Close
  <2>1. wait' \in BOOLEAN /\ lists' \subseteq ListRequest /\ ListOfPlace' /\ steps' \in Nat
    BY <1>1, RearmKeeps, CountSteps DEF Mailbox!Close, WindowTyped
  <2>2. WindowTyped' /\ ReaderOfChoice'
    BY <1>1, <2>1 DEF Mailbox!Close, WindowTyped, ReaderOfChoice
  <2>3. QED
    BY <2>1, <2>2
<1>2. CASE Mailbox!Open
  <2>1. wait' \in BOOLEAN /\ lists' \subseteq ListRequest /\ ListOfPlace'
    BY <1>2, RearmKeeps DEF Mailbox!Open, WindowTyped
  <2>2. WindowTyped' /\ ReaderOfChoice'
    BY <1>2, <2>1 DEF Mailbox!Open, WindowTyped, ReaderOfChoice
  <2>3. QED
    BY <2>1, <2>2
<1>3. QED
  BY <1>1, <1>2

LEMMA WindowStep == WindowInv /\ [Mailbox!Next]_mailVars => WindowInv'
<1> SUFFICES ASSUME WindowInv, [Mailbox!Next]_mailVars PROVE WindowInv'
  OBVIOUS
<1>1. CASE UNCHANGED mailVars
  BY <1>1 DEF mailVars, WindowInv, WindowTyped, ListOfPlace, ReaderOfChoice
<1>2. CASE \E f \in Folder : Mailbox!SelectFolder(f)
  BY <1>2, SelectKeeps
<1>3. CASE \E m \in Letter : Mailbox!Click(m) \/ Mailbox!OpenLinked(m)
  BY <1>3, ReadMailKeeps
<1>4. CASE \E m \in Letter : Mailbox!MailRead(m)
  BY <1>4, MailReadKeeps
<1>5. CASE \E l \in lists : Mailbox!ListAnswers(l) \/ Mailbox!ListFails(l)
  BY <1>5, ListAnswersKeeps, ListFailsKeeps
<1>6. CASE Mailbox!WaitEnds
  BY <1>6, WaitEndsKeeps
<1>7. CASE Mailbox!ActLists
  BY <1>7, ActListsKeeps
<1>8. CASE Mailbox!Load \/ Mailbox!TurnPage \/ Mailbox!Act \/ Mailbox!ActEnds
  BY <1>8, ListingKeeps
<1>9. CASE \/ \E m \in Letter : Mailbox!ReadFails(m)
           \/ Mailbox!Back \/ Mailbox!Compose \/ Mailbox!EndDraft
  BY <1>9, ReaderKeeps
<1>10. CASE Mailbox!Close \/ Mailbox!Open
  BY <1>10, OpenCloseKeeps
<1>11. QED
  BY <1>1, <1>2, <1>3, <1>4, <1>5, <1>6, <1>7, <1>8, <1>9, <1>10 DEF Mailbox!Next

LEMMA WindowFollows == WindowInv => Mailbox!TypeOK /\ Mailbox!WindowIsCurrent
<1> SUFFICES ASSUME WindowInv PROVE Mailbox!TypeOK /\ Mailbox!WindowIsCurrent
  OBVIOUS
<1>1. Mailbox!TypeOK
  BY DEF WindowInv, WindowTyped, Mailbox!TypeOK, ListRequest
<1>2. Mailbox!WindowIsCurrent
  BY DEF WindowInv, ListOfPlace, ReaderOfChoice, Mailbox!WindowIsCurrent
<1>3. QED
  BY <1>1, <1>2

LEMMA ListsFollow == ListsInv => Lists!TypeOK /\ Lists!RowsAreChosen
  BY DEF ListsInv, ListsTyped, Lists!TypeOK, RowRequest

-----------------------------------------------------------------------------
(* The upload manager *)

JobRecord ==
    [phase : {"new", "gone", "queued", "hashing", "uploading", "saving", "complete", "paused",
              "error", "cancelled"},
     known : {0} \cup Manager!Ids, file : BOOLEAN, request : {0} \cup Manager!Ids,
     deleting : SUBSET Manager!Ids]

RunRecord ==
    [job : Job \cup {Nobody},
     pc : {"idle", "hash", "fetch", "create", "undo", "verify", "part", "check", "complete",
           "lookup"},
     known : {0} \cup Manager!Ids, id : {0} \cup Manager!Ids, parts : 0 .. Parts,
     attempt : 0 .. MaxAttempts - 1, aborted : BOOLEAN, stale : BOOLEAN]

TaskRecord ==
    [status : {"none", "active", "complete", "cancelled", "expired"}, parts : 0 .. Parts]

TaskRequest ==
    [kind : {"create", "part", "complete", "delete"}, job : Job, id : Manager!Ids,
     part : 0 .. Parts]

UploadsTyped ==
    /\ jobs \in [Job -> JobRecord] /\ run \in RunRecord /\ net \subseteq TaskRequest
    /\ task \in [Job -> [Manager!Ids -> TaskRecord]] /\ restoring \in BOOLEAN
    /\ files \in [Job -> Nat] /\ gap \in [Job -> BOOLEAN]

\* The run r knows what its step needs.
RunShaped(r) ==
    /\ r.pc # "idle" => r.job \in Job
    /\ r.stale => r.aborted
    /\ r.pc = "fetch" => r.known # 0
    /\ r.pc = "undo" => r.aborted
    /\ r.pc \in {"create", "undo", "verify", "part", "check", "complete", "lookup"} => r.id # 0
    /\ r.pc \in {"part", "check"} => r.parts < Parts

\* A run r performs the job j, so far or still.
Runs(r, j) == r.pc # "idle" /\ r.job = j

Dead(t) == t.status \in {"cancelled", "expired"}

\* The second task of a job is only asked for once the first is over: e is the job, t its
\* tasks, r the run, n the requests on their way.
SecondAfterFirst(j, e, t, r, n) ==
    /\ t[2].status # "none" \/ e.known = 2 \/ e.request = 2 => Dead(t[1])
    /\ Runs(r, j) /\ (r.id = 2 \/ r.known = 2) => Dead(t[1])
    /\ \A q \in n : q.kind = "create" /\ q.job = j /\ q.id = 2 => Dead(t[1])
    /\ e.known # 0 => t[e.known].status # "none"
    /\ Runs(r, j) /\ r.known # 0 => t[r.known].status # "none"

\* The parts the run counts are on the server; after the last attempt something went on.
PartsSent(j, t, r) ==
    Runs(r, j) /\ r.pc \in {"verify", "part", "check"} =>
        /\ t[r.id].status # "none" /\ r.parts <= t[r.id].parts
        /\ r.pc = "check" /\ r.attempt = MaxAttempts - 1 /\ t[r.id].status = "active"
               => t[r.id].parts > r.parts

\* One file for the task that is complete.
FileOfTask(t, f) == f = IF \E i \in Manager!Ids : t[i].status = "complete" THEN 1 ELSE 0

\* What is shown of a job agrees with the run and with the server.
ShownOfJob(j, e, t, r) ==
    /\ e.phase = "queued" => e.file
    /\ e.phase \in {"hashing", "uploading"} => Runs(r, j) /\ ~r.aborted
    /\ Runs(r, j) /\ ~r.aborted => e.phase \notin {"new", "gone", "complete", "cancelled"}
    /\ e.phase = "complete" => \E i \in Manager!Ids : t[i].status = "complete"

Creates(r, j, i) == Runs(r, j) /\ r.pc = "create" /\ r.id = i

\* Unless a request failed at the client (g), an open task is known to its listed job, and
\* a canceled job is deleting it, or undoes it once its create is answered.
OpenIsKnown(j, e, t, g, r, n) ==
    /\ e.phase = "new" => /\ ~g /\ ~Runs(r, j) /\ e.deleting = {} /\ e.known = 0
                          /\ \A i \in Manager!Ids : t[i].status = "none"
    /\ ~g => \A q \in n : q.kind = "create" /\ q.job = j => q.part = 0 /\ Creates(r, j, q.id)
    /\ ~g /\ e.phase \notin {"new", "gone"} =>
           /\ \A i \in Manager!Ids : t[i].status = "active" => e.known = i
           /\ \A i \in Manager!Ids : Creates(r, j, i) /\ t[i].status = "none" => ~r.stale
    /\ ~g /\ e.phase = "cancelled" =>
           \A i \in Manager!Ids : t[i].status = "active" =>
               i \in e.deleting \/ (Runs(r, j) /\ r.pc = "undo" /\ r.id = i)

\* The second task of a job exists or is asked for.
SecondAsked(j, e, t, r, n) ==
    \/ t[2].status # "none" \/ e.request = 2 \/ Creates(r, j, 2)
    \/ \E q \in n : q.kind = "create" /\ q.job = j /\ q.id = 2

\* Then the first is not asked for again, and a listed job knows of a task; the run read
\* the known task of its job when it began.
RequestKept(j, e, t, r, n) ==
    /\ SecondAsked(j, e, t, r, n) =>
           /\ e.request # 1 /\ ~Creates(r, j, 1)
           /\ e.phase # "new" /\ (e.phase # "gone" => e.known # 0)
    /\ Runs(r, j) /\ ~r.aborted /\ r.pc \in {"hash", "fetch"} => r.known = e.known

JobFits(j, e, t, f, g, r, n) ==
    /\ SecondAfterFirst(j, e, t, r, n) /\ PartsSent(j, t, r) /\ FileOfTask(t, f)
    /\ ShownOfJob(j, e, t, r) /\ OpenIsKnown(j, e, t, g, r, n)
    /\ RequestKept(j, e, t, r, n)

UploadsInv ==
    /\ UploadsTyped /\ RunShaped(run)
    /\ \A j \in Job : JobFits(j, jobs[j], task[j], files[j], gap[j], run, net)

LEMMA TwoIds == Manager!Ids = {1, 2}
  BY DEF Manager!Ids

LEMMA PartsNat == Parts \in Nat \ {0} /\ MaxAttempts \in Nat \ {0} /\ Nobody \notin Job
  BY UploadsHold DEF Manager!ManagerAssumption

\* A job that is not performed does not see the run, nor requests of others.
LEMMA OtherRun ==
    ASSUME NEW j, NEW e, NEW t, NEW f, NEW g, NEW r, NEW n, NEW r2, NEW n2,
           JobFits(j, e, t, f, g, r, n), ~Runs(r, j), ~Runs(r2, j),
           \A q \in n2 : q.kind = "create" /\ q.job = j => q \in n
    PROVE  JobFits(j, e, t, f, g, r2, n2)
<1> USE DEF JobFits
<1>1. SecondAfterFirst(j, e, t, r2, n2)
  BY DEF SecondAfterFirst
<1>2. PartsSent(j, t, r2)
  BY DEF PartsSent
<1>3. ShownOfJob(j, e, t, r2)
  BY DEF ShownOfJob
<1>4. OpenIsKnown(j, e, t, g, r2, n2)
  BY DEF OpenIsKnown, Creates
<1>5. RequestKept(j, e, t, r2, n2)
  BY DEF RequestKept, SecondAsked, Creates
<1>6. QED
  BY <1>1, <1>2, <1>3, <1>4, <1>5

LEMMA OtherRequests ==
    ASSUME NEW j, NEW e, NEW t, NEW f, NEW g, NEW r, NEW n, NEW n2,
           JobFits(j, e, t, f, g, r, n),
           \A q \in n2 : q.kind = "create" /\ q.job = j => q \in n
    PROVE  JobFits(j, e, t, f, g, r, n2)
<1> USE DEF JobFits
<1>1. SecondAfterFirst(j, e, t, r, n2)
  BY DEF SecondAfterFirst
<1>2. OpenIsKnown(j, e, t, g, r, n2)
  BY DEF OpenIsKnown
<1>3. RequestKept(j, e, t, r, n2)
  BY DEF RequestKept, SecondAsked
<1>4. QED
  BY <1>1, <1>2, <1>3

\* What the server does with a request about the task t: u is what it becomes.
Moved(t, u, act, part) ==
    /\ \/ u.status = t.status
       \/ t.status = "none" /\ u.status = "active" /\ act = "create"
       \/ t.status = "active" /\ u.status = "complete" /\ act = "complete"
       \/ t.status \in {"active", "expired"} /\ u.status = "cancelled" /\ act = "delete"
       \/ t.status = "active" /\ u.status = "expired" /\ act = "expire"
    /\ t.parts \in Nat /\ u.parts \in Nat
    /\ t.status # "none" => t.parts <= u.parts
    /\ act = "create" => u.status # "none"
    /\ act = "delete" => u.status # "active"
    /\ act = "part" /\ t.status = "active" /\ part = t.parts + 1 => u.parts = part

\* The task i of the tasks t moves; f files become f2.
TaskMoves(t, t2, f, f2, i, act, part) ==
    /\ Moved(t[i], t2[i], act, part) /\ \A k \in Manager!Ids : k # i => t2[k] = t[k]
    /\ f2 = IF t2[i].status = "complete" /\ t[i].status # "complete" THEN f + 1 ELSE f

\* Unless it has been given up by its run, a create is not handled like other requests.
GivenUp(j, e, t, g, r, n, i, act) ==
    act = "create" => /\ g /\ e.phase # "new"
                      /\ i = 2 => Dead(t[1]) /\ SecondAsked(j, e, t, r, n)

LEMMA StatusMoves ==
    ASSUME NEW u, NEW v, NEW act, NEW part, Moved(u, v, act, part)
    PROVE  /\ u.status # "none" => v.status # "none"
           /\ Dead(u) => Dead(v)
           /\ v.status = "active" => u.status = "active" \/ act = "create"
           /\ u.status = "complete" => v.status = "complete"
           /\ u.status = "none" => v.status = "none" \/ act = "create"
  BY DEF Moved, Dead

LEMMA MovedFits ==
    ASSUME NEW j, NEW e, NEW t, NEW f, NEW g, NEW r, NEW n, NEW i \in Manager!Ids, NEW t2, NEW f2,
           NEW act, NEW part,
           JobFits(j, e, t, f, g, r, n), TaskMoves(t, t2, f, f2, i, act, part),
           r.parts \in Nat, r.id \in {0, 1, 2}, e.known \in {0, 1, 2}, r.known \in {0, 1, 2},
           RunShaped(r), GivenUp(j, e, t, g, r, n, i, act)
    PROVE  JobFits(j, e, t2, f2, g, r, n)
<1> USE TwoIds DEF JobFits, TaskMoves, GivenUp
<1>1. \A k \in {1, 2} : /\ t[k].status # "none" => t2[k].status # "none"
                        /\ Dead(t[k]) => Dead(t2[k])
                        /\ t2[k].status = "active" => t[k].status = "active" \/ g
                        /\ t[k].status = "complete" => t2[k].status = "complete"
                        /\ t[k].status = "none" /\ t2[k].status # "none"
                             => k = i /\ act = "create"
  <2>1. SUFFICES ASSUME NEW k \in {1, 2}
                 PROVE  /\ t[k].status # "none" => t2[k].status # "none"
                        /\ Dead(t[k]) => Dead(t2[k])
                        /\ t2[k].status = "active" => t[k].status = "active" \/ g
                        /\ t[k].status = "complete" => t2[k].status = "complete"
                        /\ t[k].status = "none" /\ t2[k].status # "none"
                             => k = i /\ act = "create"
    OBVIOUS
  <2>2. CASE k # i
    <3>1. t2[k] = t[k]
      BY <2>2
    <3>2. QED
      BY <3>1
  <2>3. CASE k = i
    <3>1. Moved(t[k], t2[k], act, part)
      BY <2>3
    <3>2. act = "create" => g
      OBVIOUS
    <3>3. QED
      BY <2>3, <3>1, <3>2, StatusMoves
  <2>4. QED
    BY <2>2, <2>3
<1>2. SecondAfterFirst(j, e, t2, r, n)
  <2>1. t2[2].status # "none" => Dead(t2[1])
    <3>1. CASE t[2].status # "none"
      BY <1>1, <3>1 DEF SecondAfterFirst
    <3>2. CASE t[2].status = "none" /\ t2[2].status # "none"
      <4>1. i = 2 /\ act = "create"
        BY <1>1, <3>2
      <4>2. Dead(t[1])
        BY <4>1
      <4>3. QED
        BY <1>1, <4>2
    <3>3. QED
      BY <3>1, <3>2
  <2>2. QED
    BY <1>1, <2>1 DEF SecondAfterFirst
<1>3. PartsSent(j, t2, r)
  <2>1. SUFFICES ASSUME Runs(r, j), r.pc \in {"verify", "part", "check"}
                 PROVE  /\ t2[r.id].status # "none" /\ r.parts <= t2[r.id].parts
                        /\ r.pc = "check" /\ r.attempt = MaxAttempts - 1
                              /\ t2[r.id].status = "active"
                               => t2[r.id].parts > r.parts
    BY DEF PartsSent
  <2>2. r.id \in {1, 2}
    BY <2>1 DEF RunShaped
  <2>3. /\ t[r.id].status # "none" /\ r.parts <= t[r.id].parts
        /\ r.pc = "check" /\ r.attempt = MaxAttempts - 1 /\ t[r.id].status = "active"
               => t[r.id].parts > r.parts
    BY <2>1 DEF PartsSent
  <2>4. CASE r.id # i
    BY <2>2, <2>3, <2>4
  <2>5. CASE r.id = i
    <3>1. t[i].parts \in Nat /\ t2[i].parts \in Nat /\ t[i].parts <= t2[i].parts
      BY <2>3, <2>5 DEF Moved
    <3>2. t2[i].status # "none" /\ (t2[i].status = "active" => t[i].status = "active")
      BY <2>3, <2>5 DEF Moved
    <3>3. QED
      BY <2>3, <2>5, <3>1, <3>2
  <2>6. QED
    BY <2>4, <2>5
<1>4. FileOfTask(t2, f2)
  <2>1. CASE t2[i].status = "complete" /\ t[i].status # "complete"
    <3>1. t[i].status = "active"
      BY <2>1 DEF Moved
    <3>2. \A k \in {1, 2} : t[k].status # "complete"
      BY <2>1, <3>1 DEF SecondAfterFirst, Dead
    <3>3. f = 0
      BY <3>2 DEF FileOfTask
    <3>4. QED
      BY <2>1, <3>3 DEF FileOfTask
  <2>2. CASE ~(t2[i].status = "complete" /\ t[i].status # "complete")
    <3>1. \A k \in {1, 2} : t2[k].status = "complete" <=> t[k].status = "complete"
      BY <1>1, <2>2
    <3>2. QED
      BY <2>2, <3>1 DEF FileOfTask
  <2>3. QED
    BY <2>1, <2>2
<1>5. ShownOfJob(j, e, t2, r)
  BY <1>1 DEF ShownOfJob
<1>6. OpenIsKnown(j, e, t2, g, r, n)
  <2>1. e.phase = "new" => \A k \in {1, 2} : t2[k].status = "none"
    <3>1. SUFFICES ASSUME e.phase = "new" PROVE \A k \in {1, 2} : t2[k].status = "none"
      OBVIOUS
    <3>2. \A k \in {1, 2} : t[k].status = "none"
      BY <3>1 DEF OpenIsKnown
    <3>3. act # "create"
      BY <3>1
    <3>4. QED
      BY <1>1, <3>2, <3>3
  <2>2. QED
    BY <1>1, <2>1 DEF OpenIsKnown
<1>7. RequestKept(j, e, t2, r, n)
  <2>1. SecondAsked(j, e, t2, r, n) => SecondAsked(j, e, t, r, n)
    <3>1. t2[2].status # "none" /\ t[2].status = "none" => i = 2 /\ act = "create"
      BY <1>1
    <3>2. i = 2 /\ act = "create" => SecondAsked(j, e, t, r, n)
      OBVIOUS
    <3>3. CASE t2[2].status # "none" /\ t[2].status = "none"
      BY <3>1, <3>2, <3>3
    <3>4. CASE ~(t2[2].status # "none" /\ t[2].status = "none")
      BY <3>4 DEF SecondAsked
    <3>5. QED
      BY <3>3, <3>4
  <2>2. QED
    BY <2>1 DEF RequestKept
<1>8. QED
  BY <1>2, <1>3, <1>4, <1>5, <1>6, <1>7

\* Another phase of a listed job.
LEMMA PhaseFits ==
    ASSUME NEW j, NEW e, NEW t, NEW f, NEW g, NEW r, NEW n, NEW e2,
           JobFits(j, e, t, f, g, r, n), e.phase \notin {"new", "gone"},
           e2.known = e.known, e2.request = e.request, e2.deleting = e.deleting,
           e2.phase \notin {"new", "cancelled"}, ShownOfJob(j, e2, t, r)
    PROVE  JobFits(j, e2, t, f, g, r, n)
<1> USE DEF JobFits
<1>1. SecondAfterFirst(j, e2, t, r, n)
  BY DEF SecondAfterFirst
<1>2. OpenIsKnown(j, e2, t, g, r, n)
  BY DEF OpenIsKnown
<1>3. RequestKept(j, e2, t, r, n)
  BY DEF RequestKept, SecondAsked
<1>4. QED
  BY <1>1, <1>2, <1>3

\* A request that failed at the client.
LEMMA GapFits ==
    ASSUME NEW j, NEW e, NEW t, NEW f, NEW g, NEW r, NEW n,
           JobFits(j, e, t, f, g, r, n), e.phase # "new"
    PROVE  JobFits(j, e, t, f, TRUE, r, n)
  BY DEF JobFits, OpenIsKnown

\* A run returns from a job that is not shown as worked on.
LEMMA ReturnFits ==
    ASSUME NEW j, NEW e, NEW t, NEW f, NEW g, NEW r, NEW n, NEW r2, NEW n2,
           JobFits(j, e, t, f, g, r, n), Runs(r, j), r2.pc = "idle",
           \A q \in n2 : q.kind = "create" /\ q.job = j => q \in n,
           ~g => \A q \in n2 : ~(q.kind = "create" /\ q.job = j),
           e.phase \notin {"hashing", "uploading"},
           r.pc = "undo" /\ ~g => \A i \in Manager!Ids : t[i].status = "active" => i # r.id
    PROVE  JobFits(j, e, t, f, g, r2, n2)
<1> USE DEF JobFits
<1>1. ~Runs(r2, j)
  BY DEF Runs
<1>2. SecondAfterFirst(j, e, t, r2, n2)
  BY <1>1 DEF SecondAfterFirst
<1>3. PartsSent(j, t, r2)
  BY <1>1 DEF PartsSent
<1>4. ShownOfJob(j, e, t, r2)
  BY <1>1 DEF ShownOfJob
<1>5. OpenIsKnown(j, e, t, g, r2, n2)
  BY <1>1 DEF OpenIsKnown, Creates
<1>6. RequestKept(j, e, t, r2, n2)
  BY <1>1 DEF RequestKept, SecondAsked, Creates
<1>7. QED
  BY <1>2, <1>3, <1>4, <1>5, <1>6

\* A run goes on with its task.
LEMMA GoesOnFits ==
    ASSUME NEW j, NEW e, NEW t, NEW f, NEW g, NEW r, NEW n, NEW r2, NEW n2,
           JobFits(j, e, t, f, g, r, n), Runs(r, j), Runs(r2, j),
           r2.aborted <=> r.aborted, r2.stale <=> r.stale, r2.known = r.known,
           r2.id = 2 => Dead(t[1]),
           r2.pc # "create", PartsSent(j, t, r2), r.pc # "undo",
           r2.pc \in {"hash", "fetch"} => r.pc = "hash",
           \A q \in n2 : q.kind = "create" /\ q.job = j => q \in n,
           ~g => \A q \in n2 : ~(q.kind = "create" /\ q.job = j)
    PROVE  JobFits(j, e, t, f, g, r2, n2)
<1> USE DEF JobFits
<1>1. SecondAfterFirst(j, e, t, r2, n2)
  BY DEF SecondAfterFirst
<1>2. ShownOfJob(j, e, t, r2)
  BY DEF ShownOfJob
<1>3. OpenIsKnown(j, e, t, g, r2, n2)
  BY DEF OpenIsKnown, Creates
<1>4. RequestKept(j, e, t, r2, n2)
  BY DEF RequestKept, SecondAsked, Creates
<1>5. QED
  BY <1>1, <1>2, <1>3, <1>4

\* The signal of a run is aborted, while its job changes.
LEMMA AbortFits ==
    ASSUME NEW j, NEW e, NEW t, NEW f, NEW g, NEW r, NEW n, NEW r2,
           JobFits(j, e, t, f, g, r, n), e.phase \notin {"hashing", "uploading"},
           Runs(r, j) <=> Runs(r2, j), r2.aborted, r2.stale <=> r.stale, r2.known = r.known,
           r2.id = r.id, r2.pc = r.pc, r2.parts = r.parts, r2.attempt = r.attempt
    PROVE  JobFits(j, e, t, f, g, r2, n)
<1> USE DEF JobFits
<1>1. SecondAfterFirst(j, e, t, r2, n)
  BY DEF SecondAfterFirst
<1>2. PartsSent(j, t, r2)
  BY DEF PartsSent
<1>3. ShownOfJob(j, e, t, r2)
  BY DEF ShownOfJob
<1>4. OpenIsKnown(j, e, t, g, r2, n)
  BY DEF OpenIsKnown, Creates
<1>5. RequestKept(j, e, t, r2, n)
  BY DEF RequestKept, SecondAsked, Creates
<1>6. QED
  BY <1>1, <1>2, <1>3, <1>4, <1>5

\* done(): the task of the run is complete.
LEMMA FinishFits ==
    ASSUME NEW j, NEW e, NEW t, NEW f, NEW g, NEW r, NEW n, NEW e2, NEW r2, NEW n2,
           JobFits(j, e, t, f, g, r, n), Runs(r, j), r2.pc = "idle",
           r.id \in Manager!Ids, t[r.id].status = "complete",
           r.pc # "create",
           \A q \in n2 : q.kind = "create" /\ q.job = j => q \in n,
           e2.known = r.id, e2.request = e.request, e2.deleting = e.deleting,
           e2.phase = IF e.phase \notin {"new", "gone"} THEN "complete" ELSE e.phase
    PROVE  JobFits(j, e2, t, f, g, r2, n2)
<1> USE TwoIds DEF JobFits
<1>1. ~Runs(r2, j)
  BY DEF Runs
<1>2. SecondAfterFirst(j, e2, t, r2, n2)
  BY <1>1 DEF SecondAfterFirst
<1>3. PartsSent(j, t, r2)
  BY <1>1 DEF PartsSent
<1>4. ShownOfJob(j, e2, t, r2)
  BY <1>1 DEF ShownOfJob
<1>5. \A i \in {1, 2} : t[i].status # "active" \/ i = r.id
  BY DEF SecondAfterFirst, Dead
<1>6. e.phase # "new"
  BY DEF OpenIsKnown
<1>7. OpenIsKnown(j, e2, t, g, r2, n2)
  BY <1>1, <1>5, <1>6 DEF OpenIsKnown, Creates
<1>8. RequestKept(j, e2, t, r2, n2)
  BY <1>1 DEF RequestKept, SecondAsked, Creates
<1>9. QED
  BY <1>2, <1>3, <1>4, <1>7, <1>8

-----------------------------------------------------------------------------
(* its records *)

LEMMA JobRecordFields ==
    ASSUME NEW e \in JobRecord
    PROVE  /\ e.phase \in {"new", "gone", "queued", "hashing", "uploading", "saving", "complete",
                           "paused", "error", "cancelled"}
           /\ e.known \in {0, 1, 2} /\ e.file \in BOOLEAN /\ e.request \in {0, 1, 2}
           /\ e.deleting \in SUBSET Manager!Ids
<1>1. /\ e.phase \in {"new", "gone", "queued", "hashing", "uploading", "saving", "complete",
                      "paused", "error", "cancelled"}
      /\ e.known \in {0, 1, 2} /\ e.request \in {0, 1, 2}
  BY TwoIds DEF JobRecord
<1>2. e.deleting \in SUBSET Manager!Ids
  BY DEF JobRecord
<1>3. e.file \in BOOLEAN
  BY Zenon DEF JobRecord
<1>4. QED
  BY <1>1, <1>2, <1>3

LEMMA RunRecordFields ==
    ASSUME NEW r \in RunRecord
    PROVE  /\ r.pc \in {"idle", "hash", "fetch", "create", "undo", "verify", "part", "check",
                        "complete", "lookup"}
           /\ r.job \in Job \cup {Nobody} /\ r.known \in {0, 1, 2} /\ r.id \in {0, 1, 2}
           /\ r.parts \in 0 .. Parts /\ r.parts \in Nat
           /\ r.attempt \in 0 .. MaxAttempts - 1 /\ r.aborted \in BOOLEAN /\ r.stale \in BOOLEAN
<1>1. /\ r.pc \in {"idle", "hash", "fetch", "create", "undo", "verify", "part", "check",
                   "complete", "lookup"}
      /\ r.job \in Job \cup {Nobody} /\ r.known \in {0, 1, 2} /\ r.id \in {0, 1, 2}
      /\ r.parts \in 0 .. Parts /\ r.attempt \in 0 .. MaxAttempts - 1
  BY TwoIds DEF RunRecord
<1>2. r.aborted \in BOOLEAN /\ r.stale \in BOOLEAN
  BY Zenon DEF RunRecord
<1>3. r.parts \in Nat
  BY <1>1, PartsNat
<1>4. QED
  BY <1>1, <1>2, <1>3

LEMMA TaskRecordFields ==
    ASSUME NEW t \in TaskRecord
    PROVE  /\ t.status \in {"none", "active", "complete", "cancelled", "expired"}
           /\ t.parts \in 0 .. Parts /\ t.parts \in Nat
  BY PartsNat DEF TaskRecord

LEMMA TaskRequestFields ==
    ASSUME NEW q \in TaskRequest
    PROVE  /\ q.kind \in {"create", "part", "complete", "delete"} /\ q.job \in Job
           /\ q.id \in Manager!Ids /\ q.part \in 0 .. Parts
  BY DEF TaskRequest

LEMMA RequestMade ==
    ASSUME NEW kd, kd \in {"create", "part", "complete", "delete"}, NEW j \in Job,
           NEW i \in Manager!Ids, NEW p \in 0 .. Parts
    PROVE  LET q == Manager!Request(kd, j, i, p) IN
           q \in TaskRequest /\ q.kind = kd /\ q.job = j /\ q.id = i /\ q.part = p
  BY DEF Manager!Request, TaskRequest

RunsOf(F, j, e) == [F EXCEPT ![j] = e]

LEMMA UpdatedJob ==
    ASSUME NEW F \in [Job -> JobRecord], NEW j \in Job, NEW e \in JobRecord
    PROVE  LET G == RunsOf(F, j, e) IN
           G \in [Job -> JobRecord] /\ G[j] = e /\ \A k \in Job : k # j => G[k] = F[k]
  BY DEF RunsOf

LEMMA UpdatedGap ==
    ASSUME NEW F \in [Job -> BOOLEAN], NEW j \in Job
    PROVE  LET G == [F EXCEPT ![j] = TRUE] IN
           G \in [Job -> BOOLEAN] /\ G[j] = TRUE /\ \A k \in Job : k # j => G[k] = F[k]
  OBVIOUS

PhasedAs(e, p) == [e EXCEPT !.phase = p]

LEMMA PhasedFields ==
    ASSUME NEW e \in JobRecord, NEW p,
           p \in {"queued", "hashing", "uploading", "saving", "complete", "paused", "error",
                  "cancelled"}
    PROVE  LET d == PhasedAs(e, p) IN
           /\ d \in JobRecord /\ d.phase = p /\ d.known = e.known /\ d.request = e.request
           /\ d.deleting = e.deleting /\ d.file = e.file
<1>1. PhasedAs(e, p) \in JobRecord /\ PhasedAs(e, p).phase = p
  BY DEF PhasedAs, JobRecord
<1>2. PhasedAs(e, p).known = e.known /\ PhasedAs(e, p).request = e.request
  BY DEF PhasedAs, JobRecord
<1>3. PhasedAs(e, p).deleting = e.deleting /\ PhasedAs(e, p).file = e.file
  BY DEF PhasedAs, JobRecord
<1>4. QED
  BY <1>1, <1>2, <1>3

QueuedAs(e) == [e EXCEPT !.phase = "queued", !.file = TRUE]

LEMMA QueuedFields ==
    ASSUME NEW e \in JobRecord
    PROVE  LET d == QueuedAs(e) IN
           /\ d \in JobRecord /\ d.phase = "queued" /\ d.known = e.known
           /\ d.request = e.request /\ d.deleting = e.deleting /\ d.file
  BY DEF QueuedAs, JobRecord

CancelledAs(e, s) == [e EXCEPT !.phase = "cancelled", !.deleting = @ \cup s]

LEMMA CancelledFields ==
    ASSUME NEW e \in JobRecord, NEW s \in SUBSET Manager!Ids
    PROVE  LET d == CancelledAs(e, s) IN
           /\ d \in JobRecord /\ d.phase = "cancelled" /\ d.known = e.known
           /\ d.request = e.request /\ d.deleting = e.deleting \cup s
<1>1. e.deleting \cup s \in SUBSET Manager!Ids
  BY JobRecordFields
<1>2. QED
  BY <1>1 DEF CancelledAs, JobRecord

AnsweredAs(e, i, p) == [e EXCEPT !.deleting = @ \ {i}, !.phase = p]

LEMMA AnsweredFields ==
    ASSUME NEW e \in JobRecord, NEW i, NEW p,
           p \in {"new", "gone", "queued", "hashing", "uploading", "saving", "complete",
                  "paused", "error", "cancelled"}
    PROVE  LET d == AnsweredAs(e, i, p) IN
           /\ d \in JobRecord /\ d.phase = p /\ d.known = e.known /\ d.file = e.file
           /\ d.request = e.request /\ d.deleting = e.deleting \ {i}
<1>1. e.deleting \ {i} \in SUBSET Manager!Ids
  BY JobRecordFields
<1>2. QED
  BY <1>1 DEF AnsweredAs, JobRecord

DroppedAs(e) == [Manager!Unlisted EXCEPT !.deleting = e.deleting]

LEMMA DroppedFields ==
    ASSUME NEW e \in JobRecord
    PROVE  LET d == DroppedAs(e) IN
           /\ d \in JobRecord /\ d.phase = "gone" /\ d.known = 0 /\ d.request = 0
           /\ d.deleting = e.deleting
<1>1. e.deleting \in SUBSET Manager!Ids
  BY JobRecordFields
<1>2. QED
  BY <1>1 DEF DroppedAs, Manager!Unlisted, JobRecord

RestoredAs(e, i, p) == [e EXCEPT !.known = i, !.phase = p]

LEMMA RestoredFields ==
    ASSUME NEW e \in JobRecord, NEW i \in Manager!Ids, NEW p,
           p \in {"new", "gone", "complete", "paused"}
    PROVE  LET d == RestoredAs(e, i, p) IN
           /\ d \in JobRecord /\ d.phase = p /\ d.known = i
           /\ d.request = e.request /\ d.deleting = e.deleting
  BY DEF RestoredAs, JobRecord

RequestedAs(e, i) == [e EXCEPT !.request = i]

LEMMA RequestedFields ==
    ASSUME NEW e \in JobRecord, NEW i \in Manager!Ids
    PROVE  LET d == RequestedAs(e, i) IN
           /\ d \in JobRecord /\ d.phase = e.phase /\ d.known = e.known /\ d.file = e.file
           /\ d.request = i /\ d.deleting = e.deleting
<1>1. e.file \in BOOLEAN
  BY JobRecordFields
<1>2. QED
  BY DEF RequestedAs, JobRecord

KnownAs(e, i) == [e EXCEPT !.known = i]

LEMMA KnownFields ==
    ASSUME NEW e \in JobRecord, NEW i \in Manager!Ids
    PROVE  LET d == KnownAs(e, i) IN
           /\ d \in JobRecord /\ d.phase = e.phase /\ d.known = i /\ d.file = e.file
           /\ d.request = e.request /\ d.deleting = e.deleting
  BY DEF KnownAs, JobRecord

LEMMA IdleRunFields == Manager!IdleRun \in RunRecord /\ Manager!IdleRun.pc = "idle"
                       /\ ~Manager!IdleRun.stale
  BY PartsNat DEF Manager!IdleRun, RunRecord

AbortedRun(r) == [r EXCEPT !.aborted = TRUE]

LEMMA AbortedFields ==
    ASSUME NEW r \in RunRecord
    PROVE  LET d == AbortedRun(r) IN
           /\ d \in RunRecord /\ d.pc = r.pc /\ d.job = r.job /\ d.known = r.known
           /\ d.id = r.id /\ d.parts = r.parts /\ d.attempt = r.attempt
           /\ d.aborted /\ d.stale = r.stale
  BY DEF AbortedRun, RunRecord

StaleRun(r) == [r EXCEPT !.aborted = TRUE, !.stale = TRUE]

LEMMA StaleFields ==
    ASSUME NEW r \in RunRecord
    PROVE  LET d == StaleRun(r) IN
           /\ d \in RunRecord /\ d.pc = r.pc /\ d.job = r.job /\ d.known = r.known
           /\ d.id = r.id /\ d.parts = r.parts /\ d.attempt = r.attempt
           /\ d.aborted /\ d.stale
  BY DEF StaleRun, RunRecord

LEMMA IdleRunIs ==
    /\ Manager!IdleRun.pc = "idle" /\ Manager!IdleRun.id = 0
    /\ Manager!IdleRun.aborted = FALSE /\ Manager!IdleRun.stale = FALSE
  BY DEF Manager!IdleRun

HashingOf(r, j, i) == [r EXCEPT !.job = j, !.pc = "hash", !.known = i]

LEMMA HashingOfFields ==
    ASSUME NEW r \in RunRecord, NEW j \in Job, NEW i \in {0, 1, 2}
    PROVE  LET d == HashingOf(r, j, i) IN
           /\ d \in RunRecord /\ d.pc = "hash" /\ d.job = j /\ d.known = i /\ d.id = r.id
           /\ d.aborted = r.aborted /\ d.stale = r.stale
  BY TwoIds DEF HashingOf, RunRecord

HashingRun(j, i) == HashingOf(Manager!IdleRun, j, i)

LEMMA HashingFields ==
    ASSUME NEW j \in Job, NEW i \in {0, 1, 2}
    PROVE  LET d == HashingRun(j, i) IN
           /\ d \in RunRecord /\ d.pc = "hash" /\ d.job = j /\ d.known = i /\ d.id = 0
           /\ ~d.aborted /\ ~d.stale
<1>1. PICK r \in RunRecord : r = Manager!IdleRun
  BY IdleRunFields
<1>2. LET d == HashingOf(r, j, i) IN
      /\ d \in RunRecord /\ d.pc = "hash" /\ d.job = j /\ d.known = i /\ d.id = r.id
      /\ d.aborted = r.aborted /\ d.stale = r.stale
  BY HashingOfFields
<1>3. r.id = 0 /\ r.aborted = FALSE /\ r.stale = FALSE
  BY <1>1, IdleRunIs
<1>4. QED
  BY <1>1, <1>2, <1>3 DEF HashingRun

RunAt(r, p) == [r EXCEPT !.pc = p]

LEMMA RunAtFields ==
    ASSUME NEW r \in RunRecord, NEW p, p \in {"fetch", "check", "lookup"}
    PROVE  LET d == RunAt(r, p) IN
           /\ d \in RunRecord /\ d.pc = p /\ d.job = r.job /\ d.known = r.known
           /\ d.id = r.id /\ d.parts = r.parts /\ d.attempt = r.attempt
           /\ d.aborted = r.aborted /\ d.stale = r.stale
  BY DEF RunAt, RunRecord

RunWith(r, p, i) == [r EXCEPT !.pc = p, !.id = i]

LEMMA RunWithFields ==
    ASSUME NEW r \in RunRecord, NEW p, p \in {"create", "undo"}, NEW i \in Manager!Ids
    PROVE  LET d == RunWith(r, p, i) IN
           /\ d \in RunRecord /\ d.pc = p /\ d.job = r.job /\ d.known = r.known
           /\ d.id = i /\ d.parts = r.parts /\ d.aborted = r.aborted /\ d.stale = r.stale
  BY DEF RunWith, RunRecord

VerifyingRun(r, i, n) == [r EXCEPT !.pc = "verify", !.id = i, !.parts = n]

LEMMA VerifyingFields ==
    ASSUME NEW r \in RunRecord, NEW i \in Manager!Ids, NEW n \in 0 .. Parts
    PROVE  LET d == VerifyingRun(r, i, n) IN
           /\ d \in RunRecord /\ d.pc = "verify" /\ d.job = r.job /\ d.known = r.known
           /\ d.id = i /\ d.parts = n /\ d.aborted = r.aborted /\ d.stale = r.stale
  BY DEF VerifyingRun, RunRecord

SendingRun(r, p, i, n) == [r EXCEPT !.pc = p, !.id = i, !.parts = n, !.attempt = 0]

LEMMA SendingFields ==
    ASSUME NEW r \in RunRecord, NEW p, p \in {"part", "complete"}, NEW i \in Manager!Ids,
           NEW n \in 0 .. Parts
    PROVE  LET d == SendingRun(r, p, i, n) IN
           /\ d \in RunRecord /\ d.pc = p /\ d.job = r.job /\ d.known = r.known
           /\ d.id = i /\ d.parts = n /\ d.aborted = r.aborted /\ d.stale = r.stale
<1>1. 0 \in 0 .. MaxAttempts - 1
  BY PartsNat
<1>2. QED
  BY <1>1 DEF SendingRun, RunRecord

AgainRun(r) == [r EXCEPT !.pc = "part", !.attempt = r.attempt + 1]

LEMMA AgainFields ==
    ASSUME NEW r \in RunRecord, r.attempt + 1 \in 0 .. MaxAttempts - 1
    PROVE  LET d == AgainRun(r) IN
           /\ d \in RunRecord /\ d.pc = "part" /\ d.job = r.job /\ d.known = r.known
           /\ d.id = r.id /\ d.parts = r.parts /\ d.aborted = r.aborted /\ d.stale = r.stale
  BY DEF AgainRun, RunRecord

-----------------------------------------------------------------------------
(* its steps *)

\* What a step about one job leaves of the others.
LEMMA OneJobChanges ==
    ASSUME UploadsInv, NEW j \in Job, UploadsTyped', RunShaped(run)',
           \A k \in Job : k # j => /\ jobs'[k] = jobs[k] /\ task'[k] = task[k]
                                   /\ files'[k] = files[k] /\ gap'[k] = gap[k],
           \A k \in Job : k # j => run' = run \/ (~Runs(run, k) /\ ~Runs(run', k)),
           \A q \in net' : q.kind = "create" /\ q.job # j => q \in net,
           JobFits(j, jobs'[j], task'[j], files'[j], gap'[j], run', net')
    PROVE  UploadsInv'
<1>1. ASSUME NEW k \in Job
      PROVE  JobFits(k, jobs'[k], task'[k], files'[k], gap'[k], run', net')
  <2>1. CASE k = j
    BY <2>1
  <2>2. CASE k # j
    <3>1. JobFits(k, jobs'[k], task'[k], files'[k], gap'[k], run, net)
      BY <2>2 DEF UploadsInv
    <3>2. \A q \in net' : q.kind = "create" /\ q.job = k => q \in net
      BY <2>2
    <3>3. CASE run' = run
      BY <3>1, <3>2, <3>3, OtherRequests
    <3>4. CASE ~Runs(run, k) /\ ~Runs(run', k)
      BY <3>1, <3>2, <3>4, OtherRun
    <3>5. QED
      BY <2>2, <3>3, <3>4
  <2>3. QED
    BY <2>1, <2>2
<1>2. QED
  BY <1>1 DEF UploadsInv

ServedTask(q, t) ==
    CASE q.kind = "create" /\ t.status = "none" -> [status |-> "active", parts |-> 0]
      [] q.kind = "part" /\ t.status = "active" /\ q.part = t.parts + 1 ->
             [t EXCEPT !.parts = q.part]
      [] q.kind = "complete" /\ t.status = "active" /\ t.parts = Parts ->
             [t EXCEPT !.status = "complete"]
      [] q.kind = "delete" /\ t.status \in {"active", "expired"} ->
             [t EXCEPT !.status = "cancelled"]
      [] OTHER -> t

LEMMA ServedTaskMoves ==
    ASSUME NEW q \in TaskRequest, NEW t \in TaskRecord
    PROVE  LET u == ServedTask(q, t) IN u \in TaskRecord /\ Moved(t, u, q.kind, q.part)
<1> DEFINE u == ServedTask(q, t)
<1>1. q.kind \in {"create", "part", "complete", "delete"} /\ q.part \in 0 .. Parts /\ q.part \in Nat
  BY TaskRequestFields, PartsNat
<1>2. t.status \in {"none", "active", "complete", "cancelled", "expired"} /\ t.parts \in Nat
  BY TaskRecordFields
<1>3. CASE q.kind = "create" /\ t.status = "none"
  <2>1. u = [status |-> "active", parts |-> 0]
    BY <1>3 DEF ServedTask
  <2>2. QED
    BY <1>2, <1>3, <2>1, PartsNat DEF TaskRecord, Moved
<1>4. CASE q.kind = "part" /\ t.status = "active" /\ q.part = t.parts + 1
  <2>1. u = [t EXCEPT !.parts = q.part]
    BY <1>4 DEF ServedTask
  <2>2. u \in TaskRecord /\ u.status = t.status /\ u.parts = q.part
    BY <1>1, <2>1 DEF TaskRecord
  <2>3. QED
    BY <1>1, <1>2, <1>4, <2>2 DEF Moved
<1>5. CASE q.kind = "complete" /\ t.status = "active" /\ t.parts = Parts
  <2>1. u = [t EXCEPT !.status = "complete"]
    BY <1>5 DEF ServedTask
  <2>2. u \in TaskRecord /\ u.status = "complete" /\ u.parts = t.parts
    BY <2>1 DEF TaskRecord
  <2>3. QED
    BY <1>2, <1>5, <2>2 DEF Moved
<1>6. CASE q.kind = "delete" /\ t.status \in {"active", "expired"}
  <2>1. u = [t EXCEPT !.status = "cancelled"]
    BY <1>6 DEF ServedTask
  <2>2. u \in TaskRecord /\ u.status = "cancelled" /\ u.parts = t.parts
    BY <2>1 DEF TaskRecord
  <2>3. QED
    BY <1>2, <1>6, <2>2 DEF Moved
<1>7. CASE /\ ~(q.kind = "create" /\ t.status = "none")
           /\ ~(q.kind = "part" /\ t.status = "active" /\ q.part = t.parts + 1)
           /\ ~(q.kind = "complete" /\ t.status = "active" /\ t.parts = Parts)
           /\ ~(q.kind = "delete" /\ t.status \in {"active", "expired"})
  <2>1. u = t
    BY <1>7 DEF ServedTask
  <2>2. QED
    BY <1>2, <1>7, <2>1 DEF Moved
<1>8. QED
  BY <1>3, <1>4, <1>5, <1>6, <1>7

PutTask(F, j, i, u) == [F EXCEPT ![j][i] = u]

LEMMA PutTaskFields ==
    ASSUME NEW F \in [Job -> [Manager!Ids -> TaskRecord]], NEW j \in Job,
           NEW i \in Manager!Ids, NEW u \in TaskRecord
    PROVE  LET G == PutTask(F, j, i, u) IN
           /\ G \in [Job -> [Manager!Ids -> TaskRecord]] /\ G[j][i] = u
           /\ \A k \in Manager!Ids : k # i => G[j][k] = F[j][k]
           /\ \A k \in Job : k # j => G[k] = F[k]
  BY DEF PutTask

LEMMA ServedFacts ==
    ASSUME UploadsTyped, NEW q \in TaskRequest, Manager!Served(q)
    PROVE  /\ task' \in [Job -> [Manager!Ids -> TaskRecord]] /\ files' \in [Job -> Nat]
           /\ \A k \in Job : k # q.job => task'[k] = task[k] /\ files'[k] = files[k]
           /\ \A k \in Manager!Ids : k # q.id => task'[q.job][k] = task[q.job][k]
           /\ Moved(task[q.job][q.id], task'[q.job][q.id], q.kind, q.part)
           /\ files'[q.job] = IF /\ task'[q.job][q.id].status = "complete"
                                 /\ task[q.job][q.id].status # "complete"
                              THEN files[q.job] + 1 ELSE files[q.job]
<1>1. q.job \in Job /\ q.id \in Manager!Ids
  BY TaskRequestFields
<1>2. PICK t \in TaskRecord : t = task[q.job][q.id]
  BY <1>1 DEF UploadsTyped
<1>3. PICK u \in TaskRecord : u = ServedTask(q, t) /\ Moved(t, u, q.kind, q.part)
  BY ServedTaskMoves
<1>4. /\ task' = PutTask(task, q.job, q.id, u)
      /\ files' = IF u.status = "complete" /\ t.status # "complete"
                  THEN [files EXCEPT ![q.job] = files[q.job] + 1] ELSE files
  <2>1. u = ServedTask(q, task[q.job][q.id])
    BY <1>2, <1>3
  <2>2. task' = PutTask(task, q.job, q.id, ServedTask(q, task[q.job][q.id]))
    BY DEF Manager!Served, ServedTask, PutTask
  <2>3. files' = IF /\ ServedTask(q, task[q.job][q.id]).status = "complete"
                    /\ task[q.job][q.id].status # "complete"
                 THEN [files EXCEPT ![q.job] = files[q.job] + 1] ELSE files
    BY DEF Manager!Served, ServedTask
  <2>4. QED
    BY <1>2, <2>1, <2>2, <2>3
<1>5. /\ task' \in [Job -> [Manager!Ids -> TaskRecord]] /\ task'[q.job][q.id] = u
      /\ \A k \in Manager!Ids : k # q.id => task'[q.job][k] = task[q.job][k]
      /\ \A k \in Job : k # q.job => task'[k] = task[k]
  <2>1. PICK F \in [Job -> [Manager!Ids -> TaskRecord]] : F = task
    BY DEF UploadsTyped
  <2>2. task' = PutTask(F, q.job, q.id, u)
    BY <1>4, <2>1
  <2>3. PICK j \in Job, i \in Manager!Ids : j = q.job /\ i = q.id
    BY <1>1
  <2>4. LET G == PutTask(F, j, i, u) IN
        /\ G \in [Job -> [Manager!Ids -> TaskRecord]] /\ G[j][i] = u
        /\ \A k \in Manager!Ids : k # i => G[j][k] = F[j][k]
        /\ \A k \in Job : k # j => G[k] = F[k]
    BY PutTaskFields
  <2>5. QED
    BY <2>1, <2>2, <2>3, <2>4
<1>6. /\ files' \in [Job -> Nat] /\ \A k \in Job : k # q.job => files'[k] = files[k]
      /\ files'[q.job] = IF u.status = "complete" /\ t.status # "complete"
                         THEN files[q.job] + 1 ELSE files[q.job]
  <2>1. files \in [Job -> Nat]
    BY DEF UploadsTyped
  <2>2. QED
    BY <1>1, <1>4, <2>1
<1>7. QED
  BY <1>2, <1>3, <1>5, <1>6

\* A file is enqueued.
LEMMA EnqueueFits ==
    ASSUME NEW j, NEW e, NEW t, NEW f, NEW g, NEW r, NEW n, NEW e2,
           JobFits(j, e, t, f, g, r, n), e.phase = "new",
           e2.phase = "queued", e2.file, e2.known = e.known, e2.request = e.request,
           e2.deleting = e.deleting
    PROVE  JobFits(j, e2, t, f, g, r, n)
<1> USE TwoIds DEF JobFits
<1>1. ~SecondAsked(j, e2, t, r, n)
  BY DEF RequestKept, SecondAsked
<1>2. SecondAfterFirst(j, e2, t, r, n) /\ RequestKept(j, e2, t, r, n)
  BY <1>1 DEF SecondAfterFirst, RequestKept
<1>3. ShownOfJob(j, e2, t, r)
  BY DEF ShownOfJob, OpenIsKnown
<1>4. OpenIsKnown(j, e2, t, g, r, n)
  BY DEF OpenIsKnown, Creates
<1>5. QED
  BY <1>2, <1>3, <1>4

\* A listed job is canceled: the task it knows is being deleted, a run of it is aborted.
LEMMA CancelFits ==
    ASSUME NEW j, NEW e, NEW t, NEW f, NEW g, NEW r, NEW n, NEW e2, NEW r2,
           JobFits(j, e, t, f, g, r, n), e.phase \notin {"new", "gone"},
           Runs(r2, j) <=> Runs(r, j), Runs(r, j) => r2.aborted, r2.stale = r.stale,
           r2.known = r.known, r2.id = r.id, r2.pc = r.pc, r2.parts = r.parts,
           r2.attempt = r.attempt,
           e2.phase = "cancelled", e2.known = e.known, e2.request = e.request,
           e.known \in Manager!Ids => e.known \in e2.deleting
    PROVE  JobFits(j, e2, t, f, g, r2, n)
<1> USE DEF JobFits
<1>1. SecondAfterFirst(j, e2, t, r2, n)
  BY DEF SecondAfterFirst
<1>2. PartsSent(j, t, r2)
  BY DEF PartsSent
<1>3. ShownOfJob(j, e2, t, r2)
  BY DEF ShownOfJob
<1>4. OpenIsKnown(j, e2, t, g, r2, n)
  BY DEF OpenIsKnown, Creates
<1>5. RequestKept(j, e2, t, r2, n)
  BY DEF RequestKept, SecondAsked, Creates
<1>6. QED
  BY <1>1, <1>2, <1>3, <1>4, <1>5

\* A DELETE of cancel has ended: its task is not open, or a request failed (g).
LEMMA DeletedFits ==
    ASSUME NEW j, NEW e, NEW t, NEW f, NEW g, NEW r, NEW n, NEW e2, NEW i,
           JobFits(j, e, t, f, g, r, n), i \in e.deleting, g \/ t[i].status # "active",
           e2.known = e.known, e2.request = e.request, e2.file = e.file,
           e2.deleting = e.deleting \ {i},
           e2.phase = e.phase \/ (e.phase \notin {"new", "gone"} /\ e2.phase = "error")
    PROVE  JobFits(j, e2, t, f, g, r, n)
<1> USE DEF JobFits
<1>1. SecondAfterFirst(j, e2, t, r, n)
  BY DEF SecondAfterFirst
<1>2. ShownOfJob(j, e2, t, r)
  BY DEF ShownOfJob
<1>3. e.phase # "new"
  BY DEF OpenIsKnown
<1>4. OpenIsKnown(j, e2, t, g, r, n)
  BY <1>3 DEF OpenIsKnown
<1>5. RequestKept(j, e2, t, r, n)
  BY <1>3 DEF RequestKept, SecondAsked
<1>6. QED
  BY <1>1, <1>2, <1>4, <1>5

\* A job leaves the list; a run of it has been aborted.
LEMMA DropFits ==
    ASSUME NEW j, NEW e, NEW t, NEW f, NEW g, NEW r, NEW n, NEW e2,
           JobFits(j, e, t, f, g, r, n), e.phase \notin {"new", "gone"}, Runs(r, j) => r.aborted,
           e2.phase = "gone", e2.known = 0, e2.request = 0
    PROVE  JobFits(j, e2, t, f, g, r, n)
<1> USE DEF JobFits
<1>1. SecondAfterFirst(j, e2, t, r, n)
  BY DEF SecondAfterFirst
<1>2. ShownOfJob(j, e2, t, r)
  BY DEF ShownOfJob
<1>3. OpenIsKnown(j, e2, t, g, r, n)
  BY DEF OpenIsKnown
<1>4. RequestKept(j, e2, t, r, n)
  BY DEF RequestKept, SecondAsked
<1>5. QED
  BY <1>1, <1>2, <1>3, <1>4

\* The list of tasks has arrived: i is one that is open or complete.
LEMMA RestoreFits ==
    ASSUME NEW j, NEW e, NEW t, NEW f, NEW g, NEW r, NEW n, NEW e2, NEW i \in Manager!Ids,
           JobFits(j, e, t, f, g, r, n), e.phase = "gone",
           t[i].status \in {"active", "complete"},
           e2.phase = IF t[i].status = "active" THEN "paused" ELSE "complete",
           e2.known = i, e2.request = e.request, e2.deleting = e.deleting
    PROVE  JobFits(j, e2, t, f, g, r, n)
<1> USE TwoIds DEF JobFits
<1>1. SecondAsked(j, e, t, r, n) => Dead(t[1])
  BY DEF SecondAfterFirst, SecondAsked, Creates
<1>2. i = 2 <=> SecondAsked(j, e, t, r, n)
  BY <1>1 DEF SecondAsked, Dead
<1>3. SecondAsked(j, e2, t, r, n) <=> SecondAsked(j, e, t, r, n)
  BY DEF SecondAsked
<1>4. SecondAfterFirst(j, e2, t, r, n)
  BY <1>1, <1>2 DEF SecondAfterFirst
<1>5. Runs(r, j) => r.aborted
  BY DEF ShownOfJob
<1>6. ShownOfJob(j, e2, t, r)
  BY <1>5 DEF ShownOfJob
<1>7. RequestKept(j, e2, t, r, n)
  BY <1>3, <1>5 DEF RequestKept
<1>8. \A k \in {1, 2} : t[k].status = "active" => k = i
  <2>1. CASE i = 2
    BY <1>1, <1>2, <2>1 DEF Dead
  <2>2. CASE i = 1
    BY <1>2, <2>2 DEF SecondAsked
  <2>3. QED
    BY <2>1, <2>2
<1>9. \A k \in {1, 2} : Creates(r, j, k) => t[k].status # "none"
  <2>1. CASE i = 2
    BY <1>2, <2>1 DEF RequestKept
  <2>2. CASE i = 1
    BY <1>2, <2>2 DEF SecondAsked
  <2>3. QED
    BY <2>1, <2>2
<1>10. OpenIsKnown(j, e2, t, g, r, n)
  BY <1>8, <1>9 DEF OpenIsKnown
<1>11. QED
  BY <1>4, <1>6, <1>7, <1>10

\* The pump takes a queued job.
LEMMA PerformFits ==
    ASSUME NEW j, NEW e, NEW t, NEW f, NEW g, NEW r, NEW n, NEW e2, NEW r2,
           JobFits(j, e, t, f, g, r, n), r.pc = "idle", e.phase = "queued",
           e2.phase = "hashing", e2.known = e.known, e2.request = e.request,
           e2.deleting = e.deleting,
           r2.pc = "hash", r2.job = j, r2.known = e.known, r2.id = 0, ~r2.aborted, ~r2.stale
    PROVE  JobFits(j, e2, t, f, g, r2, n)
<1> USE DEF JobFits
<1>1. ~Runs(r, j) /\ Runs(r2, j)
  BY DEF Runs
<1>2. SecondAfterFirst(j, e2, t, r2, n)
  BY <1>1 DEF SecondAfterFirst
<1>3. PartsSent(j, t, r2)
  BY DEF PartsSent
<1>4. ShownOfJob(j, e2, t, r2)
  BY <1>1 DEF ShownOfJob
<1>5. OpenIsKnown(j, e2, t, g, r2, n)
  BY <1>1 DEF OpenIsKnown, Creates
<1>6. RequestKept(j, e2, t, r2, n)
  BY DEF RequestKept, SecondAsked, Creates
<1>7. QED
  BY <1>2, <1>3, <1>4, <1>5, <1>6

\* The outer catch of perform().
LEMMA FailsFits ==
    ASSUME NEW j, NEW e \in JobRecord, NEW t, NEW f, NEW g, NEW r, NEW n, NEW r2, NEW n2,
           JobFits(j, e, t, f, g, r, n), Runs(r, j), r2.pc = "idle", r.stale => r.aborted,
           \A q \in n2 : q.kind = "create" /\ q.job = j => q \in n,
           ~g => r.pc \notin {"create", "undo"}
    PROVE  LET d == IF r.aborted \/ e.phase \in {"cancelled", "paused", "new", "gone"} THEN e
                    ELSE PhasedAs(e, "error")
           IN d \in JobRecord /\ JobFits(j, d, t, f, g, r2, n2)
<1>1. ~g => \A q \in n2 : ~(q.kind = "create" /\ q.job = j)
  BY DEF JobFits, OpenIsKnown, Creates
<1>2. CASE r.aborted \/ e.phase \in {"cancelled", "paused", "new", "gone"}
  <2>1. e.phase \notin {"hashing", "uploading"}
    BY <1>2 DEF JobFits, ShownOfJob
  <2>2. JobFits(j, e, t, f, g, r2, n2)
    BY <1>1, <2>1, ReturnFits
  <2>3. QED
    BY <1>2, <2>2
<1>3. CASE ~(r.aborted \/ e.phase \in {"cancelled", "paused", "new", "gone"})
  <2>1. PICK d \in JobRecord : /\ d = PhasedAs(e, "error") /\ d.phase = "error"
                               /\ d.known = e.known /\ d.request = e.request
                               /\ d.deleting = e.deleting
    BY PhasedFields
  <2>2. ShownOfJob(j, d, t, r)
    BY <2>1 DEF ShownOfJob
  <2>3. JobFits(j, d, t, f, g, r, n)
    BY <1>3, <2>1, <2>2, PhaseFits
  <2>4. JobFits(j, d, t, f, g, r2, n2)
    BY <1>1, <2>1, <2>3, ReturnFits
  <2>5. QED
    BY <1>3, <2>1, <2>4
<1>4. QED
  BY <1>2, <1>3

\* A task is asked for under the id i.
LEMMA AskFits ==
    ASSUME NEW j, NEW e, NEW t, NEW f, NEW g, NEW r, NEW n, NEW e2, NEW r2, NEW n2, NEW q,
           NEW i \in Manager!Ids,
           JobFits(j, e, t, f, g, r, n), Runs(r, j), ~r.aborted, ~r.stale,
           (r.pc = "hash" /\ r.known = 0)
               \/ (r.pc = "fetch" /\ r.known # 0
                    /\ t[r.known].status \notin {"active", "complete"}),
           e.known \in {0, 1, 2}, e.request \in {0, 1, 2},
           i = IF e.request # 0 THEN e.request ELSE IF r.known # 0 THEN r.known + 1 ELSE 1,
           t[1].status \in {"none", "active", "complete", "cancelled", "expired"},
           e2.phase = e.phase, e2.known = e.known, e2.file = e.file, e2.request = i,
           e2.deleting = e.deleting,
           r2.pc = "create", r2.id = i, r2.job = r.job, r2.known = r.known,
           ~r2.aborted, ~r2.stale,
           q.kind = "create", q.job = j, q.id = i, q.part = 0, n2 = n \cup {q}
    PROVE  JobFits(j, e2, t, f, g, r2, n2)
<1> USE TwoIds DEF JobFits
<1>1. Runs(r2, j) /\ r.known = e.known
  BY DEF Runs, RequestKept
<1>2. e.phase \notin {"new", "gone", "complete", "cancelled"}
  BY DEF ShownOfJob
<1>3. CASE i = 2
  <2>1. Dead(t[1])
    <3>1. CASE e.request = 2
      BY <3>1 DEF SecondAfterFirst
    <3>2. CASE e.request # 2
      <4>1. e.request = 0 /\ r.known = 1
        BY <1>1, <1>3, <3>2
      <4>2. t[1].status # "none"
        BY <4>1, <1>1 DEF SecondAfterFirst
      <4>3. QED
        BY <4>1, <4>2 DEF Dead
    <3>3. QED
      BY <3>1, <3>2
  <2>2. e.known # 0
    <3>1. CASE e.request = 2
      BY <3>1, <1>2 DEF RequestKept, SecondAsked
    <3>2. CASE e.request # 2
      BY <1>1, <1>3, <3>2
    <3>3. QED
      BY <3>1, <3>2
  <2>3. SecondAfterFirst(j, e2, t, r2, n2)
    BY <1>1, <2>1 DEF SecondAfterFirst
  <2>4. RequestKept(j, e2, t, r2, n2)
    BY <1>2, <1>3, <2>2 DEF RequestKept, Creates
  <2>5. QED
    BY <2>3, <2>4, <1>2, <1>1 DEF PartsSent, ShownOfJob, OpenIsKnown, Creates
<1>4. CASE i = 1
  <2>1. ~SecondAsked(j, e, t, r, n)
    <3>1. CASE e.request = 1
      BY <3>1 DEF RequestKept
    <3>2. CASE e.request # 1
      <4>1. r.known = 0
        BY <1>1, <1>4, <3>2
      <4>2. QED
        BY <1>1, <1>2, <4>1 DEF RequestKept
    <3>3. QED
      BY <3>1, <3>2
  <2>2. ~SecondAsked(j, e2, t, r2, n2)
    BY <1>4, <2>1 DEF SecondAsked, Creates
  <2>3. RequestKept(j, e2, t, r2, n2)
    BY <2>2 DEF RequestKept
  <2>4. r.known # 2 /\ e.known # 2
    BY <1>1, <2>1 DEF SecondAfterFirst, SecondAsked
  <2>5. SecondAfterFirst(j, e2, t, r2, n2)
    BY <1>1, <1>4, <2>1, <2>4 DEF SecondAfterFirst, SecondAsked
  <2>6. QED
    BY <2>3, <2>5, <1>2, <1>1 DEF PartsSent, ShownOfJob, OpenIsKnown, Creates
<1>5. QED
  BY <1>3, <1>4

\* The task i that the run asked for is answered: a job that is listed knows it, unless
\* the run belongs to an older epoch.
LEMMA CreatedFits ==
    ASSUME NEW j, NEW e, NEW t, NEW f, NEW g, NEW r, NEW n, NEW i \in Manager!Ids,
           NEW e2, NEW t2, NEW f2, NEW r2, NEW n2, NEW act, NEW part,
           JobFits(j, e, t, f, g, r, n), Runs(r, j), r.pc = "create", r.id = i,
           r.stale => r.aborted, e.known \in {0, 1, 2}, r.known \in {0, 1, 2},
           TaskMoves(t, t2, f, f2, i, act, part), act = "create",
           e2.known = IF e.phase # "gone" /\ ~r.stale THEN i ELSE e.known,
           e2.phase = e.phase, e2.request = e.request, e2.deleting = e.deleting,
           e2.file = e.file,
           r2.pc = IF e.phase = "cancelled" /\ ~r.stale THEN "undo" ELSE "lookup", r2.job = r.job,
           r2.id = i, r2.known = r.known, r2.aborted <=> r.aborted, r2.stale <=> r.stale,
           \A q \in n2 : q.kind = "create" /\ q.job = j => q \in n,
           ~g => \A q \in n2 : ~(q.kind = "create" /\ q.job = j)
    PROVE  JobFits(j, e2, t2, f2, g, r2, n2)
<1> USE TwoIds DEF JobFits, TaskMoves
<1>1. Runs(r2, j) /\ Creates(r, j, i)
  BY DEF Runs, Creates
<1>2. e.phase # "new"
  BY DEF OpenIsKnown
<1>3. /\ t2[i].status # "none"
      /\ t2[i].status = t[i].status \/ (t[i].status = "none" /\ t2[i].status = "active")
  BY DEF Moved
<1>4. SecondAsked(j, e2, t2, r2, n2) => SecondAsked(j, e, t, r, n) /\ i = 2
  <2>1. SecondAsked(j, e2, t2, r2, n2) => SecondAsked(j, e, t, r, n) \/ i = 2
    BY <1>3 DEF SecondAsked, Creates
  <2>2. SecondAsked(j, e, t, r, n) => i # 1
    BY <1>1 DEF RequestKept
  <2>3. i = 2 => SecondAsked(j, e, t, r, n)
    BY <1>1 DEF SecondAsked
  <2>4. QED
    BY <2>1, <2>2, <2>3
<1>5. i = 2 => Dead(t[1]) /\ t2[1] = t[1]
  BY DEF SecondAfterFirst
<1>6. i = 1 => t[2].status = "none" /\ t2[2] = t[2] /\ e.known # 2
  <2>1. i = 1 => t[2].status = "none" /\ t2[2] = t[2]
    BY <1>1 DEF RequestKept, SecondAsked
  <2>2. QED
    BY <2>1 DEF SecondAfterFirst
<1>7. SecondAfterFirst(j, e2, t2, r2, n2)
  <2>1. e2.known = 2 \/ r2.known = 2 \/ r2.id = 2 => i = 2
    <3>1. r.known = 2 => t[2].status # "none"
      BY DEF SecondAfterFirst
    <3>2. QED
      BY <1>6, <3>1
  <2>2. \/ t2[2].status # "none" \/ e2.request = 2
        \/ \E q \in n2 : q.kind = "create" /\ q.job = j /\ q.id = 2
        => i = 2
    BY <1>4 DEF SecondAsked
  <2>3. e2.known # 0 => t2[e2.known].status # "none"
    BY <1>3 DEF SecondAfterFirst
  <2>4. r2.known # 0 => t2[r2.known].status # "none"
    BY <1>3 DEF SecondAfterFirst
  <2>5. QED
    BY <1>1, <1>5, <2>1, <2>2, <2>3, <2>4 DEF SecondAfterFirst
<1>8. PartsSent(j, t2, r2)
  BY DEF PartsSent
<1>9. FileOfTask(t2, f2)
  <2>1. f2 = f /\ \A k \in {1, 2} : t2[k].status = "complete" <=> t[k].status = "complete"
    BY <1>3
  <2>2. QED
    BY <2>1 DEF FileOfTask
<1>10. ShownOfJob(j, e2, t2, r2)
  BY <1>1, <1>3 DEF ShownOfJob
<1>11. RequestKept(j, e2, t2, r2, n2)
  BY <1>2, <1>4 DEF RequestKept, Creates
<1>12. OpenIsKnown(j, e2, t2, g, r2, n2)
  <2>1. SUFFICES ASSUME ~g, e.phase # "gone"
                 PROVE  \A k \in {1, 2} : t2[k].status = "active" =>
                            /\ e2.known = k
                            /\ e.phase = "cancelled" =>
                                   k \in e.deleting \/ (r2.pc = "undo" /\ r2.id = k)
    BY <1>1, <1>2 DEF OpenIsKnown, Creates
  <2>2. CASE r.stale
    <3>1. t[i].status # "none"
      BY <1>1, <1>2, <2>1, <2>2 DEF OpenIsKnown
    <3>2. \A k \in {1, 2} : t2[k].status = "active" => t[k].status = "active"
      BY <1>3, <3>1
    <3>3. QED
      BY <1>2, <2>1, <2>2, <3>2 DEF OpenIsKnown
  <2>3. CASE ~r.stale
    <3>1. \A k \in {1, 2} : t2[k].status = "active" => k = i
      BY <1>5, <1>6 DEF Dead
    <3>2. QED
      BY <2>1, <2>3, <3>1
  <2>4. QED
    BY <2>2, <2>3
<1>13. QED
  BY <1>7, <1>8, <1>9, <1>10, <1>11, <1>12

\* A request is the sum of its fields.
LEMMA RequestIs ==
    ASSUME NEW q \in TaskRequest
    PROVE  q = Manager!Request(q.kind, q.job, q.id, q.part)
  BY DEF Manager!Request, TaskRequest

\* The state of the job j and what goes with it.
LEMMA OfJob ==
    ASSUME UploadsInv, NEW j \in Job
    PROVE  \E e \in JobRecord, r \in RunRecord, n \in SUBSET TaskRequest,
              t \in {task[j]}, f \in {files[j]}, g \in {gap[j]} :
              /\ e = jobs[j] /\ r = run /\ t = task[j] /\ f = files[j] /\ g = gap[j] /\ n = net
              /\ RunShaped(r) /\ JobFits(j, e, t, f, g, r, n)
<1>1. jobs[j] \in JobRecord /\ run \in RunRecord /\ net \in SUBSET TaskRequest
  BY DEF UploadsInv, UploadsTyped
<1>2. RunShaped(run) /\ JobFits(j, jobs[j], task[j], files[j], gap[j], run, net)
  BY DEF UploadsInv
<1>3. QED
  BY <1>1, <1>2, Zenon

LEMMA SameJob ==
    ASSUME UploadsTyped, NEW j \in Job
    PROVE  RunsOf(jobs, j, jobs[j]) = jobs
  BY DEF UploadsTyped, RunsOf

\* A step about the job j, which becomes d; r and n are the run and the requests after it.
LEMMA StepOfJob ==
    ASSUME UploadsInv, NEW j \in Job, NEW d \in JobRecord, NEW r \in RunRecord,
           NEW n \in SUBSET TaskRequest,
           jobs' = RunsOf(jobs, j, d), run' = r, net' = n, restoring' \in BOOLEAN,
           task' \in [Job -> [Manager!Ids -> TaskRecord]], files' \in [Job -> Nat],
           gap' \in [Job -> BOOLEAN],
           \A k \in Job : k # j => task'[k] = task[k] /\ files'[k] = files[k],
           \A k \in Job : k # j => gap'[k] = gap[k],
           RunShaped(r), r = run \/ \A k \in Job : k # j => ~Runs(run, k) /\ ~Runs(r, k),
           \A q \in n : q.kind = "create" /\ q.job # j => q \in net,
           JobFits(j, d, task'[j], files'[j], gap'[j], r, n)
    PROVE  UploadsInv'
<1>1. /\ jobs' \in [Job -> JobRecord] /\ jobs'[j] = d
      /\ \A k \in Job : k # j => jobs'[k] = jobs[k]
  <2>1. PICK F \in [Job -> JobRecord] : F = jobs
    BY DEF UploadsInv, UploadsTyped
  <2>2. LET G == RunsOf(F, j, d) IN
        G \in [Job -> JobRecord] /\ G[j] = d /\ \A k \in Job : k # j => G[k] = F[k]
    BY UpdatedJob
  <2>3. QED
    BY <2>1, <2>2
<1>2. UploadsTyped'
  BY <1>1 DEF UploadsTyped
<1>3. RunShaped(run)'
  BY DEF RunShaped
<1>4. JobFits(j, jobs'[j], task'[j], files'[j], gap'[j], run', net')
  BY <1>1
<1>5. \A k \in Job : k # j => run' = run \/ (~Runs(run, k) /\ ~Runs(run', k))
  OBVIOUS
<1>6. \A k \in Job : k # j => /\ jobs'[k] = jobs[k] /\ task'[k] = task[k]
                              /\ files'[k] = files[k] /\ gap'[k] = gap[k]
  BY <1>1, Zenon
<1>7. QED
  BY <1>2, <1>3, <1>4, <1>5, <1>6, OneJobChanges

\* The same when the server keeps its tasks.
LEMMA StepOfClient ==
    ASSUME UploadsInv, NEW j \in Job, NEW d \in JobRecord, NEW r \in RunRecord,
           NEW n \in SUBSET TaskRequest,
           jobs' = RunsOf(jobs, j, d), run' = r, net' = n,
           UNCHANGED <<task, files, gap, restoring>>,
           RunShaped(r), r = run \/ \A k \in Job : k # j => ~Runs(run, k) /\ ~Runs(r, k),
           \A q \in n : q.kind = "create" /\ q.job # j => q \in net,
           JobFits(j, d, task[j], files[j], gap[j], r, n)
    PROVE  UploadsInv'
<1>1. /\ restoring' \in BOOLEAN /\ task' \in [Job -> [Manager!Ids -> TaskRecord]]
      /\ files' \in [Job -> Nat] /\ gap' \in [Job -> BOOLEAN]
  BY Zenon DEF UploadsInv, UploadsTyped
<1>2. JobFits(j, d, task'[j], files'[j], gap'[j], r, n)
  OBVIOUS
<1>3. \A k \in Job : k # j => task'[k] = task[k] /\ files'[k] = files[k]
  OBVIOUS
<1>4. \A k \in Job : k # j => gap'[k] = gap[k]
  BY Zenon
<1>5. QED
  BY <1>1, <1>2, <1>3, <1>4, StepOfJob

LEMMA UploadsInit ==
    ASSUME Manager!Init
    PROVE  UploadsInv
<1>1. PICK e \in JobRecord :
          /\ e = [Manager!Unlisted EXCEPT !.phase = "new"] /\ e.phase = "new" /\ e.known = 0
          /\ e.request = 0 /\ e.deleting = {} /\ e.file = FALSE
  <2>1. Manager!Unlisted \in JobRecord
    BY TwoIds DEF Manager!Unlisted, JobRecord
  <2>2. /\ Manager!Unlisted.known = 0 /\ Manager!Unlisted.file = FALSE
        /\ Manager!Unlisted.request = 0 /\ Manager!Unlisted.deleting = {}
    BY DEF Manager!Unlisted
  <2>3. PICK d \in JobRecord : d = Manager!Unlisted
    BY <2>1
  <2>4. [d EXCEPT !.phase = "new"] \in JobRecord
    BY DEF JobRecord
  <2>5. LET e == [d EXCEPT !.phase = "new"] IN
        /\ e.phase = "new" /\ e.known = d.known /\ e.request = d.request
        /\ e.deleting = d.deleting /\ e.file = d.file
    BY DEF JobRecord
  <2>6. QED
    BY <2>2, <2>3, <2>4, <2>5, Zenon
<1>2. PICK u \in TaskRecord : u = [status |-> "none", parts |-> 0] /\ u.status = "none"
  <2>1. [status |-> "none", parts |-> 0] \in TaskRecord
    BY PartsNat DEF TaskRecord
  <2>2. [status |-> "none", parts |-> 0].status = "none"
    OBVIOUS
  <2>3. QED
    BY <2>1, <2>2, Zenon
<1>3. PICK r \in RunRecord : r = run /\ r.pc = "idle" /\ ~r.stale
  BY IdleRunFields DEF Manager!Init
<1>4. /\ jobs = [j \in Job |-> e] /\ task = [j \in Job |-> [i \in Manager!Ids |-> u]]
      /\ net = {} /\ restoring = FALSE /\ files = [j \in Job |-> 0]
      /\ gap = [j \in Job |-> FALSE]
  BY <1>1, <1>2 DEF Manager!Init
<1>5. UploadsTyped
  <2>1. jobs \in [Job -> JobRecord] /\ task \in [Job -> [Manager!Ids -> TaskRecord]]
    BY <1>4
  <2>2. net \subseteq TaskRequest /\ files \in [Job -> Nat]
    BY <1>4
  <2>3. restoring \in BOOLEAN /\ gap \in [Job -> BOOLEAN]
    BY <1>4
  <2>4. QED
    BY <1>3, <2>1, <2>2, <2>3 DEF UploadsTyped
<1>6. RunShaped(run)
  BY <1>3 DEF RunShaped
<1>7. ASSUME NEW j \in Job
      PROVE  JobFits(j, jobs[j], task[j], files[j], gap[j], run, net)
  <2>1. /\ jobs[j] = e /\ \A i \in {1, 2} : task[j][i].status = "none"
        /\ net = {} /\ files[j] = 0 /\ gap[j] = FALSE
    BY <1>2, <1>4, TwoIds
  <2>2. ~Runs(run, j)
    BY <1>3 DEF Runs
  <2>3. SecondAfterFirst(j, e, task[j], run, net) /\ PartsSent(j, task[j], run)
    BY <1>1, <2>1, <2>2 DEF SecondAfterFirst, PartsSent
  <2>4. FileOfTask(task[j], files[j]) /\ ShownOfJob(j, e, task[j], run)
    BY <1>1, <2>1, <2>2, TwoIds DEF FileOfTask, ShownOfJob
  <2>5. OpenIsKnown(j, e, task[j], gap[j], run, net)
    BY <1>1, <2>1, <2>2, TwoIds DEF OpenIsKnown, Creates
  <2>6. RequestKept(j, e, task[j], run, net)
    BY <1>1, <2>1, <2>2 DEF RequestKept, SecondAsked, Creates
  <2>7. QED
    BY <2>1, <2>3, <2>4, <2>5, <2>6 DEF JobFits
<1>8. QED
  BY <1>5, <1>6, <1>7 DEF UploadsInv

\* Updates of a job as the model writes them.
LEMMA QueuedUpdate ==
    ASSUME NEW F \in [Job -> JobRecord], NEW j \in Job
    PROVE  [F EXCEPT ![j].phase = "queued", ![j].file = TRUE]
           = RunsOf(F, j, QueuedAs(F[j]))
  BY DEF RunsOf, QueuedAs, JobRecord

LEMMA PhasedUpdate ==
    ASSUME NEW F \in [Job -> JobRecord], NEW j \in Job, NEW p
    PROVE  [F EXCEPT ![j].phase = p]
           = RunsOf(F, j, PhasedAs(F[j], p))
  BY DEF RunsOf, PhasedAs, JobRecord

LEMMA CancelledUpdate ==
    ASSUME NEW F \in [Job -> JobRecord], NEW j \in Job, NEW s
    PROVE  [F EXCEPT ![j].phase = "cancelled", ![j].deleting = @ \cup s]
           = RunsOf(F, j, CancelledAs(F[j], s))
  BY DEF RunsOf, CancelledAs, JobRecord

LEMMA AnsweredUpdate ==
    ASSUME NEW F \in [Job -> JobRecord], NEW j \in Job, NEW i, NEW p
    PROVE  [F EXCEPT ![j].deleting = @ \ {i}, ![j].phase = p]
           = RunsOf(F, j, AnsweredAs(F[j], i, p))
  BY DEF RunsOf, AnsweredAs, JobRecord

LEMMA BrokenUpdate ==
    ASSUME NEW F \in [Job -> JobRecord], NEW j \in Job, NEW i, NEW p
    PROVE  [[F EXCEPT ![j].phase = p] EXCEPT ![j].deleting = @ \ {i}]
           = RunsOf(F, j, AnsweredAs(F[j], i, p))
  BY DEF RunsOf, AnsweredAs, JobRecord

LEMMA RequestedUpdate ==
    ASSUME NEW F \in [Job -> JobRecord], NEW j \in Job, NEW i
    PROVE  [F EXCEPT ![j].request = i]
           = RunsOf(F, j, RequestedAs(F[j], i))
  BY DEF RunsOf, RequestedAs, JobRecord

LEMMA KnownUpdate ==
    ASSUME NEW F \in [Job -> JobRecord], NEW j \in Job, NEW i
    PROVE  [F EXCEPT ![j].known = i]
           = RunsOf(F, j, KnownAs(F[j], i))
  BY DEF RunsOf, KnownAs, JobRecord

LEMMA FinishedUpdate ==
    ASSUME NEW F \in [Job -> JobRecord], NEW j \in Job, NEW i, NEW p
    PROVE  [[F EXCEPT ![j].phase = p] EXCEPT ![j].known = i]
           = RunsOf(F, j, RestoredAs(F[j], i, p))
  BY DEF RunsOf, RestoredAs, JobRecord

LEMMA EndedUpdate ==
    ASSUME NEW F \in [Job -> JobRecord], NEW j \in Job, NEW i, NEW p
    PROVE  [[F EXCEPT ![j].known = i] EXCEPT ![j].phase = p]
           = RunsOf(F, j, RestoredAs(F[j], i, p))
  BY DEF RunsOf, RestoredAs, JobRecord

LEMMA AbortRunFacts ==
    ASSUME UploadsInv, NEW j \in Job, Manager!AbortRun(j)
    PROVE  \E r \in RunRecord :
              /\ run' = r /\ RunShaped(r)
              /\ r = run \/ \A k \in Job : k # j => ~Runs(run, k) /\ ~Runs(r, k)
              /\ ~Runs(run, j) => r = run
              /\ Runs(run, j) => /\ r.aborted /\ Runs(r, j) /\ r.stale = run.stale
                                 /\ r.known = run.known /\ r.id = run.id /\ r.pc = run.pc
                                 /\ r.parts = run.parts /\ r.attempt = run.attempt
<1>1. PICK s \in RunRecord : s = run /\ RunShaped(s)
  BY DEF UploadsInv, UploadsTyped
<1>2. CASE Runs(run, j)
  <2>1. PICK r \in RunRecord :
            /\ r = AbortedRun(s) /\ r.pc = s.pc /\ r.job = s.job /\ r.known = s.known
            /\ r.id = s.id /\ r.parts = s.parts /\ r.attempt = s.attempt
            /\ r.aborted /\ r.stale = s.stale
    BY AbortedFields
  <2>2. run' = r
    BY <1>1, <1>2, <2>1 DEF Manager!AbortRun, Manager!Performing, Runs, AbortedRun
  <2>3. RunShaped(r)
    BY <1>1, <2>1 DEF RunShaped
  <2>4. QED
    BY <1>1, <1>2, <2>1, <2>2, <2>3 DEF Runs
<1>3. CASE ~Runs(run, j)
  <2>1. run' = s
    BY <1>1, <1>3 DEF Manager!AbortRun, Manager!Performing, Runs
  <2>2. QED
    BY <1>1, <1>3, <2>1
<1>4. QED
  BY <1>2, <1>3

LEMMA EnqueueStep ==
    ASSUME UploadsInv, NEW j \in Job, Manager!Enqueue(j)
    PROVE  UploadsInv'
<1>1. PICK e \in JobRecord, r \in RunRecord, n \in SUBSET TaskRequest,
           t \in {task[j]}, f \in {files[j]}, g \in {gap[j]} :
          /\ e = jobs[j] /\ r = run /\ t = task[j] /\ f = files[j] /\ g = gap[j] /\ n = net
          /\ RunShaped(r) /\ JobFits(j, e, t, f, g, r, n)
  BY OfJob
<1>2. PICK d \in JobRecord :
          /\ d = QueuedAs(e) /\ d.phase = "queued" /\ d.known = e.known
          /\ d.request = e.request /\ d.deleting = e.deleting /\ d.file
  BY QueuedFields
<1>3. jobs' = RunsOf(jobs, j, d)
  BY <1>1, <1>2, QueuedUpdate DEF Manager!Enqueue, UploadsInv, UploadsTyped
<1>4. e.phase = "new" /\ UNCHANGED <<run, net, task, restoring, files, gap>>
  BY <1>1 DEF Manager!Enqueue
<1>5. JobFits(j, d, t, f, g, r, n)
  BY <1>1, <1>2, <1>4, EnqueueFits
<1>6. QED
  BY <1>1, <1>3, <1>4, <1>5, StepOfClient

LEMMA ResumeStep ==
    ASSUME UploadsInv, NEW j \in Job, Manager!Resume(j)
    PROVE  UploadsInv'
<1>1. PICK e \in JobRecord, r \in RunRecord, n \in SUBSET TaskRequest,
           t \in {task[j]}, f \in {files[j]}, g \in {gap[j]} :
          /\ e = jobs[j] /\ r = run /\ t = task[j] /\ f = files[j] /\ g = gap[j] /\ n = net
          /\ RunShaped(r) /\ JobFits(j, e, t, f, g, r, n)
  BY OfJob
<1>2. PICK d \in JobRecord :
          /\ d = QueuedAs(e) /\ d.phase = "queued" /\ d.known = e.known
          /\ d.request = e.request /\ d.deleting = e.deleting /\ d.file
  BY QueuedFields
<1>3. jobs' = RunsOf(jobs, j, d)
  BY <1>1, <1>2, QueuedUpdate DEF Manager!Resume, UploadsInv, UploadsTyped
<1>4. e.phase \in {"paused", "error"} /\ UNCHANGED <<run, net, task, restoring, files, gap>>
  BY <1>1 DEF Manager!Resume
<1>5. ShownOfJob(j, d, t, r)
  BY <1>1, <1>2 DEF ShownOfJob
<1>6. JobFits(j, d, t, f, g, r, n)
  BY <1>1, <1>2, <1>4, <1>5, PhaseFits
<1>7. QED
  BY <1>1, <1>3, <1>4, <1>6, StepOfClient

LEMMA PauseStep ==
    ASSUME UploadsInv, NEW j \in Job, Manager!Pause(j)
    PROVE  UploadsInv'
<1>1. PICK e \in JobRecord, r \in RunRecord, n \in SUBSET TaskRequest,
           t \in {task[j]}, f \in {files[j]}, g \in {gap[j]} :
          /\ e = jobs[j] /\ r = run /\ t = task[j] /\ f = files[j] /\ g = gap[j] /\ n = net
          /\ RunShaped(r) /\ JobFits(j, e, t, f, g, r, n)
  BY OfJob
<1>2. PICK d \in JobRecord :
          /\ d = PhasedAs(e, "paused") /\ d.phase = "paused" /\ d.known = e.known
          /\ d.request = e.request /\ d.deleting = e.deleting
  BY PhasedFields
<1>3. jobs' = RunsOf(jobs, j, d)
  BY <1>1, <1>2 DEF Manager!Pause, RunsOf, PhasedAs
<1>4. /\ e.phase \in {"queued", "hashing", "uploading"} /\ Manager!AbortRun(j)
      /\ UNCHANGED <<net, task, restoring, files, gap>>
  BY <1>1 DEF Manager!Pause
<1>5. PICK s \in RunRecord :
              /\ run' = s /\ RunShaped(s)
              /\ s = run \/ \A k \in Job : k # j => ~Runs(run, k) /\ ~Runs(s, k)
              /\ ~Runs(run, j) => s = run
              /\ Runs(run, j) => /\ s.aborted /\ Runs(s, j) /\ s.stale = run.stale
                                 /\ s.known = run.known /\ s.id = run.id /\ s.pc = run.pc
                                 /\ s.parts = run.parts /\ s.attempt = run.attempt
  BY <1>4, AbortRunFacts
<1>6. ShownOfJob(j, d, t, r)
  BY <1>1, <1>2 DEF ShownOfJob
<1>7. JobFits(j, d, t, f, g, r, n)
  BY <1>1, <1>2, <1>4, <1>6, PhaseFits
<1>8. JobFits(j, d, t, f, g, s, n)
  <2>1. CASE Runs(run, j)
    BY <1>1, <1>2, <1>5, <1>7, <2>1, AbortFits
  <2>2. CASE ~Runs(run, j)
    BY <1>1, <1>5, <1>7, <2>2
  <2>3. QED
    BY <2>1, <2>2
<1>9. QED
  BY <1>1, <1>3, <1>4, <1>5, <1>8, StepOfClient

LEMMA CancelStep ==
    ASSUME UploadsInv, NEW j \in Job, Manager!CancelUpload(j)
    PROVE  UploadsInv'
<1>1. PICK e \in JobRecord, r \in RunRecord, n \in SUBSET TaskRequest,
           t \in {task[j]}, f \in {files[j]}, g \in {gap[j]} :
          /\ e = jobs[j] /\ r = run /\ t = task[j] /\ f = files[j] /\ g = gap[j] /\ n = net
          /\ RunShaped(r) /\ JobFits(j, e, t, f, g, r, n)
  BY OfJob
<1>2. PICK w \in SUBSET Manager!Ids : w = {i \in Manager!Ids : i = e.known}
  OBVIOUS
<1>3. PICK d \in JobRecord :
          /\ d = CancelledAs(e, w) /\ d.phase = "cancelled" /\ d.known = e.known
          /\ d.request = e.request /\ d.deleting = e.deleting \cup w
  BY CancelledFields
<1>4. /\ jobs' = [jobs EXCEPT ![j].phase = "cancelled", ![j].deleting = @ \cup w]
      /\ net' = n \cup {Manager!Request("delete", j, i, 0) : i \in w}
      /\ Manager!AbortRun(j) /\ UNCHANGED <<task, restoring, files, gap>>
      /\ e.phase \notin {"new", "gone"}
  BY <1>1, <1>2 DEF Manager!CancelUpload, Manager!Listed
<1>5. jobs' = RunsOf(jobs, j, d)
  BY <1>1, <1>3, <1>4, CancelledUpdate DEF UploadsInv, UploadsTyped
<1>6. PICK m \in SUBSET TaskRequest :
          m = net' /\ \A q \in m : q.kind = "create" => q \in n
  <2>1. 0 \in 0 .. Parts
    BY PartsNat
  <2>2. \A i \in w : /\ Manager!Request("delete", j, i, 0) \in TaskRequest
                     /\ Manager!Request("delete", j, i, 0).kind = "delete"
    BY <2>1, RequestMade
  <2>3. ASSUME NEW q \in net'
        PROVE  q \in TaskRequest /\ (q.kind = "create" => q \in n)
    <3>1. CASE q \in n
      BY <3>1
    <3>2. CASE q \notin n
      <4>1. PICK i \in w : q = Manager!Request("delete", j, i, 0)
        BY <1>4, <3>2
      <4>2. QED
        BY <2>2, <4>1
    <3>3. QED
      BY <3>1, <3>2
  <2>4. QED
    BY <2>3
<1>7. PICK s \in RunRecord :
              /\ run' = s /\ RunShaped(s)
              /\ s = run \/ \A k \in Job : k # j => ~Runs(run, k) /\ ~Runs(s, k)
              /\ ~Runs(run, j) => s = run
              /\ Runs(run, j) => /\ s.aborted /\ Runs(s, j) /\ s.stale = run.stale
                                 /\ s.known = run.known /\ s.id = run.id /\ s.pc = run.pc
                                 /\ s.parts = run.parts /\ s.attempt = run.attempt
  BY <1>4, AbortRunFacts
<1>8. JobFits(j, d, t, f, g, s, m)
  <2>1. e.known \in Manager!Ids => e.known \in d.deleting
    BY <1>2, <1>3
  <2>2. CASE ~Runs(run, j)
    <3>1. JobFits(j, d, t, f, g, r, n)
      BY <1>1, <1>3, <1>4, <2>1, <2>2, CancelFits
    <3>2. QED
      BY <1>1, <1>6, <1>7, <2>2, <3>1, OtherRequests
  <2>3. CASE Runs(run, j)
    <3>1. JobFits(j, d, t, f, g, s, n)
      BY <1>1, <1>3, <1>4, <1>7, <2>1, <2>3, CancelFits
    <3>2. QED
      BY <1>6, <3>1, OtherRequests
  <2>4. QED
    BY <2>2, <2>3
<1>9. QED
  BY <1>1, <1>4, <1>5, <1>6, <1>7, <1>8, StepOfClient

\* The server handles a request; a create only counts here when one of its job failed.
LEMMA ServedFits ==
    ASSUME UploadsInv, NEW q \in TaskRequest, Manager!Served(q),
           q.kind = "create" => gap[q.job] /\ q \in net
    PROVE  JobFits(q.job, jobs[q.job], task'[q.job], files'[q.job], gap[q.job], run, net)
<1>1. PICK j \in Job : j = q.job
  BY TaskRequestFields
<1>2. PICK e \in JobRecord, r \in RunRecord, n \in SUBSET TaskRequest,
           t \in {task[j]}, f \in {files[j]}, g \in {gap[j]} :
          /\ e = jobs[j] /\ r = run /\ t = task[j] /\ f = files[j] /\ g = gap[j] /\ n = net
          /\ RunShaped(r) /\ JobFits(j, e, t, f, g, r, n)
  BY OfJob
<1>3. PICK t2, f2 : t2 = task'[j] /\ f2 = files'[j]
  OBVIOUS
<1>4. PICK i \in Manager!Ids : i = q.id
  BY TaskRequestFields
<1>5. PICK kd, p : kd = q.kind /\ p = q.part
  OBVIOUS
<1>6. TaskMoves(t, t2, f, f2, i, kd, p)
  BY <1>1, <1>2, <1>3, <1>4, <1>5, ServedFacts DEF UploadsInv, TaskMoves
<1>7. r.parts \in Nat /\ r.id \in {0, 1, 2} /\ e.known \in {0, 1, 2} /\ r.known \in {0, 1, 2}
  BY RunRecordFields, JobRecordFields
<1>8. GivenUp(j, e, t, g, r, n, i, kd)
  <2>1. SUFFICES ASSUME kd = "create"
                 PROVE  /\ g /\ e.phase # "new"
                        /\ i = 2 => Dead(t[1]) /\ SecondAsked(j, e, t, r, n)
    BY DEF GivenUp
  <2>2. g /\ q \in n /\ q.kind = "create" /\ q.job = j /\ q.id = i
    BY <1>1, <1>2, <1>4, <1>5, <2>1
  <2>3. e.phase # "new"
    BY <1>2, <2>2 DEF JobFits, OpenIsKnown
  <2>4. i = 2 => Dead(t[1]) /\ SecondAsked(j, e, t, r, n)
    BY <1>2, <2>2 DEF JobFits, SecondAfterFirst, SecondAsked
  <2>5. QED
    BY <2>2, <2>3, <2>4
<1>9. JobFits(j, e, t2, f2, g, r, n)
  BY <1>2, <1>6, <1>7, <1>8, MovedFits
<1>10. QED
  BY <1>1, <1>2, <1>3, <1>9

LEMMA DismissStep ==
    ASSUME UploadsInv, NEW j \in Job, Manager!Dismiss(j)
    PROVE  UploadsInv'
<1>1. PICK e \in JobRecord, r \in RunRecord, n \in SUBSET TaskRequest,
           t \in {task[j]}, f \in {files[j]}, g \in {gap[j]} :
          /\ e = jobs[j] /\ r = run /\ t = task[j] /\ f = files[j] /\ g = gap[j] /\ n = net
          /\ RunShaped(r) /\ JobFits(j, e, t, f, g, r, n)
  BY OfJob
<1>2. PICK d \in JobRecord :
          /\ d = DroppedAs(e) /\ d.phase = "gone" /\ d.known = 0 /\ d.request = 0
          /\ d.deleting = e.deleting
  BY DroppedFields
<1>3. /\ jobs' = RunsOf(jobs, j, d) /\ e.phase \in {"complete", "cancelled"}
      /\ UNCHANGED <<run, net, task, restoring, files, gap>>
  BY <1>1, <1>2 DEF Manager!Dismiss, Manager!Dropped, DroppedAs, RunsOf
<1>4. Runs(r, j) => r.aborted
  BY <1>1, <1>3 DEF JobFits, ShownOfJob
<1>5. JobFits(j, d, t, f, g, r, n)
  BY <1>1, <1>2, <1>3, <1>4, DropFits
<1>6. QED
  BY <1>1, <1>3, <1>5, StepOfClient

LEMMA CancelBreaksStep ==
    ASSUME UploadsInv, NEW j \in Job, Manager!CancelBreaks(j)
    PROVE  UploadsInv'
<1>1. PICK e \in JobRecord, r \in RunRecord, n \in SUBSET TaskRequest,
           t \in {task[j]}, f \in {files[j]}, g \in {gap[j]} :
          /\ e = jobs[j] /\ r = run /\ t = task[j] /\ f = files[j] /\ g = gap[j] /\ n = net
          /\ RunShaped(r) /\ JobFits(j, e, t, f, g, r, n)
  BY OfJob
<1>2. PICK i \in e.deleting : jobs' = [Manager!Phase(j, "error") EXCEPT ![j].deleting = @ \ {i}]
  BY <1>1 DEF Manager!CancelBreaks
<1>3. /\ gap' = [gap EXCEPT ![j] = TRUE]
      /\ UNCHANGED <<run, net, task, restoring, files>>
  BY DEF Manager!CancelBreaks
<1>4. PICK p \in {"new", "gone", "queued", "hashing", "uploading", "saving", "complete",
                  "paused", "error", "cancelled"} :
          p = IF e.phase \notin {"new", "gone"} THEN "error" ELSE e.phase
  BY JobRecordFields
<1>5. PICK d \in JobRecord :
          /\ d = AnsweredAs(e, i, p) /\ d.phase = p /\ d.known = e.known /\ d.file = e.file
          /\ d.request = e.request /\ d.deleting = e.deleting \ {i}
  BY AnsweredFields
<1>6. jobs' = RunsOf(jobs, j, d)
  <2>1. jobs \in [Job -> JobRecord]
    BY DEF UploadsInv, UploadsTyped
  <2>2. Manager!Phase(j, "error") = [jobs EXCEPT ![j].phase = p]
    BY <1>1, <1>4 DEF Manager!Phase, Manager!Listed
  <2>3. [[jobs EXCEPT ![j].phase = p] EXCEPT ![j].deleting = @ \ {i}]
        = RunsOf(jobs, j, AnsweredAs(jobs[j], i, p))
    BY <2>1, BrokenUpdate
  <2>4. QED
    BY <1>1, <1>2, <1>5, <2>2, <2>3
<1>7. e.phase # "new"
  BY <1>1, <1>2 DEF JobFits, OpenIsKnown
<1>8. JobFits(j, d, t, f, TRUE, r, n)
  <2>1. JobFits(j, e, t, f, TRUE, r, n)
    BY <1>1, <1>7, GapFits
  <2>2. QED
    BY <1>2, <1>4, <1>5, <2>1, DeletedFits
<1>9. PICK G \in [Job -> BOOLEAN] : G = gap
  BY Zenon DEF UploadsInv, UploadsTyped
<1>10. /\ gap' \in [Job -> BOOLEAN] /\ gap'[j] = TRUE
       /\ \A k \in Job : k # j => gap'[k] = gap[k]
  BY <1>3, <1>9, UpdatedGap
<1>11. /\ restoring' \in BOOLEAN /\ task' \in [Job -> [Manager!Ids -> TaskRecord]]
       /\ files' \in [Job -> Nat]
  BY <1>3, Zenon DEF UploadsInv, UploadsTyped
<1>12. QED
  BY <1>1, <1>3, <1>6, <1>8, <1>10, <1>11, StepOfJob

LEMMA CancelAnsweredStep ==
    ASSUME UploadsInv, NEW j \in Job, Manager!CancelAnswered(j)
    PROVE  UploadsInv'
<1>1. PICK e \in JobRecord, r \in RunRecord, n \in SUBSET TaskRequest,
           t \in {task[j]}, f \in {files[j]}, g \in {gap[j]} :
          /\ e = jobs[j] /\ r = run /\ t = task[j] /\ f = files[j] /\ g = gap[j] /\ n = net
          /\ RunShaped(r) /\ JobFits(j, e, t, f, g, r, n)
  BY OfJob
<1>2. PICK q \in n :
          /\ q.kind = "delete" /\ q.job = j /\ q.id \in e.deleting
          /\ net' = n \ {q} /\ Manager!Served(q)
          /\ jobs' = [jobs EXCEPT ![j].deleting = @ \ {q.id},
                                  ![j].phase = IF t[q.id].status = "complete" /\ Manager!Listed(j)
                                               THEN "error" ELSE jobs[j].phase]
  BY <1>1 DEF Manager!CancelAnswered
<1>3. UNCHANGED <<run, restoring, gap>>
  BY DEF Manager!CancelAnswered
<1>4. q \in TaskRequest /\ q.id \in Manager!Ids
  BY <1>2, TaskRequestFields
<1>5. PICK p \in {"new", "gone", "queued", "hashing", "uploading", "saving", "complete",
                  "paused", "error", "cancelled"} :
          p = IF t[q.id].status = "complete" /\ e.phase \notin {"new", "gone"}
              THEN "error" ELSE e.phase
  BY JobRecordFields
<1>6. PICK d \in JobRecord :
          /\ d = AnsweredAs(e, q.id, p) /\ d.phase = p /\ d.known = e.known /\ d.file = e.file
          /\ d.request = e.request /\ d.deleting = e.deleting \ {q.id}
  BY AnsweredFields
<1>7. jobs' = RunsOf(jobs, j, d)
  <2>1. jobs \in [Job -> JobRecord]
    BY DEF UploadsInv, UploadsTyped
  <2>2. jobs' = [jobs EXCEPT ![j].deleting = @ \ {q.id}, ![j].phase = p]
    BY <1>1, <1>2, <1>5 DEF Manager!Listed
  <2>3. [jobs EXCEPT ![j].deleting = @ \ {q.id}, ![j].phase = p]
        = RunsOf(jobs, j, AnsweredAs(jobs[j], q.id, p))
    BY <2>1, AnsweredUpdate
  <2>4. QED
    BY <1>1, <1>6, <2>2, <2>3
<1>8. /\ task' \in [Job -> [Manager!Ids -> TaskRecord]] /\ files' \in [Job -> Nat]
      /\ \A k \in Job : k # j => task'[k] = task[k] /\ files'[k] = files[k]
      /\ \A k \in Manager!Ids : k # q.id => task'[j][k] = task[j][k]
      /\ Moved(task[j][q.id], task'[j][q.id], "delete", q.part)
      /\ files'[j] = IF task'[j][q.id].status = "complete" /\ task[j][q.id].status # "complete"
                     THEN files[j] + 1 ELSE files[j]
  BY <1>2, <1>4, ServedFacts DEF UploadsInv
<1>9. PICK t2, f2 : t2 = task'[j] /\ f2 = files'[j]
  OBVIOUS
<1>10. JobFits(j, e, t2, f2, g, r, n)
  BY <1>1, <1>2, <1>4, <1>9, ServedFits
<1>11. JobFits(j, d, t2, f2, g, r, n)
  <2>1. t2[q.id].status # "active"
    BY <1>8, <1>9 DEF Moved
  <2>2. QED
    BY <1>2, <1>5, <1>6, <1>10, <2>1, DeletedFits
<1>12. PICK m \in SUBSET TaskRequest : m = net' /\ \A k \in m : k \in n
  BY <1>2
<1>13. JobFits(j, d, t2, f2, g, r, m)
  BY <1>11, <1>12, OtherRequests
<1>14. restoring' \in BOOLEAN /\ gap' \in [Job -> BOOLEAN] /\ gap'[j] = g
       /\ \A k \in Job : k # j => gap'[k] = gap[k]
  BY <1>1, <1>3, Zenon DEF UploadsInv, UploadsTyped
<1>15. QED
  BY <1>1, <1>3, <1>7, <1>8, <1>9, <1>12, <1>13, <1>14, StepOfJob

LEMMA ServeLateStep ==
    ASSUME UploadsInv, NEW q \in net, Manager!ServeLate(q)
    PROVE  UploadsInv'
<1>1. PICK j \in Job : j = q.job /\ q \in TaskRequest
  BY TaskRequestFields DEF UploadsInv, UploadsTyped
<1>2. PICK e \in JobRecord, r \in RunRecord, n \in SUBSET TaskRequest,
           t \in {task[j]}, f \in {files[j]}, g \in {gap[j]} :
          /\ e = jobs[j] /\ r = run /\ t = task[j] /\ f = files[j] /\ g = gap[j] /\ n = net
          /\ RunShaped(r) /\ JobFits(j, e, t, f, g, r, n)
  BY OfJob
<1>3. /\ ~Manager!Waits(q) /\ net' = net \ {q}
      /\ Manager!Served(q) \/ UNCHANGED <<task, files>>
      /\ UNCHANGED <<jobs, run, restoring, gap>>
  BY DEF Manager!ServeLate
<1>4. PICK m \in SUBSET TaskRequest : m = net' /\ \A k \in m : k \in n
  BY <1>2, <1>3
<1>5. jobs' = RunsOf(jobs, j, e)
  BY <1>2, <1>3, SameJob DEF UploadsInv
<1>6. CASE Manager!Served(q)
  <2>1. q.kind = "create" => gap[j]
    <3>1. SUFFICES ASSUME q.kind = "create", ~gap[j] PROVE FALSE
      OBVIOUS
    <3>2. q.part = 0 /\ Creates(run, j, q.id)
      BY <1>1, <1>2, <3>1 DEF JobFits, OpenIsKnown
    <3>3. q = Manager!Request("create", j, q.id, 0)
      BY <1>1, <3>1, <3>2, RequestIs
    <3>4. q = Manager!Awaited
      BY <3>2, <3>3 DEF Creates, Runs, Manager!Awaited
    <3>5. run.pc = "create"
      BY <3>2 DEF Creates
    <3>6. QED
      BY <1>3, <3>4, <3>5 DEF Manager!Waits
  <2>2. JobFits(j, e, task'[j], files'[j], g, r, n)
    BY <1>1, <1>2, <1>6, <2>1, ServedFits
  <2>3. PICK t2, f2 : t2 = task'[j] /\ f2 = files'[j]
    OBVIOUS
  <2>4. JobFits(j, e, t2, f2, g, r, m)
    BY <1>4, <2>2, <2>3, OtherRequests
  <2>5. /\ task' \in [Job -> [Manager!Ids -> TaskRecord]] /\ files' \in [Job -> Nat]
        /\ \A k \in Job : k # j => task'[k] = task[k] /\ files'[k] = files[k]
    BY <1>1, <1>6, ServedFacts DEF UploadsInv
  <2>6. /\ restoring' \in BOOLEAN /\ gap' \in [Job -> BOOLEAN] /\ gap'[j] = g
        /\ \A k \in Job : k # j => gap'[k] = gap[k]
    BY <1>2, <1>3, Zenon DEF UploadsInv, UploadsTyped
  <2>7. QED
    BY <1>2, <1>3, <1>4, <1>5, <2>3, <2>4, <2>5, <2>6, StepOfJob
<1>7. CASE UNCHANGED <<task, files>>
  <2>1. JobFits(j, e, t, f, g, r, m)
    BY <1>2, <1>4, OtherRequests
  <2>2. QED
    BY <1>2, <1>3, <1>4, <1>5, <1>7, <2>1, StepOfClient
<1>8. QED
  BY <1>3, <1>6, <1>7

ExpiredAs(t) == [t EXCEPT !.status = "expired"]

LEMMA ExpiredFields ==
    ASSUME NEW t \in TaskRecord
    PROVE  LET u == ExpiredAs(t) IN
           u \in TaskRecord /\ u.status = "expired" /\ u.parts = t.parts
  BY DEF ExpiredAs, TaskRecord

LEMMA ExpireStep ==
    ASSUME UploadsInv, NEW j \in Job, NEW i \in Manager!Ids, Manager!Expire(j, i)
    PROVE  UploadsInv'
<1>1. PICK e \in JobRecord, r \in RunRecord, n \in SUBSET TaskRequest,
           t \in {task[j]}, f \in {files[j]}, g \in {gap[j]} :
          /\ e = jobs[j] /\ r = run /\ t = task[j] /\ f = files[j] /\ g = gap[j] /\ n = net
          /\ RunShaped(r) /\ JobFits(j, e, t, f, g, r, n)
  BY OfJob
<1>2. PICK F \in [Job -> [Manager!Ids -> TaskRecord]] : F = task
  BY DEF UploadsInv, UploadsTyped
<1>3. PICK u \in TaskRecord : u = ExpiredAs(F[j][i])
                              /\ u.status = "expired" /\ u.parts = F[j][i].parts
  BY ExpiredFields
<1>4. F[j][i].status = "active" /\ F[j][i].parts \in Nat
  BY <1>2, TaskRecordFields DEF Manager!Expire
<1>5. task' = PutTask(F, j, i, u)
  BY <1>2, <1>3 DEF Manager!Expire, PutTask, ExpiredAs
<1>6. UNCHANGED <<jobs, run, net, restoring, files, gap>>
  BY DEF Manager!Expire
<1>7. /\ task' \in [Job -> [Manager!Ids -> TaskRecord]] /\ task'[j][i] = u
      /\ \A k \in Manager!Ids : k # i => task'[j][k] = F[j][k]
      /\ \A k \in Job : k # j => task'[k] = F[k]
  <2>1. LET G == PutTask(F, j, i, u) IN
        /\ G \in [Job -> [Manager!Ids -> TaskRecord]] /\ G[j][i] = u
        /\ \A k \in Manager!Ids : k # i => G[j][k] = F[j][k]
        /\ \A k \in Job : k # j => G[k] = F[k]
    BY PutTaskFields
  <2>2. QED
    BY <1>5, <2>1
<1>8. PICK t2, kd : t2 = task'[j] /\ kd = "expire"
  OBVIOUS
<1>9. TaskMoves(t, t2, f, f, i, kd, 0)
  <2>1. /\ t[i].status = "active" /\ t2[i].status = "expired"
        /\ t[i].parts \in Nat /\ t2[i].parts = t[i].parts
    BY <1>1, <1>2, <1>3, <1>4, <1>7, <1>8
  <2>2. Moved(t[i], t2[i], kd, 0)
    BY <1>8, <2>1 DEF Moved
  <2>3. \A k \in Manager!Ids : k # i => t2[k] = t[k]
    BY <1>1, <1>2, <1>7, <1>8
  <2>4. QED
    BY <2>1, <2>2, <2>3 DEF TaskMoves
<1>10. JobFits(j, e, t2, f, g, r, n)
  <2>1. r.parts \in Nat /\ r.id \in {0, 1, 2} /\ e.known \in {0, 1, 2} /\ r.known \in {0, 1, 2}
    BY RunRecordFields, JobRecordFields
  <2>2. GivenUp(j, e, t, g, r, n, i, kd)
    BY <1>8 DEF GivenUp
  <2>3. QED
    BY <1>1, <1>9, <2>1, <2>2, MovedFits
<1>11. jobs' = RunsOf(jobs, j, e)
  BY <1>1, <1>6, SameJob DEF UploadsInv
<1>12. /\ restoring' \in BOOLEAN /\ gap' \in [Job -> BOOLEAN] /\ gap'[j] = g
       /\ \A k \in Job : k # j => gap'[k] = gap[k]
  BY <1>1, <1>6, Zenon DEF UploadsInv, UploadsTyped
<1>13. /\ files' \in [Job -> Nat] /\ files'[j] = f
       /\ \A k \in Job : k # j => task'[k] = task[k] /\ files'[k] = files[k]
  BY <1>1, <1>2, <1>6, <1>7 DEF UploadsInv, UploadsTyped
<1>14. QED
  BY <1>1, <1>6, <1>7, <1>8, <1>10, <1>11, <1>12, <1>13, StepOfJob

\* Every job that is listed leaves the list, every run is aborted.
LEMMA LeavesFits ==
    ASSUME NEW j, NEW e, NEW t, NEW f, NEW g, NEW r, NEW n, NEW e2, NEW r2,
           JobFits(j, e, t, f, g, r, n),
           Runs(r2, j) <=> Runs(r, j), Runs(r, j) => r2.aborted,
           r2.known = r.known, r2.id = r.id, r2.pc = r.pc, r2.parts = r.parts,
           r2.attempt = r.attempt,
           e2.deleting = e.deleting,
           IF e.phase \in {"new", "gone"} THEN e2 = e
           ELSE e2.phase = "gone" /\ e2.known = 0 /\ e2.request = 0
    PROVE  JobFits(j, e2, t, f, g, r2, n)
<1> USE DEF JobFits
<1>1. SecondAfterFirst(j, e2, t, r2, n)
  BY DEF SecondAfterFirst
<1>2. PartsSent(j, t, r2)
  BY DEF PartsSent
<1>3. ShownOfJob(j, e2, t, r2)
  BY DEF ShownOfJob
<1>4. OpenIsKnown(j, e2, t, g, r2, n)
  BY DEF OpenIsKnown, Creates
<1>5. RequestKept(j, e2, t, r2, n)
  BY DEF RequestKept, SecondAsked, Creates
<1>6. QED
  BY <1>1, <1>2, <1>3, <1>4, <1>5

LEMMA ChangeUserStep ==
    ASSUME UploadsInv, Manager!ChangeUser
    PROVE  UploadsInv'
<1>1. PICK r \in RunRecord : r = run /\ RunShaped(r)
  BY DEF UploadsInv, UploadsTyped
<1>2. /\ jobs' = [j \in Job |-> IF jobs[j].phase \notin {"new", "gone"}
                                THEN DroppedAs(jobs[j]) ELSE jobs[j]]
      /\ run' = IF r.pc = "idle" THEN r ELSE StaleRun(r)
      /\ restoring' = TRUE /\ UNCHANGED <<net, task, files, gap>>
  BY <1>1 DEF Manager!ChangeUser, Manager!Listed, Manager!Dropped, DroppedAs, StaleRun
<1>3. PICK s \in RunRecord :
          /\ s = run' /\ s.pc = r.pc /\ s.job = r.job /\ s.known = r.known
          /\ s.id = r.id /\ s.parts = r.parts /\ s.attempt = r.attempt
          /\ r.pc # "idle" => s.aborted
          /\ s.stale => s.aborted
  <2>1. CASE r.pc = "idle"
    BY <1>1, <1>2, <2>1 DEF RunShaped
  <2>2. CASE r.pc # "idle"
    BY <1>2, <2>2, StaleFields
  <2>3. QED
    BY <2>1, <2>2
<1>4. RunShaped(run)'
  BY <1>1, <1>3 DEF RunShaped
<1>5. ASSUME NEW j \in Job
      PROVE  jobs'[j] \in JobRecord
             /\ JobFits(j, jobs'[j], task'[j], files'[j], gap'[j], run', net')
  <2>1. PICK e \in JobRecord, n \in SUBSET TaskRequest,
             t \in {task[j]}, f \in {files[j]}, g \in {gap[j]} :
            /\ e = jobs[j] /\ t = task[j] /\ f = files[j] /\ g = gap[j] /\ n = net
            /\ JobFits(j, e, t, f, g, r, n)
    BY <1>1, OfJob
  <2>2. PICK d \in JobRecord :
            /\ d = jobs'[j] /\ d.deleting = e.deleting
            /\ IF e.phase \in {"new", "gone"} THEN d = e
               ELSE d.phase = "gone" /\ d.known = 0 /\ d.request = 0
    <3>1. CASE e.phase \in {"new", "gone"}
      BY <1>2, <2>1, <3>1
    <3>2. CASE e.phase \notin {"new", "gone"}
      BY <1>2, <2>1, <3>2, DroppedFields
    <3>3. QED
      BY <3>1, <3>2
  <2>3. Runs(s, j) <=> Runs(r, j)
    BY <1>3 DEF Runs
  <2>4. Runs(r, j) => s.aborted
    BY <1>3 DEF Runs
  <2>5. JobFits(j, d, t, f, g, s, n)
    BY <1>3, <2>1, <2>2, <2>3, <2>4, LeavesFits
  <2>6. QED
    BY <1>2, <1>3, <2>1, <2>2, <2>5
<1>6. UploadsTyped'
  <2>1. jobs' \in [Job -> JobRecord]
    BY <1>2, <1>5
  <2>2. /\ run' \in RunRecord /\ net' \subseteq TaskRequest
        /\ task' \in [Job -> [Manager!Ids -> TaskRecord]] /\ files' \in [Job -> Nat]
    BY <1>2, <1>3 DEF UploadsInv, UploadsTyped
  <2>3. restoring' \in BOOLEAN /\ gap' \in [Job -> BOOLEAN]
    BY <1>2, Zenon DEF UploadsInv, UploadsTyped
  <2>4. QED
    BY <2>1, <2>2, <2>3 DEF UploadsTyped
<1>7. QED
  BY <1>4, <1>5, <1>6 DEF UploadsInv

LEMMA RestoreStep ==
    ASSUME UploadsInv, Manager!Restore
    PROVE  UploadsInv'
<1>1. /\ jobs' = [j \in Job |-> IF jobs[j].phase = "gone" THEN Manager!Restored(j)
                                ELSE jobs[j]]
      /\ restoring' = FALSE /\ UNCHANGED <<run, net, task, files, gap>>
  BY DEF Manager!Restore
<1>2. ASSUME NEW j \in Job
      PROVE  jobs'[j] \in JobRecord
             /\ JobFits(j, jobs'[j], task'[j], files'[j], gap'[j], run', net')
  <2>1. PICK e \in JobRecord, r \in RunRecord, n \in SUBSET TaskRequest,
             t \in {task[j]}, f \in {files[j]}, g \in {gap[j]} :
            /\ e = jobs[j] /\ r = run /\ t = task[j] /\ f = files[j] /\ g = gap[j] /\ n = net
            /\ RunShaped(r) /\ JobFits(j, e, t, f, g, r, n)
    BY OfJob
  <2>2. CASE e.phase = "gone" /\ \E i \in Manager!Ids : t[i].status \in {"active", "complete"}
    <3>1. PICK i \in Manager!Ids :
              /\ i = CHOOSE k \in Manager!Ids : task[j][k].status \in {"active", "complete"}
              /\ task[j][i].status \in {"active", "complete"}
      BY <2>1, <2>2
    <3>2. PICK p \in {"complete", "paused"} :
              p = IF task[j][i].status = "active" THEN "paused" ELSE "complete"
      OBVIOUS
    <3>3. PICK d \in JobRecord : /\ d = RestoredAs(e, i, p) /\ d.phase = p /\ d.known = i
                                 /\ d.request = e.request /\ d.deleting = e.deleting
      BY RestoredFields
    <3>4. jobs'[j] = d
      <4>1. jobs'[j] = Manager!Restored(j)
        BY <1>1, <2>1, <2>2
      <4>2. Manager!Restored(j) = [jobs[j] EXCEPT !.known = i, !.phase = p]
        BY <2>1, <2>2, <3>1, <3>2 DEF Manager!Restored
      <4>3. QED
        BY <2>1, <3>3, <4>1, <4>2 DEF RestoredAs
    <3>5. JobFits(j, d, t, f, g, r, n)
      <4>1. t[i].status = task[j][i].status
        BY <2>1
      <4>2. t[i].status \in {"active", "complete"}
        BY <3>1, <4>1
      <4>3. d.phase = IF t[i].status = "active" THEN "paused" ELSE "complete"
        BY <3>2, <3>3, <4>1
      <4>4. QED
        BY <2>1, <2>2, <3>3, <4>2, <4>3, RestoreFits
    <3>6. QED
      BY <1>1, <2>1, <3>4, <3>5
  <2>3. CASE ~(e.phase = "gone"
               /\ \E i \in Manager!Ids : t[i].status \in {"active", "complete"})
    <3>1. jobs'[j] = e
      <4>1. jobs'[j] = IF e.phase = "gone" THEN Manager!Restored(j) ELSE e
        BY <1>1, <2>1
      <4>2. CASE e.phase = "gone"
        <5>1. ~\E i \in Manager!Ids : task[j][i].status \in {"active", "complete"}
          BY <2>1, <2>3, <4>2
        <5>2. Manager!Restored(j) = jobs[j]
          BY <5>1, Zenon DEF Manager!Restored
        <5>3. QED
          BY <2>1, <4>1, <4>2, <5>2
      <4>3. QED
        BY <4>1, <4>2
    <3>2. QED
      BY <1>1, <2>1, <3>1
  <2>4. QED
    BY <2>2, <2>3
<1>3. RunShaped(run)'
  BY <1>1 DEF UploadsInv, RunShaped
<1>4. UploadsTyped'
  <2>1. jobs' \in [Job -> JobRecord]
    BY <1>1, <1>2
  <2>2. /\ run' \in RunRecord /\ net' \subseteq TaskRequest
        /\ task' \in [Job -> [Manager!Ids -> TaskRecord]] /\ files' \in [Job -> Nat]
    BY <1>1 DEF UploadsInv, UploadsTyped
  <2>3. restoring' \in BOOLEAN /\ gap' \in [Job -> BOOLEAN]
    BY <1>1, Zenon DEF UploadsInv, UploadsTyped
  <2>4. QED
    BY <2>1, <2>2, <2>3 DEF UploadsTyped
<1>5. QED
  BY <1>2, <1>3, <1>4 DEF UploadsInv

\* The job that is performed.
LEMMA OfRun ==
    ASSUME UploadsInv, run.pc # "idle"
    PROVE  \E j \in Job, e \in JobRecord, r \in RunRecord, n \in SUBSET TaskRequest :
           \E t \in {task[j]}, f \in {files[j]}, g \in {gap[j]} :
              /\ e = jobs[j] /\ r = run /\ t = task[j] /\ f = files[j] /\ g = gap[j] /\ n = net
              /\ RunShaped(r) /\ JobFits(j, e, t, f, g, r, n)
              /\ j = run.job /\ Runs(r, j) /\ e.phase # "new"
<1>1. PICK j \in Job : j = run.job
  BY DEF UploadsInv, RunShaped
<1>2. Runs(run, j)
  BY <1>1 DEF Runs
<1>3. PICK e \in JobRecord, r \in RunRecord, n \in SUBSET TaskRequest,
           t \in {task[j]}, f \in {files[j]}, g \in {gap[j]} :
          /\ e = jobs[j] /\ r = run /\ t = task[j] /\ f = files[j] /\ g = gap[j] /\ n = net
          /\ RunShaped(r) /\ JobFits(j, e, t, f, g, r, n)
  BY OfJob
<1>4. e.phase # "new"
  BY <1>2, <1>3 DEF JobFits, OpenIsKnown
<1>5. QED
  BY <1>1, <1>2, <1>3, <1>4

\* A step of the run about its job.
LEMMA StepOfRun ==
    ASSUME UploadsInv, NEW j \in Job, Runs(run, j), NEW d \in JobRecord, NEW r \in RunRecord,
           NEW n \in SUBSET TaskRequest,
           jobs' = RunsOf(jobs, j, d), run' = r, net' = n, restoring' \in BOOLEAN,
           task' \in [Job -> [Manager!Ids -> TaskRecord]], files' \in [Job -> Nat],
           gap' \in [Job -> BOOLEAN],
           \A k \in Job : k # j => task'[k] = task[k] /\ files'[k] = files[k],
           \A k \in Job : k # j => gap'[k] = gap[k],
           RunShaped(r), r.pc = "idle" \/ r.job = j,
           \A q \in n : q.kind = "create" /\ q.job # j => q \in net,
           JobFits(j, d, task'[j], files'[j], gap'[j], r, n)
    PROVE  UploadsInv'
<1>1. \A k \in Job : k # j => ~Runs(run, k) /\ ~Runs(r, k)
  BY DEF Runs
<1>2. QED
  BY <1>1, StepOfJob

LEMMA QuietStepOfRun ==
    ASSUME UploadsInv, NEW j \in Job, Runs(run, j), NEW d \in JobRecord, NEW r \in RunRecord,
           NEW n \in SUBSET TaskRequest,
           jobs' = RunsOf(jobs, j, d), run' = r, net' = n,
           UNCHANGED <<task, files, gap, restoring>>,
           RunShaped(r), r.pc = "idle" \/ r.job = j,
           \A q \in n : q.kind = "create" /\ q.job # j => q \in net,
           JobFits(j, d, task[j], files[j], gap[j], r, n)
    PROVE  UploadsInv'
<1>1. \A k \in Job : k # j => ~Runs(run, k) /\ ~Runs(r, k)
  BY DEF Runs
<1>2. QED
  BY <1>1, StepOfClient

LEMMA ReturnedRun ==
    ASSUME Manager!Returns
    PROVE  \E s \in RunRecord : run' = s /\ s.pc = "idle" /\ RunShaped(s)
<1>1. PICK s \in RunRecord : s = Manager!IdleRun /\ s.pc = "idle" /\ ~s.stale
  BY IdleRunFields
<1>2. QED
  BY <1>1 DEF Manager!Returns, RunShaped

LEMMA PhaseIs ==
    ASSUME UploadsTyped, NEW j \in Job, NEW p
    PROVE  Manager!Phase(j, p) = RunsOf(jobs, j, IF jobs[j].phase \notin {"new", "gone"}
                                                 THEN PhasedAs(jobs[j], p) ELSE jobs[j])
<1>1. jobs \in [Job -> JobRecord]
  BY DEF UploadsTyped
<1>2. CASE jobs[j].phase \notin {"new", "gone"}
  BY <1>2 DEF Manager!Phase, Manager!Listed, RunsOf, PhasedAs
<1>3. CASE jobs[j].phase \in {"new", "gone"}
  <2>1. Manager!Phase(j, p) = [jobs EXCEPT ![j].phase = jobs[j].phase]
    BY <1>3 DEF Manager!Phase, Manager!Listed
  <2>2. jobs[j] = [jobs[j] EXCEPT !.phase = jobs[j].phase]
    BY <1>1 DEF JobRecord
  <2>3. QED
    BY <1>3, <2>1, <2>2 DEF RunsOf
<1>4. QED
  BY <1>2, <1>3

LEMMA FailsStep ==
    ASSUME UploadsInv, run.pc \notin {"idle", "undo"}, Manager!Fails,
           UNCHANGED <<net, task, restoring, files>>,
           IF run.pc = "create" THEN gap' = [gap EXCEPT ![run.job] = TRUE]
           ELSE UNCHANGED gap
    PROVE  UploadsInv'
<1>1. PICK j \in Job, e \in JobRecord, r \in RunRecord, n \in SUBSET TaskRequest :
      \E t \in {task[j]}, f \in {files[j]}, g \in {gap[j]} :
          /\ e = jobs[j] /\ r = run /\ t = task[j] /\ f = files[j] /\ g = gap[j] /\ n = net
          /\ RunShaped(r) /\ JobFits(j, e, t, f, g, r, n)
          /\ j = run.job /\ Runs(r, j) /\ e.phase # "new"
  BY OfRun
<1>2. PICK t \in {task[j]}, f \in {files[j]}, g \in {gap[j]} :
          /\ t = task[j] /\ f = files[j] /\ g = gap[j] /\ JobFits(j, e, t, f, g, r, n)
  BY <1>1
<1>3. PICK s \in RunRecord : run' = s /\ s.pc = "idle" /\ RunShaped(s)
  BY ReturnedRun DEF Manager!Fails
<1>4. PICK d : d = IF r.aborted \/ e.phase \in {"cancelled", "paused", "new", "gone"} THEN e
                   ELSE PhasedAs(e, "error")
  OBVIOUS
<1>5. jobs' = RunsOf(jobs, j, d)
  <2>1. r.stale => r.aborted
    BY <1>1 DEF RunShaped
  <2>2. jobs = RunsOf(jobs, j, e)
    BY <1>1, SameJob DEF UploadsInv
  <2>3. Manager!Phase(j, "error") = RunsOf(jobs, j, IF e.phase \notin {"new", "gone"}
                                                    THEN PhasedAs(e, "error") ELSE e)
    BY <1>1, PhaseIs DEF UploadsInv
  <2>4. jobs' = IF r.stale \/ r.aborted \/ e.phase \in {"cancelled", "paused"}
                THEN jobs ELSE Manager!Phase(j, "error")
    BY <1>1 DEF Manager!Fails
  <2>5. QED
    BY <1>4, <2>1, <2>2, <2>3, <2>4
<1>6. PICK h : /\ h = gap'[j] /\ JobFits(j, e, t, f, h, r, n)
               /\ ~h => r.pc \notin {"create", "undo"}
               /\ gap' \in [Job -> BOOLEAN] /\ \A k \in Job : k # j => gap'[k] = gap[k]
  <2>1. gap \in [Job -> BOOLEAN]
    BY DEF UploadsInv, UploadsTyped
  <2>2. CASE run.pc = "create"
    <3>1. gap' \in [Job -> BOOLEAN] /\ gap'[j] = TRUE /\ \A k \in Job : k # j => gap'[k] = gap[k]
      <4>1. PICK G \in [Job -> BOOLEAN] : G = gap
        BY <2>1
      <4>2. gap' = [G EXCEPT ![j] = TRUE]
        BY <1>1, <2>2, <4>1
      <4>3. QED
        BY <4>1, <4>2, UpdatedGap
    <3>2. JobFits(j, e, t, f, TRUE, r, n)
      BY <1>1, <1>2, GapFits
    <3>3. QED
      BY <3>1, <3>2
  <2>3. CASE run.pc # "create"
    BY <1>1, <1>2, <2>1, <2>3, Zenon
  <2>4. QED
    BY <2>2, <2>3
<1>7. d \in JobRecord /\ JobFits(j, d, t, f, h, s, n)
  <2>1. r.stale => r.aborted
    BY <1>1 DEF RunShaped
  <2>2. Runs(r, j) /\ s.pc = "idle" /\ JobFits(j, e, t, f, h, r, n)
        /\ (~h => r.pc \notin {"create", "undo"})
    BY <1>1, <1>3, <1>6
  <2>3. LET c == IF r.aborted \/ e.phase \in {"cancelled", "paused", "new", "gone"} THEN e
                 ELSE PhasedAs(e, "error")
        IN c \in JobRecord /\ JobFits(j, c, t, f, h, s, n)
    BY <2>1, <2>2, FailsFits
  <2>4. QED
    BY <1>4, <2>3
<1>8. /\ restoring' \in BOOLEAN /\ task' \in [Job -> [Manager!Ids -> TaskRecord]]
      /\ files' \in [Job -> Nat]
  BY Zenon DEF UploadsInv, UploadsTyped
<1>9. \A k \in Job : k # j => task'[k] = task[k] /\ files'[k] = files[k]
  OBVIOUS
<1>10. JobFits(j, d, task'[j], files'[j], gap'[j], s, n)
  BY <1>2, <1>6, <1>7
<1>11. QED
  BY <1>1, <1>3, <1>5, <1>6, <1>7, <1>8, <1>9, <1>10, StepOfRun

LEMMA PerformStep ==
    ASSUME UploadsInv, NEW j \in Job, Manager!Perform(j)
    PROVE  UploadsInv'
<1>1. PICK e \in JobRecord, r \in RunRecord, n \in SUBSET TaskRequest,
           t \in {task[j]}, f \in {files[j]}, g \in {gap[j]} :
          /\ e = jobs[j] /\ r = run /\ t = task[j] /\ f = files[j] /\ g = gap[j] /\ n = net
          /\ RunShaped(r) /\ JobFits(j, e, t, f, g, r, n)
  BY OfJob
<1>2. /\ r.pc = "idle" /\ e.phase = "queued" /\ jobs' = Manager!Phase(j, "hashing")
      /\ run' = HashingRun(j, e.known) /\ UNCHANGED <<net, task, restoring, files, gap>>
  BY <1>1 DEF Manager!Perform, HashingRun, HashingOf
<1>3. PICK d \in JobRecord :
          /\ d = PhasedAs(e, "hashing") /\ d.phase = "hashing" /\ d.known = e.known
          /\ d.request = e.request /\ d.deleting = e.deleting
  BY PhasedFields
<1>4. jobs' = RunsOf(jobs, j, d)
  <2>1. Manager!Phase(j, "hashing") = RunsOf(jobs, j, IF jobs[j].phase \notin {"new", "gone"}
                                                      THEN PhasedAs(jobs[j], "hashing")
                                                      ELSE jobs[j])
    BY PhaseIs DEF UploadsInv
  <2>2. QED
    BY <1>1, <1>2, <1>3, <2>1
<1>5. PICK s \in RunRecord : /\ s = run' /\ s.pc = "hash" /\ s.job = j /\ s.known = e.known
                             /\ s.id = 0 /\ ~s.aborted /\ ~s.stale
  <2>1. e.known \in {0, 1, 2}
    BY JobRecordFields
  <2>2. QED
    BY <1>2, <2>1, HashingFields
<1>6. RunShaped(s)
  BY <1>5 DEF RunShaped
<1>7. JobFits(j, d, t, f, g, s, n)
  BY <1>1, <1>2, <1>3, <1>5, PerformFits
<1>8. \A k \in Job : k # j => ~Runs(run, k) /\ ~Runs(s, k)
  BY <1>1, <1>2, <1>5 DEF Runs
<1>9. QED
  BY <1>1, <1>2, <1>4, <1>5, <1>6, <1>7, <1>8, StepOfClient

LEMMA UnwindStep ==
    ASSUME UploadsInv, Manager!Unwind
    PROVE  UploadsInv'
<1>1. PICK j \in Job, e \in JobRecord, r \in RunRecord, n \in SUBSET TaskRequest :
      \E t \in {task[j]}, f \in {files[j]}, g \in {gap[j]} :
          /\ e = jobs[j] /\ r = run /\ t = task[j] /\ f = files[j] /\ g = gap[j] /\ n = net
          /\ RunShaped(r) /\ JobFits(j, e, t, f, g, r, n)
          /\ j = run.job /\ Runs(r, j) /\ e.phase # "new"
  BY OfRun DEF Manager!Unwind
<1>2. PICK t \in {task[j]}, f \in {files[j]}, g \in {gap[j]} :
          /\ t = task[j] /\ f = files[j] /\ g = gap[j] /\ JobFits(j, e, t, f, g, r, n)
  BY <1>1
<1>3. PICK s \in RunRecord : run' = s /\ s.pc = "idle" /\ RunShaped(s)
  BY ReturnedRun DEF Manager!Unwind
<1>4. /\ r.aborted /\ r.pc \in {"hash", "fetch", "verify", "part", "check", "complete"}
      /\ UNCHANGED <<jobs, net, task, restoring, files, gap>>
  BY <1>1 DEF Manager!Unwind
<1>5. JobFits(j, e, t, f, g, s, n)
  <2>1. ~g => \A q \in n : ~(q.kind = "create" /\ q.job = j)
    BY <1>2, <1>4 DEF JobFits, OpenIsKnown, Creates
  <2>2. e.phase \notin {"hashing", "uploading"}
    BY <1>2, <1>4 DEF JobFits, ShownOfJob
  <2>3. QED
    BY <1>1, <1>2, <1>3, <1>4, <2>1, <2>2, ReturnFits
<1>6. jobs' = RunsOf(jobs, j, e)
  BY <1>1, <1>4, SameJob DEF UploadsInv
<1>7. QED
  BY <1>1, <1>2, <1>3, <1>4, <1>5, <1>6, QuietStepOfRun

\* A task is created: the first of the job, or one for a task that is over.
LEMMA CreateTaskStep ==
    ASSUME UploadsInv, Manager!CreateTask, UNCHANGED <<task, restoring, files, gap>>,
           ~run.aborted,
           \/ run.pc = "hash" /\ run.known = 0
           \/ run.pc = "fetch" /\ ~Manager!Alive(task[run.job][run.known])
    PROVE  UploadsInv'
<1>1. PICK j \in Job, e \in JobRecord, r \in RunRecord, n \in SUBSET TaskRequest :
      \E t \in {task[j]}, f \in {files[j]}, g \in {gap[j]} :
          /\ e = jobs[j] /\ r = run /\ t = task[j] /\ f = files[j] /\ g = gap[j] /\ n = net
          /\ RunShaped(r) /\ JobFits(j, e, t, f, g, r, n)
          /\ j = run.job /\ Runs(r, j) /\ e.phase # "new"
  BY OfRun
<1>2. PICK t \in {task[j]}, f \in {files[j]}, g \in {gap[j]} :
          /\ t = task[j] /\ f = files[j] /\ g = gap[j] /\ JobFits(j, e, t, f, g, r, n)
  BY <1>1
<1>3. ~r.aborted /\ ~r.stale
  BY <1>1 DEF RunShaped
<1>4. (r.pc = "hash" /\ r.known = 0)
      \/ (r.pc = "fetch" /\ r.known # 0 /\ t[r.known].status \notin {"active", "complete"})
  BY <1>1, <1>2 DEF RunShaped, Manager!Alive
<1>5. PICK i \in Manager!Ids :
          /\ i = IF e.request # 0 THEN e.request ELSE IF r.known # 0 THEN r.known + 1 ELSE 1
          /\ jobs' = [jobs EXCEPT ![j].request = i]
          /\ run' = RunWith(r, "create", i)
          /\ net' = n \cup {Manager!Request("create", j, i, 0)}
  <2>1. PICK i \in Manager!Ids : i = Manager!UploadId
    BY DEF Manager!CreateTask
  <2>2. i = IF e.request # 0 THEN e.request ELSE IF r.known # 0 THEN r.known + 1 ELSE 1
    BY <1>1, <2>1 DEF Manager!UploadId
  <2>3. jobs' = [jobs EXCEPT ![j].request = i] /\ run' = RunWith(r, "create", i)
    BY <1>1, <2>1 DEF Manager!CreateTask, RunWith
  <2>4. net' = n \cup {Manager!Request("create", j, i, 0)}
    BY <1>1, <2>1 DEF Manager!CreateTask
  <2>5. QED
    BY <2>2, <2>3, <2>4, Zenon
<1>6. PICK d \in JobRecord :
          /\ d = RequestedAs(e, i) /\ d.phase = e.phase /\ d.known = e.known /\ d.file = e.file
          /\ d.request = i /\ d.deleting = e.deleting
  BY RequestedFields
<1>7. jobs' = RunsOf(jobs, j, d)
  BY <1>1, <1>5, <1>6 DEF RunsOf, RequestedAs
<1>8. PICK s \in RunRecord :
          /\ s = RunWith(r, "create", i) /\ s.pc = "create" /\ s.job = r.job /\ s.known = r.known
          /\ s.id = i /\ s.aborted = r.aborted /\ s.stale = r.stale
  BY RunWithFields
<1>9. PICK q \in TaskRequest : /\ q = Manager!Request("create", j, i, 0)
                               /\ q.kind = "create" /\ q.job = j /\ q.id = i /\ q.part = 0
  <2>1. 0 \in 0 .. Parts
    BY PartsNat
  <2>2. QED
    BY <2>1, RequestMade
<1>10. PICK m \in SUBSET TaskRequest : m = net' /\ m = n \cup {q}
  BY <1>5, <1>9
<1>11. /\ e.known \in {0, 1, 2} /\ e.request \in {0, 1, 2}
       /\ t[1].status \in {"none", "active", "complete", "cancelled", "expired"}
  <2>1. task[j][1] \in TaskRecord
    BY TwoIds DEF UploadsInv, UploadsTyped
  <2>2. QED
    BY <1>2, <2>1, JobRecordFields, TaskRecordFields
<1>12. JobFits(j, d, t, f, g, s, m)
  BY <1>1, <1>2, <1>3, <1>4, <1>5, <1>6, <1>8, <1>9, <1>10, <1>11, AskFits
<1>13. RunShaped(s)
  BY <1>3, <1>8, <1>1, TwoIds DEF RunShaped
<1>14. s.job = j /\ \A k \in m : k.kind = "create" /\ k.job # j => k \in net
  BY <1>1, <1>8, <1>9, <1>10
<1>15. QED
  BY <1>1, <1>2, <1>5, <1>7, <1>8, <1>10, <1>12, <1>13, <1>14, QuietStepOfRun

LEMMA HashedStep ==
    ASSUME UploadsInv, Manager!Hashed
    PROVE  UploadsInv'
<1>1. PICK j \in Job, e \in JobRecord, r \in RunRecord, n \in SUBSET TaskRequest :
      \E t \in {task[j]}, f \in {files[j]}, g \in {gap[j]} :
          /\ e = jobs[j] /\ r = run /\ t = task[j] /\ f = files[j] /\ g = gap[j] /\ n = net
          /\ RunShaped(r) /\ JobFits(j, e, t, f, g, r, n)
          /\ j = run.job /\ Runs(r, j) /\ e.phase # "new"
  BY OfRun DEF Manager!Hashed
<1>2. PICK t \in {task[j]}, f \in {files[j]}, g \in {gap[j]} :
          /\ t = task[j] /\ f = files[j] /\ g = gap[j] /\ JobFits(j, e, t, f, g, r, n)
  BY <1>1
<1>3. r.pc = "hash" /\ ~r.aborted /\ UNCHANGED <<task, restoring, files, gap>>
  BY <1>1 DEF Manager!Hashed
<1>4. CASE Manager!Fails /\ UNCHANGED net
  BY <1>1, <1>3, <1>4, FailsStep
<1>5. CASE run.known # 0 /\ run' = [run EXCEPT !.pc = "fetch"] /\ UNCHANGED <<jobs, net>>
  <2>1. PICK s \in RunRecord :
            /\ s = RunAt(r, "fetch") /\ s.pc = "fetch" /\ s.job = r.job /\ s.known = r.known
            /\ s.id = r.id /\ s.aborted = r.aborted /\ s.stale = r.stale
    BY RunAtFields
  <2>2. run' = s /\ RunShaped(s) /\ Runs(s, j)
    BY <1>1, <1>5, <2>1 DEF RunAt, RunShaped, Runs
  <2>3. JobFits(j, e, t, f, g, s, n)
    <3>1. ~g => \A q \in n : ~(q.kind = "create" /\ q.job = j)
      BY <1>2, <1>3 DEF JobFits, OpenIsKnown, Creates
    <3>2. s.id = 2 => Dead(t[1])
      BY <1>1, <1>2, <2>1 DEF JobFits, SecondAfterFirst
    <3>3. PartsSent(j, t, s)
      BY <2>1 DEF PartsSent
    <3>4. QED
      BY <1>1, <1>2, <1>3, <2>1, <2>2, <3>1, <3>2, <3>3, GoesOnFits
  <2>4. jobs' = RunsOf(jobs, j, e)
    BY <1>1, <1>5, SameJob DEF UploadsInv
  <2>5. s.job = j
    BY <1>1, <2>1
  <2>6. QED
    BY <1>1, <1>2, <1>3, <1>5, <2>2, <2>3, <2>4, <2>5, QuietStepOfRun
<1>6. CASE run.known = 0 /\ Manager!CreateTask
  BY <1>1, <1>3, <1>6, CreateTaskStep
<1>7. QED
  BY <1>4, <1>5, <1>6 DEF Manager!Hashed

LEMMA ProgressStep ==
    ASSUME UploadsInv, Manager!Progress
    PROVE  UploadsInv'
<1>1. PICK j \in Job, e \in JobRecord, r \in RunRecord, n \in SUBSET TaskRequest :
      \E t \in {task[j]}, f \in {files[j]}, g \in {gap[j]} :
          /\ e = jobs[j] /\ r = run /\ t = task[j] /\ f = files[j] /\ g = gap[j] /\ n = net
          /\ RunShaped(r) /\ JobFits(j, e, t, f, g, r, n)
          /\ j = run.job /\ Runs(r, j) /\ e.phase # "new"
  BY OfRun DEF Manager!Progress
<1>2. PICK t \in {task[j]}, f \in {files[j]}, g \in {gap[j]} :
          /\ t = task[j] /\ f = files[j] /\ g = gap[j] /\ JobFits(j, e, t, f, g, r, n)
  BY <1>1
<1>3. PICK d \in JobRecord :
          /\ d = PhasedAs(e, "uploading") /\ d.phase = "uploading" /\ d.known = e.known
          /\ d.request = e.request /\ d.deleting = e.deleting
  BY PhasedFields
<1>4. /\ r.pc = "part" /\ ~r.aborted /\ jobs' = Manager!Phase(j, "uploading")
      /\ UNCHANGED <<run, net, task, restoring, files, gap>>
  BY <1>1 DEF Manager!Progress
<1>5. e.phase \notin {"new", "gone"} /\ ShownOfJob(j, d, t, r)
  BY <1>1, <1>2, <1>3, <1>4 DEF JobFits, ShownOfJob
<1>6. jobs' = RunsOf(jobs, j, d)
  <2>1. Manager!Phase(j, "uploading") = RunsOf(jobs, j, IF jobs[j].phase \notin {"new", "gone"}
                                                        THEN PhasedAs(jobs[j], "uploading")
                                                        ELSE jobs[j])
    BY PhaseIs DEF UploadsInv
  <2>2. QED
    BY <1>1, <1>3, <1>4, <1>5, <2>1
<1>7. JobFits(j, d, t, f, g, r, n)
  BY <1>2, <1>3, <1>5, PhaseFits
<1>8. QED
  BY <1>1, <1>2, <1>4, <1>6, <1>7, QuietStepOfRun

LEMMA CreateBreaksStep ==
    ASSUME UploadsInv, Manager!CreateBreaks
    PROVE  UploadsInv'
  BY FailsStep DEF Manager!CreateBreaks

LEMMA UndoneStep ==
    ASSUME UploadsInv, Manager!Undone
    PROVE  UploadsInv'
<1>1. PICK j \in Job, e \in JobRecord, r \in RunRecord, n \in SUBSET TaskRequest :
      \E t \in {task[j]}, f \in {files[j]}, g \in {gap[j]} :
          /\ e = jobs[j] /\ r = run /\ t = task[j] /\ f = files[j] /\ g = gap[j] /\ n = net
          /\ RunShaped(r) /\ JobFits(j, e, t, f, g, r, n)
          /\ j = run.job /\ Runs(r, j) /\ e.phase # "new"
  BY OfRun DEF Manager!Undone
<1>2. PICK t \in {task[j]}, f \in {files[j]}, g \in {gap[j]} :
          /\ t = task[j] /\ f = files[j] /\ g = gap[j] /\ JobFits(j, e, t, f, g, r, n)
  BY <1>1
<1>3. PICK s \in RunRecord : run' = s /\ s.pc = "idle" /\ RunShaped(s)
  BY ReturnedRun DEF Manager!Undone
<1>4. r.pc = "undo" /\ r.aborted /\ UNCHANGED <<jobs, restoring>> /\ r.id \in Manager!Ids
  BY <1>1, RunRecordFields, TwoIds DEF Manager!Undone, RunShaped
<1>5. jobs' = RunsOf(jobs, j, e)
  BY <1>1, <1>4, SameJob DEF UploadsInv
<1>6. e.phase \notin {"hashing", "uploading"}
  BY <1>1, <1>2, <1>4 DEF JobFits, ShownOfJob
<1>7. ~g => \A q \in n : ~(q.kind = "create" /\ q.job = j)
  BY <1>2, <1>4 DEF JobFits, OpenIsKnown, Creates
<1>8. CASE /\ Manager!Request("delete", run.job, run.id, 0) \in net
           /\ Manager!Served(Manager!Request("delete", run.job, run.id, 0))
           /\ net' = net \ {Manager!Request("delete", run.job, run.id, 0)}
           /\ UNCHANGED gap
  <2>1. PICK q \in TaskRequest :
            /\ q = Manager!Request("delete", run.job, run.id, 0) /\ q \in n
            /\ q.kind = "delete" /\ q.job = j /\ q.id = r.id
    <3>1. 0 \in 0 .. Parts
      BY PartsNat
    <3>2. QED
      BY <1>1, <1>4, <1>8, <3>1, RequestMade
  <2>2. JobFits(j, e, task'[j], files'[j], g, r, n)
    BY <1>1, <1>2, <1>8, <2>1, ServedFits
  <2>3. /\ task' \in [Job -> [Manager!Ids -> TaskRecord]] /\ files' \in [Job -> Nat]
        /\ \A k \in Job : k # j => task'[k] = task[k] /\ files'[k] = files[k]
        /\ Moved(task[j][r.id], task'[j][r.id], "delete", q.part)
    BY <1>8, <2>1, ServedFacts DEF UploadsInv
  <2>4. PICK t2, f2 : t2 = task'[j] /\ f2 = files'[j]
    OBVIOUS
  <2>5. t2[r.id].status # "active"
    BY <2>3, <2>4 DEF Moved
  <2>6. PICK m \in SUBSET TaskRequest : m = net' /\ \A k \in m : k \in n
    BY <1>1, <1>8
  <2>7. JobFits(j, e, t2, f2, g, s, m)
    BY <1>1, <1>3, <1>4, <1>6, <1>7, <2>2, <2>4, <2>5, <2>6, ReturnFits
  <2>8. /\ restoring' \in BOOLEAN /\ gap' \in [Job -> BOOLEAN] /\ gap'[j] = g
        /\ \A k \in Job : k # j => gap'[k] = gap[k]
    BY <1>2, <1>4, <1>8, Zenon DEF UploadsInv, UploadsTyped
  <2>9. QED
    BY <1>1, <1>3, <1>5, <2>3, <2>4, <2>6, <2>7, <2>8, StepOfRun
<1>9. CASE gap' = [gap EXCEPT ![run.job] = TRUE] /\ UNCHANGED <<net, task, files>>
  <2>1. PICK G \in [Job -> BOOLEAN] : G = gap
    BY Zenon DEF UploadsInv, UploadsTyped
  <2>2. gap' = [G EXCEPT ![j] = TRUE]
    BY <1>1, <1>9, <2>1
  <2>3. /\ gap' \in [Job -> BOOLEAN] /\ gap'[j] = TRUE
        /\ \A k \in Job : k # j => gap'[k] = gap[k]
    BY <2>1, <2>2, UpdatedGap
  <2>4. JobFits(j, e, t, f, TRUE, r, n)
    BY <1>1, <1>2, GapFits
  <2>5. JobFits(j, e, t, f, TRUE, s, n)
    BY <1>1, <1>3, <1>6, <2>4, ReturnFits
  <2>6. /\ restoring' \in BOOLEAN /\ task' \in [Job -> [Manager!Ids -> TaskRecord]]
        /\ files' \in [Job -> Nat]
        /\ \A k \in Job : k # j => task'[k] = task[k] /\ files'[k] = files[k]
    BY <1>4, <1>9, Zenon DEF UploadsInv, UploadsTyped
  <2>7. JobFits(j, e, task'[j], files'[j], gap'[j], s, n)
    BY <1>2, <1>9, <2>3, <2>5
  <2>8. net' = n /\ \A q \in n : q.kind = "create" /\ q.job # j => q \in net
    BY <1>1, <1>9
  <2>9. Runs(run, j)
    BY <1>1
  <2>10. QED
    BY <1>3, <1>5, <2>3, <2>6, <2>7, <2>8, <2>9, StepOfRun
<1>10. QED
  BY <1>8, <1>9 DEF Manager!Undone

\* The next part or the completion is sent.
LEMMA ContinueFacts ==
    ASSUME NEW r \in RunRecord, run = r, RunShaped(r), NEW j \in Job, Runs(r, j),
           NEW i \in Manager!Ids,
           NEW p \in 0 .. Parts, NEW n \in SUBSET TaskRequest, Manager!Continue(i, p, n)
    PROVE  \E s \in RunRecord, m \in SUBSET TaskRequest :
              /\ run' = s /\ net' = m /\ RunShaped(s) /\ Runs(s, j) /\ s.job = j
              /\ s.pc \in {"part", "complete"} /\ s.known = r.known /\ s.id = i /\ s.parts = p
              /\ s.aborted = r.aborted /\ s.stale = r.stale
              /\ \A q \in m : q.kind = "create" => q \in n
<1>1. PICK c \in {"part", "complete"} : c = IF p < Parts THEN "part" ELSE "complete"
  OBVIOUS
<1>2. PICK k \in 0 .. Parts : k = IF p < Parts THEN p + 1 ELSE 0
  BY PartsNat
<1>3. PICK s \in RunRecord :
          /\ s = SendingRun(r, c, i, p) /\ s.pc = c /\ s.job = r.job /\ s.known = r.known
          /\ s.id = i /\ s.parts = p /\ s.aborted = r.aborted /\ s.stale = r.stale
  BY SendingFields
<1>4. r.job = j
  BY DEF Runs
<1>5. PICK q \in TaskRequest : q = Manager!Request(c, j, i, k) /\ q.kind = c
  BY RequestMade
<1>6. run' = s /\ net' = n \cup {q}
  BY <1>1, <1>2, <1>3, <1>4, <1>5 DEF Manager!Continue, SendingRun
<1>7. PICK m \in SUBSET TaskRequest : m = net' /\ \A x \in m : x.kind = "create" => x \in n
  BY <1>1, <1>5, <1>6
<1>8. i # 0 /\ (p < Parts <=> c = "part")
  BY <1>1, TwoIds
<1>9. RunShaped(s) /\ Runs(s, j)
  BY <1>1, <1>3, <1>4, <1>8 DEF RunShaped, Runs
<1>10. QED
  BY <1>1, <1>3, <1>4, <1>6, <1>7, <1>9

\* A task has been read or created by a run that was not aborted: x is the run that waited
\* for it, s the jobs, m the requests.
LEMMA ArrivedFits ==
    ASSUME UploadsInv, NEW j \in Job, NEW r \in RunRecord, r = run, Runs(r, j), ~r.aborted,
           RunShaped(r), NEW x \in RunRecord,
           Runs(x, j), x.pc \in {"lookup", "fetch"}, x.known = r.known, ~x.aborted,
           x.stale = r.stale,
           NEW i \in Manager!Ids, NEW e \in JobRecord, NEW m \in SUBSET TaskRequest,
           NEW u \in TaskRecord, NEW s, s = RunsOf(jobs, j, e), Manager!Arrived(i, u, s, m),
           \A q \in m : q.kind = "create" => q \in net,
           NEW t, NEW f, NEW g, t = task'[j], f = files'[j], g = gap'[j], u = t[i],
           i = 2 => Dead(t[1]), u.status # "none", JobFits(j, e, t, f, g, x, m),
           restoring' \in BOOLEAN,
           task' \in [Job -> [Manager!Ids -> TaskRecord]], files' \in [Job -> Nat],
           gap' \in [Job -> BOOLEAN],
           \A k \in Job : k # j => task'[k] = task[k] /\ files'[k] = files[k],
           \A k \in Job : k # j => gap'[k] = gap[k]
    PROVE  UploadsInv'
<1>1. u.parts \in 0 .. Parts /\ u.parts \in Nat
  BY TaskRecordFields
<1>2. ~g => \A q \in m : ~(q.kind = "create" /\ q.job = j)
  BY DEF JobFits, OpenIsKnown, Creates
<1>3. ~r.stale
  BY DEF RunShaped
<1>4. r.job = j
  BY DEF Runs
<1>5. e.phase \notin {"new", "gone", "complete", "cancelled"}
  BY DEF JobFits, ShownOfJob
<1>6. CASE u.status = "active" /\ u.parts = 0
  <2>1. Manager!Continue(i, 0, m) /\ jobs' = s
    BY <1>6 DEF Manager!Arrived
  <2>2. PICK y \in RunRecord, o \in SUBSET TaskRequest :
              /\ run' = y /\ net' = o /\ RunShaped(y) /\ Runs(y, j) /\ y.job = j
              /\ y.pc \in {"part", "complete"} /\ y.known = r.known /\ y.id = i /\ y.parts = 0
              /\ y.aborted = r.aborted /\ y.stale = r.stale
              /\ \A q \in o : q.kind = "create" => q \in m
    <3>1. 0 \in 0 .. Parts
      BY PartsNat
    <3>2. QED
      BY <2>1, <3>1, ContinueFacts
  <2>3. PartsSent(j, t, y)
    BY <1>6, <2>2 DEF PartsSent
  <2>4. JobFits(j, e, t, f, g, y, o)
    BY <1>2, <2>2, <2>3, GoesOnFits
  <2>5. QED
    BY <2>1, <2>2, <2>4, StepOfRun
<1>7. CASE u.status = "active" /\ u.parts # 0
  <2>1. run' = VerifyingRun(r, i, u.parts) /\ jobs' = s /\ net' = m
    BY <1>7 DEF Manager!Arrived, VerifyingRun
  <2>2. PICK y \in RunRecord :
            /\ y = run' /\ y.pc = "verify" /\ y.job = j /\ y.known = r.known
            /\ y.id = i /\ y.parts = u.parts /\ y.aborted = r.aborted /\ y.stale = r.stale
    BY <1>1, <1>4, <2>1, VerifyingFields
  <2>3. RunShaped(y) /\ Runs(y, j)
    BY <2>2, <1>3, TwoIds DEF RunShaped, Runs
  <2>4. PartsSent(j, t, y)
    BY <1>1, <1>7, <2>2 DEF PartsSent
  <2>5. JobFits(j, e, t, f, g, y, m)
    BY <1>2, <2>2, <2>3, <2>4, GoesOnFits
  <2>6. QED
    BY <2>1, <2>2, <2>3, <2>5, StepOfRun
<1>8. CASE u.status # "active"
  <2>1. /\ Manager!Returns /\ net' = m
        /\ jobs' = [s EXCEPT ![j].phase = IF u.status = "complete" THEN "complete" ELSE "error"]
    BY <1>4, <1>8 DEF Manager!Arrived
  <2>2. PICK y \in RunRecord : run' = y /\ y.pc = "idle" /\ RunShaped(y)
    BY <2>1, ReturnedRun
  <2>3. PICK p \in {"complete", "error"} :
            p = IF u.status = "complete" THEN "complete" ELSE "error"
    OBVIOUS
  <2>4. PICK d \in JobRecord :
            /\ d = PhasedAs(e, p) /\ d.phase = p /\ d.known = e.known
            /\ d.request = e.request /\ d.deleting = e.deleting
    BY PhasedFields
  <2>5. jobs' = RunsOf(jobs, j, d)
    <3>1. PICK F \in [Job -> JobRecord] : F = jobs
      BY DEF UploadsInv, UploadsTyped
    <3>2. LET G == RunsOf(F, j, e) IN
          G \in [Job -> JobRecord] /\ G[j] = e /\ \A k \in Job : k # j => G[k] = F[k]
      BY UpdatedJob
    <3>3. jobs' = [s EXCEPT ![j] = d]
      BY <2>1, <2>3, <2>4, <3>1, <3>2 DEF PhasedAs
    <3>4. [RunsOf(F, j, e) EXCEPT ![j] = d] = RunsOf(F, j, d)
      BY DEF RunsOf
    <3>5. QED
      BY <3>1, <3>3, <3>4
  <2>6. JobFits(j, d, t, f, g, y, m)
    <3>1. CASE p = "error"
      <4>1. ShownOfJob(j, d, t, x)
        BY <2>4, <3>1 DEF ShownOfJob
      <4>2. JobFits(j, d, t, f, g, x, m)
        BY <1>5, <2>4, <3>1, <4>1, PhaseFits
      <4>3. QED
        BY <1>2, <2>2, <2>4, <3>1, <4>2, ReturnFits
    <3>2. CASE p = "complete"
      <4>1. u.status = "complete"
        BY <2>3, <3>2
      <4>2. PICK v \in JobRecord :
                /\ v = PhasedAs(e, "saving") /\ v.phase = "saving" /\ v.known = e.known
                /\ v.request = e.request /\ v.deleting = e.deleting
        BY PhasedFields
      <4>3. ShownOfJob(j, v, t, x)
        BY <4>2 DEF ShownOfJob
      <4>4. JobFits(j, v, t, f, g, x, m)
        BY <1>5, <4>2, <4>3, PhaseFits
      <4>5. JobFits(j, v, t, f, g, y, m)
        BY <1>2, <2>2, <4>2, <4>4, ReturnFits
      <4>6. ~Runs(y, j)
        BY <2>2 DEF Runs
      <4>7. ShownOfJob(j, d, t, y)
        BY <2>4, <3>2, <4>1, <4>6 DEF ShownOfJob
      <4>8. QED
        BY <2>4, <3>2, <4>2, <4>5, <4>7, PhaseFits
    <3>3. QED
      BY <3>1, <3>2
  <2>7. \A q \in m : q.kind = "create" /\ q.job # j => q \in net
    OBVIOUS
  <2>8. QED
    BY <2>1, <2>2, <2>5, <2>6, <2>7, StepOfRun
<1>9. QED
  BY <1>6, <1>7, <1>8

LEMMA FetchedStep ==
    ASSUME UploadsInv, Manager!Fetched
    PROVE  UploadsInv'
<1>1. PICK j \in Job, e \in JobRecord, r \in RunRecord, n \in SUBSET TaskRequest :
      \E t \in {task[j]}, f \in {files[j]}, g \in {gap[j]} :
          /\ e = jobs[j] /\ r = run /\ t = task[j] /\ f = files[j] /\ g = gap[j] /\ n = net
          /\ RunShaped(r) /\ JobFits(j, e, t, f, g, r, n)
          /\ j = run.job /\ Runs(r, j) /\ e.phase # "new"
  BY OfRun DEF Manager!Fetched
<1>2. PICK t \in {task[j]}, f \in {files[j]}, g \in {gap[j]} :
          /\ t = task[j] /\ f = files[j] /\ g = gap[j] /\ JobFits(j, e, t, f, g, r, n)
  BY <1>1
<1>3. r.pc = "fetch" /\ ~r.aborted /\ r.known \in Manager!Ids
      /\ UNCHANGED <<task, restoring, files, gap>>
  BY <1>1, RunRecordFields, TwoIds DEF Manager!Fetched, RunShaped
<1>4. CASE Manager!Fails /\ UNCHANGED net
  BY <1>1, <1>3, <1>4, FailsStep
<1>5. CASE ~Manager!Alive(task[run.job][run.known]) /\ Manager!CreateTask
  BY <1>1, <1>3, <1>5, CreateTaskStep
<1>6. CASE /\ Manager!Alive(task[run.job][run.known])
           /\ Manager!Arrived(run.known, task[run.job][run.known], jobs, net)
  <2>1. PICK u \in TaskRecord : u = task[j][r.known] /\ u = t[r.known]
    BY <1>2, <1>3 DEF UploadsInv, UploadsTyped
  <2>2. /\ jobs = RunsOf(jobs, j, e) /\ Manager!Arrived(r.known, u, jobs, n)
        /\ u.status # "none"
    BY <1>1, <1>6, <2>1, SameJob DEF UploadsInv, Manager!Alive
  <2>3. r.known = 2 => Dead(t[1])
    BY <1>1, <1>2 DEF JobFits, SecondAfterFirst
  <2>4. /\ restoring' \in BOOLEAN /\ task' \in [Job -> [Manager!Ids -> TaskRecord]]
        /\ files' \in [Job -> Nat] /\ gap' \in [Job -> BOOLEAN]
    BY <1>3, Zenon DEF UploadsInv, UploadsTyped
  <2>5. /\ \A k \in Job : k # j => task'[k] = task[k] /\ files'[k] = files[k]
        /\ \A k \in Job : k # j => gap'[k] = gap[k]
        /\ t = task'[j] /\ f = files'[j] /\ g = gap'[j]
    BY <1>2, <1>3, Zenon
  <2>6. \A q \in n : q.kind = "create" => q \in net
    BY <1>1
  <2>7. QED
    BY <1>1, <1>2, <1>3, <2>1, <2>2, <2>3, <2>4, <2>5, <2>6, ArrivedFits
<1>7. QED
  BY <1>4, <1>5, <1>6 DEF Manager!Fetched

LEMMA CreatedStep ==
    ASSUME UploadsInv, Manager!Created
    PROVE  UploadsInv'
<1>1. PICK j \in Job, e \in JobRecord, r \in RunRecord, n \in SUBSET TaskRequest :
      \E t \in {task[j]}, f \in {files[j]}, g \in {gap[j]} :
          /\ e = jobs[j] /\ r = run /\ t = task[j] /\ f = files[j] /\ g = gap[j] /\ n = net
          /\ RunShaped(r) /\ JobFits(j, e, t, f, g, r, n)
          /\ j = run.job /\ Runs(r, j) /\ e.phase # "new"
  BY OfRun DEF Manager!Created
<1>2. PICK t \in {task[j]}, f \in {files[j]}, g \in {gap[j]} :
          /\ t = task[j] /\ f = files[j] /\ g = gap[j] /\ JobFits(j, e, t, f, g, r, n)
  BY <1>1
<1>3. /\ r.pc = "create" /\ Manager!Awaited \in n /\ Manager!Served(Manager!Awaited)
      /\ UNCHANGED <<restoring, gap>>
  BY <1>1 DEF Manager!Created
<1>4. PICK i \in Manager!Ids : i = r.id
  BY <1>1, <1>3, RunRecordFields, TwoIds DEF RunShaped
<1>5. PICK q \in TaskRequest : /\ q = Manager!Request("create", j, i, 0) /\ q = Manager!Awaited
                               /\ q.kind = "create" /\ q.job = j /\ q.id = i
  <2>1. Manager!Awaited = Manager!Request("create", j, i, 0)
    BY <1>1, <1>3, <1>4 DEF Manager!Awaited
  <2>2. 0 \in 0 .. Parts
    BY PartsNat
  <2>3. QED
    BY <2>1, <2>2, RequestMade
<1>6. PICK m \in SUBSET TaskRequest : m = n \ {q} /\ \A k \in m : k \in n
  OBVIOUS
<1>7. ~g => \A k \in m : ~(k.kind = "create" /\ k.job = j)
  <2>1. SUFFICES ASSUME ~g, NEW k \in m, k.kind = "create", k.job = j
                 PROVE  FALSE
    OBVIOUS
  <2>2. k.part = 0 /\ Creates(r, j, k.id) /\ k \in TaskRequest
    BY <1>2, <1>6, <2>1 DEF JobFits, OpenIsKnown
  <2>3. k.id = i
    BY <1>4, <2>2 DEF Creates
  <2>4. k = q
    BY <1>5, <2>1, <2>2, <2>3, RequestIs
  <2>5. QED
    BY <1>6, <2>4
<1>8. PICK t2, f2, kd, p : t2 = task'[j] /\ f2 = files'[j] /\ kd = q.kind /\ p = q.part
  OBVIOUS
<1>9. /\ TaskMoves(t, t2, f, f2, i, kd, p)
      /\ task' \in [Job -> [Manager!Ids -> TaskRecord]] /\ files' \in [Job -> Nat]
      /\ \A k \in Job : k # j => task'[k] = task[k] /\ files'[k] = files[k]
  BY <1>2, <1>3, <1>5, <1>8, ServedFacts DEF UploadsInv, TaskMoves
<1>10. /\ restoring' \in BOOLEAN /\ gap' \in [Job -> BOOLEAN] /\ g = gap'[j]
       /\ \A k \in Job : k # j => gap'[k] = gap[k]
  BY <1>2, <1>3, Zenon DEF UploadsInv, UploadsTyped
<1>11. PICK d \in JobRecord :
           /\ d.known = IF e.phase # "gone" /\ ~r.stale THEN i ELSE e.known
           /\ d.phase = e.phase /\ d.request = e.request /\ d.deleting = e.deleting
           /\ d.file = e.file
           /\ d = IF e.phase # "gone" /\ ~r.stale THEN KnownAs(e, i) ELSE e
  <2>1. CASE e.phase # "gone" /\ ~r.stale
    BY <2>1, KnownFields
  <2>2. CASE ~(e.phase # "gone" /\ ~r.stale)
    BY <2>2
  <2>3. QED
    BY <2>1, <2>2
<1>12. PICK x \in RunRecord :
           /\ x.pc = IF e.phase = "cancelled" /\ ~r.stale THEN "undo" ELSE "lookup"
           /\ x.job = r.job /\ x.id = i /\ x.known = r.known
           /\ x.aborted = r.aborted /\ x.stale = r.stale
           /\ e.phase = "cancelled" /\ ~r.stale => x = RunWith(r, "undo", i)
  <2>1. CASE e.phase = "cancelled" /\ ~r.stale
    BY <2>1, RunWithFields
  <2>2. CASE ~(e.phase = "cancelled" /\ ~r.stale)
    BY <1>4, <2>2, RunAtFields
  <2>3. QED
    BY <2>1, <2>2
<1>13. JobFits(j, d, t2, f2, g, x, m)
  <2>1. r.stale => r.aborted
    BY <1>1 DEF RunShaped
  <2>2. e.known \in {0, 1, 2} /\ r.known \in {0, 1, 2} /\ kd = "create"
    BY <1>5, <1>8, JobRecordFields, RunRecordFields
  <2>3. \A k \in m : k.kind = "create" /\ k.job = j => k \in n
    BY <1>6
  <2>4. QED
    BY <1>1, <1>2, <1>3, <1>4, <1>7, <1>9, <1>11, <1>12, <2>1, <2>2, <2>3, CreatedFits
<1>14. Runs(x, j) /\ r.job = j /\ i # 0
  BY <1>1, <1>12, TwoIds DEF Runs
<1>15. \A k \in m : k.kind = "create" => k \in net
  BY <1>1, <1>6
<1>16. CASE r.stale
  <2>1. /\ Manager!Returns /\ net' = m /\ jobs' = jobs
    BY <1>1, <1>5, <1>6, <1>16 DEF Manager!Created
  <2>2. PICK y \in RunRecord : run' = y /\ y.pc = "idle" /\ RunShaped(y)
    BY <2>1, ReturnedRun
  <2>3. jobs' = RunsOf(jobs, j, d)
    BY <1>1, <1>11, <1>16, <2>1, SameJob DEF UploadsInv
  <2>4. d.phase \notin {"hashing", "uploading"}
    BY <1>1, <1>2, <1>11, <1>16 DEF JobFits, ShownOfJob, RunShaped
  <2>5. x.pc # "undo"
    BY <1>12, <1>16
  <2>6. JobFits(j, d, t2, f2, g, y, m)
    BY <1>7, <1>13, <1>14, <2>2, <2>4, <2>5, ReturnFits
  <2>7. QED
    BY <1>1, <1>8, <1>9, <1>10, <1>15, <2>1, <2>2, <2>3, <2>6, StepOfRun
<1>17. CASE ~r.stale
  <2>1. PICK s : s = RunsOf(jobs, j, d)
    OBVIOUS
  <2>2. s[j] = d
    <3>1. PICK F \in [Job -> JobRecord] : F = jobs
      BY DEF UploadsInv, UploadsTyped
    <3>2. RunsOf(F, j, d)[j] = d
      BY DEF RunsOf
    <3>3. QED
      BY <2>1, <3>1, <3>2
  <2>3. Manager!Arrived(i, task'[j][i], s, m)
    <3>1. s = IF Manager!Listed(j) THEN [jobs EXCEPT ![j].known = i] ELSE jobs
      <4>1. CASE e.phase = "gone"
        BY <1>1, <1>11, <2>1, <4>1, SameJob DEF UploadsInv, Manager!Listed
      <4>2. CASE e.phase # "gone"
        BY <1>1, <1>11, <1>17, <2>1, <4>2 DEF Manager!Listed, RunsOf, KnownAs
      <4>3. QED
        BY <4>1, <4>2
    <3>2. Manager!Arrived(run.id, task'[run.job][run.id],
                          IF Manager!Listed(run.job) THEN [jobs EXCEPT ![run.job].known = run.id]
                          ELSE jobs,
                          net \ {Manager!Awaited})
      BY <1>1, <1>17 DEF Manager!Created
    <3>3. QED
      BY <1>1, <1>4, <1>5, <1>6, <3>1, <3>2
  <2>4. CASE r.aborted /\ e.phase = "cancelled"
    <3>1. /\ run' = x /\ jobs' = s
          /\ net' = m \cup {Manager!Request("delete", j, i, 0)}
      BY <1>1, <1>11, <1>12, <1>17, <2>2, <2>3, <2>4 DEF Manager!Arrived, RunWith
    <3>2. PICK k \in TaskRequest : /\ k = Manager!Request("delete", j, i, 0)
                                   /\ k.kind = "delete"
      <4>1. 0 \in 0 .. Parts
        BY PartsNat
      <4>2. QED
        BY <4>1, RequestMade
    <3>3. PICK o \in SUBSET TaskRequest :
              o = net' /\ \A z \in o : z.kind = "create" => z \in m
      BY <3>1, <3>2
    <3>4. JobFits(j, d, t2, f2, g, x, o)
      BY <1>13, <3>3, OtherRequests
    <3>5. RunShaped(x) /\ x.job = j
      BY <1>12, <1>14, <1>17, <2>4 DEF RunShaped
    <3>6. JobFits(j, d, task'[j], files'[j], gap'[j], x, o)
      BY <1>8, <1>10, <3>4
    <3>7. jobs' = RunsOf(jobs, j, d) /\ run' = x /\ net' = o /\ Runs(run, j)
      BY <1>1, <2>1, <3>1, <3>3
    <3>8. \A z \in o : z.kind = "create" /\ z.job # j => z \in net
      BY <1>15, <3>3
    <3>9. QED
      BY <1>9, <1>10, <3>5, <3>6, <3>7, <3>8, StepOfRun
  <2>5. CASE r.aborted /\ e.phase # "cancelled"
    <3>1. Manager!Returns /\ jobs' = s /\ net' = m
      BY <1>1, <1>11, <2>2, <2>3, <2>5 DEF Manager!Arrived
    <3>2. PICK y \in RunRecord : run' = y /\ y.pc = "idle" /\ RunShaped(y)
      BY <3>1, ReturnedRun
    <3>3. d.phase \notin {"hashing", "uploading"}
      BY <1>2, <1>11, <2>5 DEF JobFits, ShownOfJob
    <3>4. x.pc # "undo"
      BY <1>12, <2>5
    <3>5. JobFits(j, d, t2, f2, g, y, m)
      BY <1>7, <1>13, <1>14, <3>2, <3>3, <3>4, ReturnFits
    <3>6. QED
      BY <1>1, <1>8, <1>9, <1>10, <1>15, <2>1, <3>1, <3>2, <3>5, StepOfRun
  <2>6. CASE ~r.aborted
    <3>1. e.phase # "cancelled"
      BY <1>1, <1>2, <2>6 DEF JobFits, ShownOfJob
    <3>2. x.pc = "lookup" /\ ~x.aborted
      BY <1>12, <2>6, <3>1
    <3>3. PICK u \in TaskRecord : u = task'[j][i] /\ u = t2[i]
      BY <1>8, <1>9
    <3>4. u.status # "none"
      BY <1>5, <1>8, <1>9, <3>3 DEF TaskMoves, Moved
    <3>5. i = 2 => Dead(t2[1])
      BY <1>13, <1>12, <1>14 DEF JobFits, SecondAfterFirst
    <3>6. r = run /\ Runs(r, j) /\ RunShaped(r)
      BY <1>1
    <3>7. x.known = r.known /\ x.stale = r.stale /\ x.pc \in {"lookup", "fetch"}
      BY <1>12, <3>2
    <3>8. Manager!Arrived(i, u, s, m)
      BY <2>3, <3>3
    <3>9. QED
      BY <1>8, <1>9, <1>10, <1>13, <1>14, <1>15, <2>1, <2>6, <3>2, <3>3, <3>4, <3>5, <3>6, <3>7,
         <3>8, ArrivedFits
  <2>7. QED
    BY <2>4, <2>5, <2>6
<1>18. QED
  BY <1>16, <1>17

\* The job is shown as saving, or as before.
LEMMA SavedFits ==
    ASSUME UploadsInv, NEW j \in Job, jobs' = Manager!Phase(j, "saving") \/ jobs' = jobs,
           NEW e \in JobRecord, e = jobs[j], NEW t, NEW f, NEW g, NEW r, NEW n,
           JobFits(j, e, t, f, g, r, n)
    PROVE  \E d \in JobRecord : /\ jobs' = RunsOf(jobs, j, d) /\ JobFits(j, d, t, f, g, r, n)
                                /\ d = e \/ d.phase = "saving"
<1>1. CASE jobs' = jobs
  <2>1. jobs' = RunsOf(jobs, j, e)
    BY <1>1, SameJob DEF UploadsInv
  <2>2. QED
    BY <2>1
<1>2. CASE jobs' = Manager!Phase(j, "saving")
  <2>1. jobs' = RunsOf(jobs, j, IF e.phase \notin {"new", "gone"}
                                THEN PhasedAs(e, "saving") ELSE e)
    BY <1>2, PhaseIs DEF UploadsInv
  <2>2. CASE e.phase \in {"new", "gone"}
    BY <2>1, <2>2
  <2>3. CASE e.phase \notin {"new", "gone"}
    <3>1. PICK d \in JobRecord :
              /\ d = PhasedAs(e, "saving") /\ d.phase = "saving" /\ d.known = e.known
              /\ d.request = e.request /\ d.deleting = e.deleting
      BY PhasedFields
    <3>2. ShownOfJob(j, d, t, r)
      BY <3>1 DEF ShownOfJob
    <3>3. JobFits(j, d, t, f, g, r, n)
      BY <2>3, <3>1, <3>2, PhaseFits
    <3>4. QED
      BY <2>1, <2>3, <3>1, <3>3
  <2>4. QED
    BY <2>2, <2>3
<1>3. QED
  BY <1>1, <1>2

\* The run goes on with p parts of its task on the server; m are the requests before.
LEMMA SendsStep ==
    ASSUME UploadsInv, NEW j \in Job, NEW r \in RunRecord, r = run, Runs(r, j), ~r.aborted,
           RunShaped(r), r.pc \in {"verify", "part", "check"}, NEW p \in 0 .. Parts,
           NEW m \in SUBSET TaskRequest, Manager!Continue(r.id, p, m),
           jobs' = Manager!Phase(j, "saving") \/ jobs' = jobs,
           \A q \in m : q.kind = "create" => q \in net,
           NEW e \in JobRecord, e = jobs[j],
           NEW t, NEW f, NEW g, t = task'[j], f = files'[j], g = gap'[j],
           t[r.id].status # "none", p <= t[r.id].parts, JobFits(j, e, t, f, g, r, m),
           restoring' \in BOOLEAN,
           task' \in [Job -> [Manager!Ids -> TaskRecord]], files' \in [Job -> Nat],
           gap' \in [Job -> BOOLEAN],
           \A k \in Job : k # j => task'[k] = task[k] /\ files'[k] = files[k],
           \A k \in Job : k # j => gap'[k] = gap[k]
    PROVE  UploadsInv'
<1>1. PICK i \in Manager!Ids : i = r.id
  BY RunRecordFields, TwoIds DEF RunShaped
<1>2. PICK s \in RunRecord, o \in SUBSET TaskRequest :
              /\ run' = s /\ net' = o /\ RunShaped(s) /\ Runs(s, j) /\ s.job = j
              /\ s.pc \in {"part", "complete"} /\ s.known = r.known /\ s.id = i /\ s.parts = p
              /\ s.aborted = r.aborted /\ s.stale = r.stale
              /\ \A q \in o : q.kind = "create" => q \in m
  BY <1>1, ContinueFacts
<1>3. PICK d \in JobRecord : jobs' = RunsOf(jobs, j, d) /\ JobFits(j, d, t, f, g, r, m)
  BY SavedFits
<1>4. ~g => \A q \in o : ~(q.kind = "create" /\ q.job = j)
  BY <1>2, <1>3 DEF JobFits, OpenIsKnown, Creates
<1>5. PartsSent(j, t, s)
  BY <1>1, <1>2 DEF PartsSent
<1>6. s.id = 2 => Dead(t[1])
  BY <1>1, <1>2, <1>3 DEF JobFits, SecondAfterFirst
<1>7. JobFits(j, d, t, f, g, s, o)
  BY <1>2, <1>3, <1>4, <1>5, <1>6, GoesOnFits
<1>8. \A q \in o : q.kind = "create" /\ q.job # j => q \in net
  BY <1>2
<1>9. QED
  BY <1>2, <1>3, <1>7, <1>8, StepOfRun

LEMMA QuietFacts ==
    ASSUME UploadsInv, UNCHANGED <<task, restoring, files, gap>>
    PROVE  /\ restoring' \in BOOLEAN /\ task' \in [Job -> [Manager!Ids -> TaskRecord]]
           /\ files' \in [Job -> Nat] /\ gap' \in [Job -> BOOLEAN]
           /\ \A j \in Job : task'[j] = task[j] /\ files'[j] = files[j]
           /\ \A j \in Job : gap'[j] = gap[j]
  BY Zenon DEF UploadsInv, UploadsTyped

LEMMA VerifiedStep ==
    ASSUME UploadsInv, Manager!Verified
    PROVE  UploadsInv'
<1>1. PICK j \in Job, e \in JobRecord, r \in RunRecord, n \in SUBSET TaskRequest :
      \E t \in {task[j]}, f \in {files[j]}, g \in {gap[j]} :
          /\ e = jobs[j] /\ r = run /\ t = task[j] /\ f = files[j] /\ g = gap[j] /\ n = net
          /\ RunShaped(r) /\ JobFits(j, e, t, f, g, r, n)
          /\ j = run.job /\ Runs(r, j) /\ e.phase # "new"
  BY OfRun DEF Manager!Verified
<1>2. PICK t \in {task[j]}, f \in {files[j]}, g \in {gap[j]} :
          /\ t = task[j] /\ f = files[j] /\ g = gap[j] /\ JobFits(j, e, t, f, g, r, n)
  BY <1>1
<1>3. r.pc = "verify" /\ UNCHANGED <<task, restoring, files, gap>>
  BY <1>1 DEF Manager!Verified
<1>4. CASE ~run.aborted /\ Manager!Fails /\ UNCHANGED net
  BY <1>1, <1>3, <1>4, FailsStep
<1>5. CASE /\ run.aborted /\ Manager!Returns /\ jobs' = Manager!Saving /\ UNCHANGED net
  <2>1. PICK s \in RunRecord : run' = s /\ s.pc = "idle" /\ RunShaped(s)
    BY <1>5, ReturnedRun
  <2>2. PICK d \in JobRecord : /\ jobs' = RunsOf(jobs, j, d) /\ JobFits(j, d, t, f, g, r, n)
                               /\ d = e \/ d.phase = "saving"
    <3>1. jobs' = Manager!Phase(j, "saving") \/ jobs' = jobs
      BY <1>1, <1>5 DEF Manager!Saving
    <3>2. QED
      BY <1>1, <1>2, <3>1, SavedFits
  <2>3. d.phase \notin {"hashing", "uploading"}
    BY <1>1, <1>5, <2>2 DEF JobFits, ShownOfJob
  <2>4. ~g => \A q \in n : ~(q.kind = "create" /\ q.job = j)
    BY <1>2, <1>3 DEF JobFits, OpenIsKnown, Creates
  <2>5. JobFits(j, d, t, f, g, s, n)
    BY <1>1, <1>3, <2>1, <2>2, <2>3, <2>4, ReturnFits
  <2>6. QED
    BY <1>1, <1>2, <1>3, <1>5, <2>1, <2>2, <2>5, QuietStepOfRun
<1>6. CASE ~run.aborted /\ Manager!Continue(run.id, run.parts, net) /\ jobs' = Manager!Saving
  <2>1. /\ ~r.aborted /\ Manager!Continue(r.id, r.parts, n) /\ r.parts \in 0 .. Parts
        /\ r = run /\ Runs(r, j) /\ RunShaped(r) /\ e = jobs[j]
        /\ \A q \in n : q.kind = "create" => q \in net
    BY <1>1, <1>6, RunRecordFields
  <2>2. jobs' = Manager!Phase(j, "saving") \/ jobs' = jobs
    BY <1>1, <1>6 DEF Manager!Saving
  <2>3. t[r.id].status # "none" /\ r.parts <= t[r.id].parts
    BY <1>1, <1>2, <1>3 DEF JobFits, PartsSent
  <2>4. /\ restoring' \in BOOLEAN /\ task' \in [Job -> [Manager!Ids -> TaskRecord]]
        /\ files' \in [Job -> Nat] /\ gap' \in [Job -> BOOLEAN]
        /\ \A k \in Job : task'[k] = task[k] /\ files'[k] = files[k]
        /\ \A k \in Job : gap'[k] = gap[k]
    BY <1>3, QuietFacts
  <2>5. t = task'[j] /\ f = files'[j] /\ g = gap'[j]
    BY <1>2, <2>4
  <2>6. QED
    BY <1>2, <1>3, <2>1, <2>2, <2>3, <2>4, <2>5, SendsStep
<1>7. QED
  BY <1>4, <1>5, <1>6 DEF Manager!Verified

LEMMA PartBreaksStep ==
    ASSUME UploadsInv, Manager!PartBreaks
    PROVE  UploadsInv'
<1>1. PICK j \in Job, e \in JobRecord, r \in RunRecord, n \in SUBSET TaskRequest :
      \E t \in {task[j]}, f \in {files[j]}, g \in {gap[j]} :
          /\ e = jobs[j] /\ r = run /\ t = task[j] /\ f = files[j] /\ g = gap[j] /\ n = net
          /\ RunShaped(r) /\ JobFits(j, e, t, f, g, r, n)
          /\ j = run.job /\ Runs(r, j) /\ e.phase # "new"
  BY OfRun DEF Manager!PartBreaks
<1>2. PICK t \in {task[j]}, f \in {files[j]}, g \in {gap[j]} :
          /\ t = task[j] /\ f = files[j] /\ g = gap[j] /\ JobFits(j, e, t, f, g, r, n)
  BY <1>1
<1>3. /\ r.pc = "part" /\ ~r.aborted
      /\ UNCHANGED <<net, task, restoring, files, gap>>
  BY <1>1 DEF Manager!PartBreaks
<1>4. CASE run.attempt = MaxAttempts - 1
  <2>1. Manager!Fails
    BY <1>4 DEF Manager!PartBreaks
  <2>2. QED
    BY <1>1, <1>3, <2>1, FailsStep
<1>5. CASE run.attempt # MaxAttempts - 1
  <2>1. PICK s \in RunRecord :
            /\ s = RunAt(r, "check") /\ s.pc = "check" /\ s.job = r.job /\ s.known = r.known
            /\ s.id = r.id /\ s.parts = r.parts /\ s.attempt = r.attempt
            /\ s.aborted = r.aborted /\ s.stale = r.stale
    BY RunAtFields
  <2>2. run' = s /\ jobs' = jobs
    BY <1>1, <1>5, <2>1 DEF Manager!PartBreaks, RunAt
  <2>3. RunShaped(s) /\ Runs(s, j) /\ s.job = j
    BY <1>1, <1>3, <2>1 DEF RunShaped, Runs
  <2>4. PartsSent(j, t, s)
    BY <1>1, <1>2, <1>3, <1>5, <2>1 DEF JobFits, PartsSent
  <2>5. ~g => \A q \in n : ~(q.kind = "create" /\ q.job = j)
    BY <1>2, <1>3 DEF JobFits, OpenIsKnown, Creates
  <2>6. s.id = 2 => Dead(t[1])
    BY <1>1, <1>2, <2>1 DEF JobFits, SecondAfterFirst
  <2>7. JobFits(j, e, t, f, g, s, n)
    BY <1>1, <1>2, <1>3, <2>1, <2>3, <2>4, <2>5, <2>6, GoesOnFits
  <2>8. jobs' = RunsOf(jobs, j, e)
    BY <1>1, <2>2, SameJob DEF UploadsInv
  <2>9. QED
    BY <1>1, <1>2, <1>3, <2>2, <2>3, <2>7, <2>8, QuietStepOfRun
<1>6. QED
  BY <1>4, <1>5

LEMMA CompleteBreaksStep ==
    ASSUME UploadsInv, Manager!CompleteBreaks
    PROVE  UploadsInv'
<1>1. PICK j \in Job, e \in JobRecord, r \in RunRecord, n \in SUBSET TaskRequest :
      \E t \in {task[j]}, f \in {files[j]}, g \in {gap[j]} :
          /\ e = jobs[j] /\ r = run /\ t = task[j] /\ f = files[j] /\ g = gap[j] /\ n = net
          /\ RunShaped(r) /\ JobFits(j, e, t, f, g, r, n)
          /\ j = run.job /\ Runs(r, j) /\ e.phase # "new"
  BY OfRun DEF Manager!CompleteBreaks
<1>2. PICK t \in {task[j]}, f \in {files[j]}, g \in {gap[j]} :
          /\ t = task[j] /\ f = files[j] /\ g = gap[j] /\ JobFits(j, e, t, f, g, r, n)
  BY <1>1
<1>3. /\ r.pc = "complete" /\ ~r.aborted
      /\ UNCHANGED <<jobs, net, task, restoring, files, gap>>
  BY <1>1 DEF Manager!CompleteBreaks
<1>4. PICK s \in RunRecord :
          /\ s = RunAt(r, "lookup") /\ s.pc = "lookup" /\ s.job = r.job /\ s.known = r.known
          /\ s.id = r.id /\ s.parts = r.parts /\ s.attempt = r.attempt
          /\ s.aborted = r.aborted /\ s.stale = r.stale
  BY RunAtFields
<1>5. run' = s
  BY <1>1, <1>4 DEF Manager!CompleteBreaks, RunAt
<1>6. RunShaped(s) /\ Runs(s, j) /\ s.job = j
  BY <1>1, <1>3, <1>4 DEF RunShaped, Runs
<1>7. ~g => \A q \in n : ~(q.kind = "create" /\ q.job = j)
  BY <1>2, <1>3 DEF JobFits, OpenIsKnown, Creates
<1>8. s.id = 2 => Dead(t[1])
  BY <1>1, <1>2, <1>4 DEF JobFits, SecondAfterFirst
<1>9. PartsSent(j, t, s)
  BY <1>4 DEF PartsSent
<1>10. JobFits(j, e, t, f, g, s, n)
  BY <1>1, <1>2, <1>3, <1>4, <1>6, <1>7, <1>8, <1>9, GoesOnFits
<1>11. jobs' = RunsOf(jobs, j, e)
  BY <1>1, <1>3, SameJob DEF UploadsInv
<1>12. QED
  BY <1>1, <1>2, <1>3, <1>5, <1>6, <1>10, <1>11, QuietStepOfRun

LEMMA PartAnsweredStep ==
    ASSUME UploadsInv, Manager!PartAnswered
    PROVE  UploadsInv'
<1>1. PICK j \in Job, e \in JobRecord, r \in RunRecord, n \in SUBSET TaskRequest :
      \E t \in {task[j]}, f \in {files[j]}, g \in {gap[j]} :
          /\ e = jobs[j] /\ r = run /\ t = task[j] /\ f = files[j] /\ g = gap[j] /\ n = net
          /\ RunShaped(r) /\ JobFits(j, e, t, f, g, r, n)
          /\ j = run.job /\ Runs(r, j) /\ e.phase # "new"
  BY OfRun DEF Manager!PartAnswered
<1>2. PICK t \in {task[j]}, f \in {files[j]}, g \in {gap[j]} :
          /\ t = task[j] /\ f = files[j] /\ g = gap[j] /\ JobFits(j, e, t, f, g, r, n)
  BY <1>1
<1>3. /\ r.pc = "part" /\ ~r.aborted /\ Manager!Awaited \in n
      /\ Manager!Served(Manager!Awaited) /\ UNCHANGED <<restoring, gap>>
  BY <1>1 DEF Manager!PartAnswered
<1>4. PICK i \in Manager!Ids : i = r.id
  BY <1>1, <1>3, RunRecordFields, TwoIds DEF RunShaped
<1>5. PICK p \in 0 .. Parts : p = r.parts + 1
  <2>1. r.parts \in Nat /\ r.parts < Parts
    BY <1>1, <1>3, RunRecordFields DEF RunShaped
  <2>2. QED
    BY <2>1, PartsNat
<1>6. PICK q \in TaskRequest : /\ q = Manager!Request("part", j, i, p) /\ q = Manager!Awaited
                               /\ q.kind = "part" /\ q.job = j /\ q.id = i /\ q.part = p
  <2>1. Manager!Awaited = Manager!Request("part", j, i, p)
    BY <1>1, <1>3, <1>4, <1>5 DEF Manager!Awaited
  <2>2. QED
    BY <2>1, RequestMade
<1>7. PICK m \in SUBSET TaskRequest : m = n \ {q} /\ \A k \in m : k \in n
  OBVIOUS
<1>8. PICK t2, f2 : t2 = task'[j] /\ f2 = files'[j]
  OBVIOUS
<1>9. /\ task' \in [Job -> [Manager!Ids -> TaskRecord]] /\ files' \in [Job -> Nat]
      /\ \A k \in Job : k # j => task'[k] = task[k] /\ files'[k] = files[k]
      /\ Moved(t[i], t2[i], "part", p)
  BY <1>2, <1>3, <1>6, <1>8, ServedFacts DEF UploadsInv
<1>10. JobFits(j, e, t2, f2, g, r, n)
  BY <1>1, <1>2, <1>3, <1>6, <1>8, ServedFits
<1>11. JobFits(j, e, t2, f2, g, r, m)
  BY <1>7, <1>10, OtherRequests
<1>12. /\ restoring' \in BOOLEAN /\ gap' \in [Job -> BOOLEAN] /\ g = gap'[j]
       /\ \A k \in Job : k # j => gap'[k] = gap[k]
  BY <1>2, <1>3, Zenon DEF UploadsInv, UploadsTyped
<1>13. /\ t[i].status # "none" /\ r.parts <= t[i].parts
       /\ t2[i].status # "none" /\ r.parts <= t2[i].parts
  BY <1>1, <1>2, <1>3, <1>4, <1>10 DEF JobFits, PartsSent
<1>14. \A k \in m : k.kind = "create" => k \in net
  BY <1>1, <1>7
<1>15. CASE t2[i].status = "active" /\ t2[i].parts = p
  <2>1. Manager!Continue(i, p, m)
        /\ (jobs' = Manager!Phase(j, "saving") \/ jobs' = jobs)
    BY <1>1, <1>4, <1>5, <1>6, <1>7, <1>8, <1>15
    DEF Manager!PartAnswered, Manager!Sent
  <2>2. /\ r = run /\ Runs(r, j) /\ RunShaped(r) /\ e = jobs[j]
        /\ r.pc \in {"verify", "part", "check"}
    BY <1>1, <1>3
  <2>3. t2[r.id].status # "none" /\ p <= t2[r.id].parts
    BY <1>4, <1>13, <1>15
  <2>4. Manager!Continue(r.id, p, m)
    BY <1>4, <2>1
  <2>5. QED
    BY <1>3, <1>8, <1>9, <1>11, <1>12, <1>14, <2>1, <2>2, <2>3, <2>4, SendsStep
<1>16. CASE ~(t2[i].status = "active" /\ t2[i].parts = p)
  <2>1. run' = [run EXCEPT !.pc = "check"] /\ net' = m /\ UNCHANGED jobs
    BY <1>1, <1>4, <1>5, <1>6, <1>7, <1>8, <1>16 DEF Manager!PartAnswered
  <2>2. PICK s \in RunRecord :
            /\ s = RunAt(r, "check") /\ s.pc = "check" /\ s.job = r.job /\ s.known = r.known
            /\ s.id = r.id /\ s.parts = r.parts /\ s.attempt = r.attempt
            /\ s.aborted = r.aborted /\ s.stale = r.stale
    BY RunAtFields
  <2>3. run' = s /\ Runs(s, j) /\ s.job = j
    BY <1>1, <2>1, <2>2 DEF RunAt, Runs
  <2>4. RunShaped(s)
    BY <1>1, <1>3, <2>2 DEF RunShaped
  <2>5. t2[i].status = "active" => t2[i].parts > r.parts
    <3>1. SUFFICES ASSUME t2[i].status = "active" PROVE t2[i].parts > r.parts
      OBVIOUS
    <3>2. t[i].status = "active" /\ t[i].parts \in Nat /\ t2[i].parts \in Nat
          /\ t[i].parts <= t2[i].parts
      BY <1>9, <1>13, <3>1 DEF Moved
    <3>3. t[i].parts # r.parts
      <4>1. SUFFICES ASSUME t[i].parts = r.parts PROVE FALSE
        OBVIOUS
      <4>2. p = t[i].parts + 1
        BY <1>5, <4>1
      <4>3. t2[i].parts = p
        BY <1>9, <3>2, <4>2 DEF Moved
      <4>4. QED
        BY <1>16, <3>1, <4>3
    <3>4. r.parts \in Nat
      BY RunRecordFields
    <3>5. QED
      BY <1>13, <3>2, <3>3, <3>4
  <2>6. PartsSent(j, t2, s)
    BY <1>4, <1>13, <2>2, <2>5 DEF PartsSent
  <2>7. ~g => \A k \in m : ~(k.kind = "create" /\ k.job = j)
    BY <1>3, <1>11 DEF JobFits, OpenIsKnown, Creates
  <2>8. s.id = 2 => Dead(t2[1])
    BY <1>1, <1>10, <2>2 DEF JobFits, SecondAfterFirst
  <2>9. JobFits(j, e, t2, f2, g, s, m)
    BY <1>1, <1>3, <1>11, <2>2, <2>3, <2>6, <2>7, <2>8, GoesOnFits
  <2>10. jobs' = RunsOf(jobs, j, e)
    BY <1>1, <2>1, SameJob DEF UploadsInv
  <2>11. /\ JobFits(j, e, task'[j], files'[j], gap'[j], s, m) /\ Runs(run, j) /\ net' = m
         /\ \A k \in m : k.kind = "create" /\ k.job # j => k \in net
    BY <1>1, <1>8, <1>12, <1>14, <2>1, <2>9
  <2>12. QED
    BY <1>9, <1>12, <2>3, <2>4, <2>10, <2>11, StepOfRun
<1>17. QED
  BY <1>15, <1>16

LEMMA CheckedStep ==
    ASSUME UploadsInv, Manager!Checked
    PROVE  UploadsInv'
<1>1. PICK j \in Job, e \in JobRecord, r \in RunRecord, n \in SUBSET TaskRequest :
      \E t \in {task[j]}, f \in {files[j]}, g \in {gap[j]} :
          /\ e = jobs[j] /\ r = run /\ t = task[j] /\ f = files[j] /\ g = gap[j] /\ n = net
          /\ RunShaped(r) /\ JobFits(j, e, t, f, g, r, n)
          /\ j = run.job /\ Runs(r, j) /\ e.phase # "new"
  BY OfRun DEF Manager!Checked
<1>2. PICK t \in {task[j]}, f \in {files[j]}, g \in {gap[j]} :
          /\ t = task[j] /\ f = files[j] /\ g = gap[j] /\ JobFits(j, e, t, f, g, r, n)
  BY <1>1
<1>3. r.pc = "check" /\ ~r.aborted /\ UNCHANGED <<task, restoring, files, gap>>
  BY <1>1 DEF Manager!Checked
<1>4. PICK i \in Manager!Ids : i = r.id
  BY <1>1, <1>3, RunRecordFields, TwoIds DEF RunShaped
<1>5. PICK p \in 0 .. Parts : p = r.parts + 1
  <2>1. r.parts \in Nat /\ r.parts < Parts
    BY <1>1, <1>3, RunRecordFields DEF RunShaped
  <2>2. QED
    BY <2>1, PartsNat
<1>6. t[i] \in TaskRecord
  BY <1>2 DEF UploadsInv, UploadsTyped
<1>7. /\ t[i].status # "none" /\ r.parts <= t[i].parts
      /\ r.attempt = MaxAttempts - 1 /\ t[i].status = "active" => t[i].parts > r.parts
  BY <1>1, <1>2, <1>3, <1>4 DEF JobFits, PartsSent
<1>8. CASE Manager!Fails /\ UNCHANGED net
  BY <1>1, <1>3, <1>8, FailsStep
<1>9. CASE t[i].parts > r.parts /\ Manager!Sent(net)
  <2>1. Manager!Continue(i, p, n) /\ (jobs' = Manager!Phase(j, "saving") \/ jobs' = jobs)
    BY <1>1, <1>4, <1>5, <1>9 DEF Manager!Sent
  <2>2. /\ r = run /\ Runs(r, j) /\ RunShaped(r) /\ e = jobs[j]
        /\ r.pc \in {"verify", "part", "check"} /\ \A q \in n : q.kind = "create" => q \in net
    BY <1>1, <1>3
  <2>3. t[r.id].status # "none" /\ p <= t[r.id].parts
    <3>1. t[i].parts \in Nat /\ r.parts \in Nat
      BY <1>6, TaskRecordFields, RunRecordFields
    <3>2. QED
      BY <1>4, <1>5, <1>7, <1>9, <3>1
  <2>4. Manager!Continue(r.id, p, n)
    BY <1>4, <2>1
  <2>5. /\ restoring' \in BOOLEAN /\ task' \in [Job -> [Manager!Ids -> TaskRecord]]
        /\ files' \in [Job -> Nat] /\ gap' \in [Job -> BOOLEAN]
        /\ \A k \in Job : task'[k] = task[k] /\ files'[k] = files[k]
        /\ \A k \in Job : gap'[k] = gap[k]
    BY <1>3, QuietFacts
  <2>6. t = task'[j] /\ f = files'[j] /\ g = gap'[j]
    BY <1>2, <2>5
  <2>7. QED
    BY <1>2, <1>3, <2>1, <2>2, <2>3, <2>4, <2>5, <2>6, SendsStep
<1>10. CASE /\ t[i].status = "active" /\ t[i].parts = r.parts
            /\ run' = [run EXCEPT !.pc = "part", !.attempt = run.attempt + 1]
            /\ net' = net \cup {Manager!Request("part", j, i, p)}
            /\ UNCHANGED jobs
  <2>1. r.attempt + 1 \in 0 .. MaxAttempts - 1
    <3>1. r.parts \in Nat /\ r.attempt \in 0 .. MaxAttempts - 1
      BY RunRecordFields
    <3>2. r.attempt # MaxAttempts - 1
      BY <1>7, <1>10, <3>1
    <3>3. QED
      BY <3>1, <3>2, PartsNat
  <2>2. PICK s \in RunRecord :
            /\ s = AgainRun(r) /\ s.pc = "part" /\ s.job = r.job /\ s.known = r.known
            /\ s.id = r.id /\ s.parts = r.parts /\ s.aborted = r.aborted /\ s.stale = r.stale
    BY <2>1, AgainFields
  <2>3. run' = s /\ Runs(s, j) /\ s.job = j
    BY <1>1, <1>10, <2>2 DEF AgainRun, Runs
  <2>4. RunShaped(s)
    BY <1>1, <1>3, <2>2 DEF RunShaped
  <2>5. PICK q \in TaskRequest : q = Manager!Request("part", j, i, p) /\ q.kind = "part"
    BY RequestMade
  <2>6. PICK m \in SUBSET TaskRequest : m = net' /\ \A k \in m : k.kind = "create" => k \in n
    BY <1>1, <1>10, <2>5
  <2>7. PartsSent(j, t, s)
    BY <1>4, <1>7, <2>2 DEF PartsSent
  <2>8. ~g => \A k \in m : ~(k.kind = "create" /\ k.job = j)
    BY <1>2, <1>3, <2>6 DEF JobFits, OpenIsKnown, Creates
  <2>9. s.id = 2 => Dead(t[1])
    BY <1>1, <1>2, <2>2 DEF JobFits, SecondAfterFirst
  <2>10. JobFits(j, e, t, f, g, s, m)
    BY <1>1, <1>2, <1>3, <2>2, <2>3, <2>6, <2>7, <2>8, <2>9, GoesOnFits
  <2>11. jobs' = RunsOf(jobs, j, e)
    BY <1>1, <1>10, SameJob DEF UploadsInv
  <2>12. QED
    BY <1>1, <1>2, <1>3, <2>3, <2>4, <2>6, <2>10, <2>11, QuietStepOfRun
<1>11. QED
  BY <1>1, <1>2, <1>4, <1>5, <1>8, <1>9, <1>10 DEF Manager!Checked

LEMMA FinishesStep ==
    ASSUME UploadsInv, NEW j \in Job, NEW r \in RunRecord, r = run, Runs(r, j), j = r.job,
           r.pc # "create", r.id # 0, Manager!Finishes,
           NEW m \in SUBSET TaskRequest, m = net', \A q \in m : q \in net,
           NEW e \in JobRecord, e = jobs[j],
           NEW t, NEW f, NEW g, t = task'[j], f = files'[j], g = gap'[j],
           t[r.id].status = "complete", JobFits(j, e, t, f, g, r, net),
           restoring' \in BOOLEAN,
           task' \in [Job -> [Manager!Ids -> TaskRecord]], files' \in [Job -> Nat],
           gap' \in [Job -> BOOLEAN],
           \A k \in Job : k # j => task'[k] = task[k] /\ files'[k] = files[k],
           \A k \in Job : k # j => gap'[k] = gap[k]
    PROVE  UploadsInv'
<1>1. PICK i \in Manager!Ids : i = r.id
  BY RunRecordFields, TwoIds
<1>2. PICK s \in RunRecord : run' = s /\ s.pc = "idle" /\ RunShaped(s)
  BY ReturnedRun DEF Manager!Finishes
<1>3. PICK F \in [Job -> JobRecord] : F = jobs
  BY DEF UploadsInv, UploadsTyped
<1>4. PICK G : G = Manager!Phase(j, "complete")
  OBVIOUS
<1>5. jobs' = [G EXCEPT ![j].known = i]
  BY <1>1, <1>4 DEF Manager!Finishes
<1>6. PICK c \in JobRecord :
          /\ c = IF e.phase \notin {"new", "gone"} THEN PhasedAs(e, "complete") ELSE e
          /\ c.phase = IF e.phase \notin {"new", "gone"} THEN "complete" ELSE e.phase
          /\ c.request = e.request /\ c.deleting = e.deleting
  BY PhasedFields
<1>7. G = RunsOf(F, j, c)
  BY <1>3, <1>4, <1>6, PhaseIs DEF UploadsInv
<1>8. PICK d \in JobRecord :
          /\ d = KnownAs(c, i) /\ d.phase = c.phase /\ d.known = i
          /\ d.request = c.request /\ d.deleting = c.deleting
  BY KnownFields
<1>9. G \in [Job -> JobRecord] /\ G[j] = c
  BY <1>7 DEF RunsOf
<1>10. jobs' = RunsOf(G, j, d)
  BY <1>5, <1>8, <1>9 DEF RunsOf, KnownAs
<1>11. RunsOf(G, j, d) = RunsOf(F, j, d)
  BY <1>7 DEF RunsOf
<1>12. JobFits(j, d, t, f, g, s, m)
  <2>1. t[r.id].status = "complete" /\ r.id \in Manager!Ids /\ d.known = r.id
    BY <1>1, <1>8
  <2>2. d.phase = IF e.phase \notin {"new", "gone"} THEN "complete" ELSE e.phase
    BY <1>6, <1>8
  <2>3. d.request = e.request /\ d.deleting = e.deleting
    BY <1>6, <1>8
  <2>4. QED
    BY <1>2, <2>1, <2>2, <2>3, FinishFits
<1>13. jobs' = RunsOf(jobs, j, d) /\ Runs(run, j) /\ net' = m
       /\ JobFits(j, d, task'[j], files'[j], gap'[j], s, m)
  BY <1>3, <1>10, <1>11, <1>12
<1>14. \A q \in m : q.kind = "create" /\ q.job # j => q \in net
  OBVIOUS
<1>15. QED
  BY <1>2, <1>13, <1>14, StepOfRun

LEMMA CompletedStep ==
    ASSUME UploadsInv, Manager!Completed
    PROVE  UploadsInv'
<1>1. PICK j \in Job, e \in JobRecord, r \in RunRecord, n \in SUBSET TaskRequest :
      \E t \in {task[j]}, f \in {files[j]}, g \in {gap[j]} :
          /\ e = jobs[j] /\ r = run /\ t = task[j] /\ f = files[j] /\ g = gap[j] /\ n = net
          /\ RunShaped(r) /\ JobFits(j, e, t, f, g, r, n)
          /\ j = run.job /\ Runs(r, j) /\ e.phase # "new"
  BY OfRun DEF Manager!Completed
<1>2. PICK t \in {task[j]}, f \in {files[j]}, g \in {gap[j]} :
          /\ t = task[j] /\ f = files[j] /\ g = gap[j] /\ JobFits(j, e, t, f, g, r, n)
  BY <1>1
<1>3. /\ r.pc = "complete" /\ ~r.aborted /\ Manager!Awaited \in n
      /\ Manager!Served(Manager!Awaited) /\ UNCHANGED <<restoring, gap>>
      /\ net' = n \ {Manager!Awaited}
  BY <1>1 DEF Manager!Completed
<1>4. PICK i \in Manager!Ids : i = r.id
  BY <1>1, <1>3, RunRecordFields, TwoIds DEF RunShaped
<1>5. PICK q \in TaskRequest : /\ q = Manager!Request("complete", j, i, 0)
                               /\ q = Manager!Awaited
                               /\ q.kind = "complete" /\ q.job = j /\ q.id = i
  <2>1. Manager!Awaited = Manager!Request("complete", j, i, 0)
    BY <1>1, <1>3, <1>4 DEF Manager!Awaited
  <2>2. 0 \in 0 .. Parts
    BY PartsNat
  <2>3. QED
    BY <2>1, <2>2, RequestMade
<1>6. PICK m \in SUBSET TaskRequest : m = net' /\ \A k \in m : k \in n
  BY <1>3
<1>7. PICK t2, f2 : t2 = task'[j] /\ f2 = files'[j]
  OBVIOUS
<1>8. /\ task' \in [Job -> [Manager!Ids -> TaskRecord]] /\ files' \in [Job -> Nat]
      /\ \A k \in Job : k # j => task'[k] = task[k] /\ files'[k] = files[k]
  BY <1>3, <1>5, ServedFacts DEF UploadsInv
<1>9. JobFits(j, e, t2, f2, g, r, n)
  BY <1>1, <1>2, <1>3, <1>5, <1>7, ServedFits
<1>10. /\ restoring' \in BOOLEAN /\ gap' \in [Job -> BOOLEAN] /\ g = gap'[j]
       /\ \A k \in Job : k # j => gap'[k] = gap[k]
  BY <1>2, <1>3, Zenon DEF UploadsInv, UploadsTyped
<1>11. /\ r = run /\ j = r.job /\ Runs(r, j) /\ Runs(run, j) /\ n = net /\ e = jobs[j]
       /\ r.id # 0
  BY <1>1, <1>4, TwoIds
<1>12. CASE t2[i].status = "complete"
  <2>1. Manager!Finishes
    BY <1>4, <1>7, <1>11, <1>12 DEF Manager!Completed
  <2>2. /\ t2 = task'[j] /\ f2 = files'[j] /\ t2[r.id].status = "complete"
        /\ JobFits(j, e, t2, f2, g, r, net) /\ r.pc # "create"
        /\ m = net' /\ \A k \in m : k \in net
    BY <1>3, <1>4, <1>6, <1>7, <1>9, <1>11, <1>12
  <2>3. QED
    BY <1>8, <1>10, <1>11, <2>1, <2>2, FinishesStep
<1>13. CASE t2[i].status # "complete"
  <2>1. run' = [run EXCEPT !.pc = "lookup"] /\ UNCHANGED jobs
    BY <1>4, <1>7, <1>11, <1>13 DEF Manager!Completed
  <2>2. PICK s \in RunRecord :
            /\ s = RunAt(r, "lookup") /\ s.pc = "lookup" /\ s.job = r.job /\ s.known = r.known
            /\ s.id = r.id /\ s.aborted = r.aborted /\ s.stale = r.stale
    BY RunAtFields
  <2>3. run' = s /\ Runs(s, j) /\ s.job = j
    BY <1>1, <2>1, <2>2 DEF RunAt, Runs
  <2>4. RunShaped(s)
    BY <1>1, <1>3, <2>2 DEF RunShaped
  <2>5. PartsSent(j, t2, s)
    BY <2>2 DEF PartsSent
  <2>6. ~g => \A k \in m : ~(k.kind = "create" /\ k.job = j)
    BY <1>3, <1>6, <1>9 DEF JobFits, OpenIsKnown, Creates
  <2>7. s.id = 2 => Dead(t2[1])
    BY <1>1, <1>9, <2>2 DEF JobFits, SecondAfterFirst
  <2>8. JobFits(j, e, t2, f2, g, s, m)
    BY <1>3, <1>6, <1>9, <1>11, <2>2, <2>3, <2>5, <2>6, <2>7, GoesOnFits
  <2>9. jobs' = RunsOf(jobs, j, e)
    BY <1>1, <2>1, SameJob DEF UploadsInv
  <2>10. /\ JobFits(j, e, task'[j], files'[j], gap'[j], s, m)
         /\ \A k \in m : k.kind = "create" /\ k.job # j => k \in net
    BY <1>6, <1>7, <1>10, <1>11, <2>8
  <2>11. QED
    BY <1>6, <1>8, <1>10, <1>11, <2>3, <2>4, <2>9, <2>10, StepOfRun
<1>14. QED
  BY <1>12, <1>13

LEMMA LookedUpStep ==
    ASSUME UploadsInv, Manager!LookedUp
    PROVE  UploadsInv'
<1>1. PICK j \in Job, e \in JobRecord, r \in RunRecord, n \in SUBSET TaskRequest :
      \E t \in {task[j]}, f \in {files[j]}, g \in {gap[j]} :
          /\ e = jobs[j] /\ r = run /\ t = task[j] /\ f = files[j] /\ g = gap[j] /\ n = net
          /\ RunShaped(r) /\ JobFits(j, e, t, f, g, r, n)
          /\ j = run.job /\ Runs(r, j) /\ e.phase # "new"
  BY OfRun DEF Manager!LookedUp
<1>2. PICK t \in {task[j]}, f \in {files[j]}, g \in {gap[j]} :
          /\ t = task[j] /\ f = files[j] /\ g = gap[j] /\ JobFits(j, e, t, f, g, r, n)
  BY <1>1
<1>3. r.pc = "lookup" /\ UNCHANGED <<net, task, restoring, files, gap>>
  BY <1>1 DEF Manager!LookedUp
<1>4. PICK i \in Manager!Ids : i = r.id
  BY <1>1, <1>3, RunRecordFields, TwoIds DEF RunShaped
<1>5. CASE Manager!Fails
  BY <1>1, <1>3, <1>5, FailsStep
<1>6. CASE run.stale /\ Manager!Returns /\ UNCHANGED jobs
  <2>1. PICK s \in RunRecord : run' = s /\ s.pc = "idle" /\ RunShaped(s)
    BY <1>6, ReturnedRun
  <2>2. e.phase \notin {"hashing", "uploading"}
    BY <1>1, <1>2, <1>6 DEF JobFits, ShownOfJob, RunShaped
  <2>3. ~g => \A q \in n : ~(q.kind = "create" /\ q.job = j)
    BY <1>2, <1>3 DEF JobFits, OpenIsKnown, Creates
  <2>4. JobFits(j, e, t, f, g, s, n)
    BY <1>1, <1>2, <1>3, <2>1, <2>2, <2>3, ReturnFits
  <2>5. jobs' = RunsOf(jobs, j, e)
    BY <1>1, <1>6, SameJob DEF UploadsInv
  <2>6. QED
    BY <1>1, <1>2, <1>3, <2>1, <2>4, <2>5, QuietStepOfRun
<1>7. CASE task[run.job][run.id].status = "complete" /\ Manager!Finishes
  <2>1. /\ restoring' \in BOOLEAN /\ task' \in [Job -> [Manager!Ids -> TaskRecord]]
        /\ files' \in [Job -> Nat] /\ gap' \in [Job -> BOOLEAN]
        /\ \A k \in Job : task'[k] = task[k] /\ files'[k] = files[k]
        /\ \A k \in Job : gap'[k] = gap[k]
    BY <1>3, QuietFacts
  <2>2. t = task'[j] /\ f = files'[j] /\ g = gap'[j]
    BY <1>2, <2>1
  <2>3. /\ r = run /\ j = r.job /\ Runs(r, j) /\ e = jobs[j] /\ r.id # 0 /\ r.pc # "create"
        /\ t[r.id].status = "complete" /\ JobFits(j, e, t, f, g, r, net)
    BY <1>1, <1>2, <1>3, <1>4, <1>7, TwoIds
  <2>4. n = net' /\ \A q \in n : q \in net
    BY <1>1, <1>3
  <2>5. QED
    BY <1>7, <2>1, <2>2, <2>3, <2>4, FinishesStep
<1>8. QED
  BY <1>5, <1>6, <1>7 DEF Manager!LookedUp

LEMMA UploadsStep ==
    ASSUME UploadsInv, [Manager!Next]_uploadVars
    PROVE  UploadsInv'
<1>1. CASE UNCHANGED uploadVars
  BY <1>1 DEF uploadVars, UploadsInv, UploadsTyped
<1>2. CASE Manager!User
  BY <1>2, EnqueueStep, PauseStep, ResumeStep, CancelStep, CancelAnsweredStep, CancelBreaksStep,
     DismissStep, ChangeUserStep, RestoreStep DEF Manager!User
<1>3. CASE Manager!Pump
  BY <1>3, PerformStep, UnwindStep, HashedStep, FetchedStep, CreatedStep, CreateBreaksStep,
     UndoneStep, VerifiedStep, ProgressStep, PartAnsweredStep, PartBreaksStep, CheckedStep,
     CompletedStep, CompleteBreaksStep, LookedUpStep DEF Manager!Pump
<1>4. CASE Manager!Server
  BY <1>4, ServeLateStep, ExpireStep DEF Manager!Server
<1>5. QED
  BY <1>1, <1>2, <1>3, <1>4 DEF Manager!Next

\* What the runs check of the upload manager follows.
LEMMA UploadsFollow ==
    ASSUME UploadsInv
    PROVE  /\ Manager!TypeOK /\ Manager!OneFilePerJob /\ Manager!CompleteIsSaved
           /\ Manager!CancelLeavesNothing /\ Manager!ShownIsWorkedOn
<1>1. \A j \in Job : JobFits(j, jobs[j], task[j], files[j], gap[j], run, net)
  BY DEF UploadsInv
<1>2. \A j \in Job : ShownOfJob(j, jobs[j], task[j], run)
  BY <1>1 DEF JobFits
<1>3. Manager!TypeOK
  BY <1>2 DEF UploadsInv, UploadsTyped, JobRecord, RunRecord, TaskRecord, ShownOfJob,
              Manager!TypeOK
<1>4. Manager!OneFilePerJob
  BY <1>1 DEF JobFits, FileOfTask, Manager!OneFilePerJob
<1>5. Manager!CompleteIsSaved
  BY <1>2 DEF ShownOfJob, Manager!CompleteIsSaved
<1>6. Manager!ShownIsWorkedOn
  BY <1>2 DEF ShownOfJob, Runs, Manager!Performing, Manager!ShownIsWorkedOn
<1>7. Manager!CancelLeavesNothing
  <2>1. \A j \in Job : OpenIsKnown(j, jobs[j], task[j], gap[j], run, net)
    BY <1>1 DEF JobFits
  <2>2. QED
    BY <2>1 DEF OpenIsKnown, Runs, Manager!Performing, Manager!CancelLeavesNothing
<1>8. QED
  BY <1>3, <1>4, <1>5, <1>6, <1>7

-----------------------------------------------------------------------------
(* The form of a ticket *)

SheetRecord ==
    [mode : {"closed", "shown", "editing"}, ticket : Ticket \cup {None}, revision : Nat,
     busy : BOOLEAN, marked : SUBSET Attachment]

PostRecord ==
    [kind : {"save", "act", "delete", "copy", "cancel"}, ticket : Ticket \cup {None},
     revision : Nat, files : SUBSET Attachment, deletes : SUBSET Attachment,
     awaited : BOOLEAN]

WishRecord == [marked : SUBSET Attachment, asked : SUBSET Attachment]

RowRecord == [row : {"none", "open", "gone"}, revision : Nat]

FateOf == {"none", "draft", "cancelled", "deleted"} \cup Ticket

FormTyped ==
    /\ sheet \in SheetRecord /\ pending \in [Attachment -> {"out", "waiting", "ready"}]
    /\ sending \in [Attachment -> {"none", "running", "complete", "error"}]
    /\ fate \in [Attachment -> FateOf] /\ tickets \in [Ticket -> RowRecord]
    /\ posts \in SUBSET PostRecord /\ stray \in SUBSET Attachment /\ wanted \in WishRecord
    /\ losses \in Nat /\ forms \in Nat

\* Only what the user marked is marked, and a record that is shown has a ticket.
SheetFits(s, m) == s.marked \subseteq m /\ (s.mode = "shown" => s.ticket \in Ticket)

\* A save r deletes what somebody asked for and has its files on the server (ft); copies
\* and cancels are of one file.
PostFits(r, ft, w) ==
    /\ r.kind = "save" => r.deletes \subseteq w /\ \A a \in r.files : ft[a] # "none"
    /\ r.kind \in {"copy", "cancel"} => \E a \in Attachment : r.files = {a}
    /\ r.kind = "cancel" => ~r.awaited
    /\ r.kind \in {"act", "delete"} => r.ticket \in Ticket

Cancels(ps, a) == \E r \in ps : r.kind = "cancel" /\ a \in r.files

Copies(ps, a) == \E r \in ps : r.kind = "copy" /\ a \in r.files

\* The file a, with p in pending, s in sending and f as its fate: a draft is seen or being
\* deleted, an upload under way has its place in the form, and is the file's first.
AttachmentFits(a, p, s, f, x, w, ps) ==
    /\ f = "draft" => a \in x \/ p = "ready" \/ Cancels(ps, a)
    /\ f = "deleted" => a \in w
    /\ p = "ready" => f # "none"
    /\ s \in {"running", "error"} => f = "none" /\ (p # "out" \/ a \in x) /\ ~Copies(ps, a)

FormInv ==
    /\ FormTyped /\ SheetFits(sheet, wanted.marked)
    /\ \A r \in posts : PostFits(r, fate, wanted.asked)
    /\ \A a \in Attachment : AttachmentFits(a, pending[a], sending[a], fate[a], stray,
                                            wanted.asked, posts)

LEMMA SheetFields ==
    ASSUME NEW s \in SheetRecord
    PROVE  /\ s.mode \in {"closed", "shown", "editing"} /\ s.ticket \in Ticket \cup {None}
           /\ s.revision \in Nat /\ s.busy \in BOOLEAN /\ s.marked \in SUBSET Attachment
BY DEF SheetRecord

LEMMA PostFields ==
    ASSUME NEW r \in PostRecord
    PROVE  /\ r.kind \in {"save", "act", "delete", "copy", "cancel"}
           /\ r.ticket \in Ticket \cup {None} /\ r.revision \in Nat
           /\ r.files \in SUBSET Attachment /\ r.deletes \in SUBSET Attachment
           /\ r.awaited \in BOOLEAN
BY DEF PostRecord

LEMMA WishFields ==
    ASSUME NEW w \in WishRecord
    PROVE  w.marked \in SUBSET Attachment /\ w.asked \in SUBSET Attachment
BY DEF WishRecord

LEMMA MarksWished ==
    ASSUME NEW w \in WishRecord, NEW m \in SUBSET Attachment
    PROVE  LET v == [w EXCEPT !.marked = m] IN
           v \in WishRecord /\ v.marked = m /\ v.asked = w.asked
BY DEF WishRecord

LEMMA MoreAsked ==
    ASSUME NEW w \in WishRecord, NEW m \in SUBSET Attachment
    PROVE  LET v == [w EXCEPT !.asked = @ \cup m] IN
           v \in WishRecord /\ v.marked = w.marked /\ v.asked = w.asked \cup m
BY DEF WishRecord

LEMMA ForgottenPost ==
    ASSUME NEW r \in PostRecord
    PROVE  LET q == [r EXCEPT !.awaited = FALSE] IN
           /\ q \in PostRecord /\ q.kind = r.kind /\ q.files = r.files
           /\ q.deletes = r.deletes /\ q.ticket = r.ticket /\ ~q.awaited
BY DEF PostRecord

LEMMA SettledSheet ==
    ASSUME NEW s \in SheetRecord, NEW b \in BOOLEAN
    PROVE  LET d == [s EXCEPT !.busy = b] IN
           d \in SheetRecord /\ d.mode = s.mode /\ d.ticket = s.ticket /\ d.marked = s.marked
BY DEF SheetRecord

LEMMA ClosedSheet ==
    Form!Closed \in SheetRecord /\ Form!Closed.marked = {} /\ Form!Closed.mode = "closed"
BY DEF Form!Closed, SheetRecord

LEMMA NewPost ==
    ASSUME sheet \in SheetRecord, NEW kd \in {"save", "act", "delete"},
           NEW fs \in SUBSET Attachment, NEW ds \in SUBSET Attachment
    PROVE  LET r == Form!Post(kd, fs, ds) IN
           /\ r \in PostRecord /\ r.kind = kd /\ r.files = fs /\ r.deletes = ds
           /\ r.ticket = sheet.ticket
BY DEF Form!Post, PostRecord, SheetRecord

LEMMA NewFilePost ==
    ASSUME NEW kd \in {"copy", "cancel"}, NEW a \in Attachment, NEW b \in BOOLEAN
    PROVE  LET r == Form!About(kd, a, b) IN
           /\ r \in PostRecord /\ r.kind = kd /\ r.files = {a} /\ r.awaited = b
  BY DEF Form!About, PostRecord

LEMMA StampedRow ==
    ASSUME NEW F \in [Ticket -> RowRecord], NEW t \in Ticket
    PROVE  [F EXCEPT ![t] = [row |-> "open", revision |-> @.revision + 1]]
           \in [Ticket -> RowRecord]
BY DEF RowRecord

LEMMA TicketsApart == \A t \in Ticket : t \notin {"none", "draft", "cancelled", "deleted"}
BY FormHolds DEF Form!FormAssumption

\* No deletion is called back and no copy begins.
Carried(ps, ps2) ==
    \A a \in Attachment : (Cancels(ps, a) => Cancels(ps2, a)) /\ (Copies(ps2, a) => Copies(ps, a))

LEMMA PostStays ==
    ASSUME NEW r \in PostRecord, NEW ft, NEW w, NEW ft2, NEW w2, PostFits(r, ft, w),
           w \subseteq w2, \A a \in Attachment : ft[a] # "none" => ft2[a] # "none"
    PROVE  PostFits(r, ft2, w2)
<1>1. r.files \in SUBSET Attachment
  BY PostFields
<1>2. QED
  BY <1>1 DEF PostFits

LEMMA AttachmentStays ==
    ASSUME NEW a \in Attachment, NEW p, NEW s, NEW f, NEW x, NEW w, NEW ps, NEW x2, NEW w2,
           NEW ps2, AttachmentFits(a, p, s, f, x, w, ps), x \subseteq x2, w \subseteq w2,
           Carried(ps, ps2)
    PROVE  AttachmentFits(a, p, s, f, x2, w2, ps2)
  BY DEF AttachmentFits, Carried

LEMMA FormInit ==
    ASSUME Form!Init
    PROVE  FormInv
<1>1. Form!Closed \in SheetRecord /\ Form!Closed.marked = {} /\ Form!Closed.mode = "closed"
  BY ClosedSheet
<1>2. FormTyped
  <2>1. tickets \in [Ticket -> RowRecord] /\ wanted \in WishRecord
    BY DEF Form!Init, RowRecord, WishRecord
  <2>2. fate \in [Attachment -> FateOf]
    BY DEF Form!Init, FateOf
  <2>3. QED
    BY <1>1, <2>1, <2>2 DEF Form!Init, FormTyped
<1>3. SheetFits(sheet, wanted.marked)
  BY <1>1 DEF Form!Init, SheetFits
<1>4. \A r \in posts : PostFits(r, fate, wanted.asked)
  BY DEF Form!Init
<1>5. \A a \in Attachment : AttachmentFits(a, pending[a], sending[a], fate[a], stray,
                                           wanted.asked, posts)
  BY DEF Form!Init, AttachmentFits
<1>6. QED
  BY <1>2, <1>3, <1>4, <1>5 DEF FormInv

\* Nothing happens to the files; requests come and go.
LEMMA FilesKept ==
    ASSUME FormInv, UNCHANGED <<pending, sending, fate, stray>>,
           sheet' \in SheetRecord, tickets' \in [Ticket -> RowRecord],
           posts' \in SUBSET PostRecord, wanted' \in WishRecord, losses' \in Nat, forms' \in Nat,
           SheetFits(sheet', wanted'.marked), wanted.asked \subseteq wanted'.asked,
           Carried(posts, posts'),
           \A r \in posts' : r \in posts \/ PostFits(r, fate, wanted'.asked)
    PROVE  FormInv'
<1>1. FormTyped'
  BY DEF FormInv, FormTyped
<1>2. \A r \in posts' : PostFits(r, fate', wanted'.asked)
  <2>1. SUFFICES ASSUME NEW r \in posts', r \in posts PROVE PostFits(r, fate', wanted'.asked)
    OBVIOUS
  <2>2. PostFits(r, fate, wanted.asked) /\ r \in PostRecord
    BY <2>1 DEF FormInv
  <2>3. PostFits(r, fate, wanted'.asked)
    BY <2>2, PostStays
  <2>4. QED
    BY <2>3
<1>3. \A a \in Attachment : AttachmentFits(a, pending'[a], sending'[a], fate'[a], stray',
                                           wanted'.asked, posts')
  <2>1. SUFFICES ASSUME NEW a \in Attachment
                 PROVE  AttachmentFits(a, pending[a], sending[a], fate[a], stray,
                                       wanted'.asked, posts')
    OBVIOUS
  <2>2. AttachmentFits(a, pending[a], sending[a], fate[a], stray, wanted.asked, posts)
    BY DEF FormInv
  <2>3. QED
    BY <2>2, AttachmentStays
<1>4. QED
  BY <1>1, <1>2, <1>3 DEF FormInv

\* One file changes, and no request.
LEMMA OneFileChanges ==
    ASSUME FormInv, NEW a \in Attachment,
           UNCHANGED <<sheet, tickets, posts, stray, wanted, losses, forms>>,
           pending' \in [Attachment -> {"out", "waiting", "ready"}],
           sending' \in [Attachment -> {"none", "running", "complete", "error"}],
           fate' \in [Attachment -> FateOf],
           \A b \in Attachment : b # a => /\ pending'[b] = pending[b]
                                          /\ sending'[b] = sending[b] /\ fate'[b] = fate[b],
           fate[a] # "none" => fate'[a] # "none",
           AttachmentFits(a, pending'[a], sending'[a], fate'[a], stray, wanted.asked, posts)
    PROVE  FormInv'
<1>1. FormTyped'
  BY DEF FormInv, FormTyped
<1>2. SheetFits(sheet', wanted'.marked)
  BY DEF FormInv
<1>3. \A r \in posts' : PostFits(r, fate', wanted'.asked)
  <2>1. SUFFICES ASSUME NEW r \in posts PROVE PostFits(r, fate', wanted.asked)
    OBVIOUS
  <2>2. r \in PostRecord /\ PostFits(r, fate, wanted.asked)
    BY DEF FormInv, FormTyped
  <2>3. \A b \in Attachment : fate[b] # "none" => fate'[b] # "none"
    OBVIOUS
  <2>4. PICK w, ft2 : w = wanted.asked /\ ft2 = fate'
    OBVIOUS
  <2>5. PostFits(r, ft2, w)
    BY <2>2, <2>3, <2>4, PostStays
  <2>6. QED
    BY <2>4, <2>5
<1>4. \A b \in Attachment : AttachmentFits(b, pending'[b], sending'[b], fate'[b], stray',
                                           wanted'.asked, posts')
  BY DEF FormInv
<1>5. QED
  BY <1>1, <1>2, <1>3, <1>4 DEF FormInv

\* A post that leaves, of another kind, carries on the others.
LEMMA CarriedWithout ==
    ASSUME NEW ps, NEW r, r.kind # "cancel"
    PROVE  Carried(ps, ps \ {r})
  BY DEF Carried, Cancels, Copies

LEMMA CarriedWith ==
    ASSUME NEW ps, NEW r, r.kind # "copy"
    PROVE  Carried(ps, ps \cup {r})
  BY DEF Carried, Cancels, Copies

\* What an action of the form finds.
LEMMA FormFacts ==
    ASSUME FormInv
    PROVE  /\ sheet \in SheetRecord /\ tickets \in [Ticket -> RowRecord]
           /\ posts \in SUBSET PostRecord /\ wanted \in WishRecord
           /\ wanted.marked \in SUBSET Attachment /\ wanted.asked \in SUBSET Attachment
           /\ losses \in Nat /\ forms \in Nat /\ SheetFits(sheet, wanted.marked)
  BY WishFields DEF FormInv, FormTyped

LEMMA CarriedSame == \A ps : Carried(ps, ps)
  BY DEF Carried

LEMMA OpenStep ==
    ASSUME FormInv, NEW t \in Ticket \cup {None}, Form!Open(t)
    PROVE  FormInv'
<1>1. /\ UNCHANGED <<pending, sending, fate, tickets, posts, stray, wanted, losses>>
      /\ forms' = forms + 1
  BY DEF Form!Open
<1>2. sheet' \in SheetRecord /\ SheetFits(sheet', wanted.marked)
  <2>1. PICK c \in SheetRecord : c = Form!Closed /\ c.marked = {}
    BY ClosedSheet
  <2>2. CASE t = None
    <3>1. sheet' = [c EXCEPT !.mode = "editing"]
      BY <2>1, <2>2 DEF Form!Open
    <3>2. QED
      BY <2>1, <3>1 DEF SheetRecord, SheetFits
  <2>3. CASE t # None
    <3>1. PICK mode \in {"shown", "editing"} :
              sheet' = [c EXCEPT !.mode = mode, !.ticket = t, !.revision = tickets[t].revision]
      BY <2>1, <2>3 DEF Form!Open
    <3>2. t \in Ticket /\ tickets[t].revision \in Nat
      BY <2>3, FormFacts DEF RowRecord
    <3>3. sheet' \in SheetRecord
      BY <3>1, <3>2 DEF SheetRecord
    <3>4. sheet'.marked = c.marked /\ sheet'.ticket = t
      BY <3>1 DEF SheetRecord
    <3>5. QED
      BY <2>1, <3>2, <3>3, <3>4 DEF SheetFits
  <2>4. QED
    BY <2>2, <2>3
<1>3. forms' \in Nat /\ losses' \in Nat
  BY <1>1, FormFacts
<1>4. QED
  BY <1>1, <1>2, <1>3, FormFacts, CarriedSame, FilesKept

LEMMA EditStep ==
    ASSUME FormInv, Form!Edit
    PROVE  FormInv'
<1>1. /\ UNCHANGED <<pending, sending, fate, tickets, posts, stray, wanted, losses, forms>>
      /\ sheet' = [sheet EXCEPT !.mode = "editing"]
  BY DEF Form!Edit
<1>2. sheet' \in SheetRecord /\ SheetFits(sheet', wanted.marked)
  BY <1>1, FormFacts DEF SheetRecord, SheetFits
<1>3. QED
  BY <1>1, <1>2, FormFacts, CarriedSame, FilesKept

LEMMA MarkStep ==
    ASSUME FormInv, NEW a \in Attachment, Form!Mark(a)
    PROVE  FormInv'
<1>1. UNCHANGED <<pending, sending, fate, tickets, posts, stray, losses, forms>>
  BY DEF Form!Mark
<1>2. PICK m : m = IF a \in sheet.marked THEN sheet.marked \ {a} ELSE sheet.marked \cup {a}
  OBVIOUS
<1>3. PICK v : v = IF a \in sheet.marked THEN wanted.marked \ {a} ELSE wanted.marked \cup {a}
  OBVIOUS
<1>4. sheet' = [sheet EXCEPT !.marked = m] /\ wanted' = [wanted EXCEPT !.marked = v]
  BY <1>2, <1>3 DEF Form!Mark
<1>5. m \in SUBSET Attachment /\ v \in SUBSET Attachment /\ m \subseteq v
  BY <1>2, <1>3, FormFacts, SheetFields DEF SheetFits
<1>6. sheet' \in SheetRecord /\ sheet'.marked = m /\ sheet'.mode = sheet.mode
      /\ sheet'.ticket = sheet.ticket
  BY <1>4, <1>5, FormFacts DEF SheetRecord
<1>7. wanted' \in WishRecord /\ wanted'.marked = v /\ wanted'.asked = wanted.asked
  BY <1>4, <1>5, FormFacts, MarksWished
<1>8. SheetFits(sheet', wanted'.marked)
  BY <1>5, <1>6, <1>7, FormFacts DEF SheetFits
<1>9. QED
  BY <1>1, <1>6, <1>7, <1>8, FormFacts, CarriedSame, FilesKept

LEMMA SaveFormStep ==
    ASSUME FormInv, Form!Save
    PROVE  FormInv'
<1>1. /\ UNCHANGED <<pending, sending, fate, tickets, stray, losses, forms>>
      /\ sheet' = [sheet EXCEPT !.busy = TRUE]
      /\ wanted' = [wanted EXCEPT !.asked = @ \cup wanted.marked]
      /\ posts' = posts \cup {Form!Post("save", Form!Chosen, sheet.marked)}
      /\ \A a \in Form!Chosen : pending[a] = "ready"
  BY DEF Form!Save
<1>2. /\ sheet' \in SheetRecord /\ sheet'.mode = sheet.mode /\ sheet'.ticket = sheet.ticket
      /\ sheet'.marked = sheet.marked
  BY <1>1, FormFacts, SettledSheet
<1>3. /\ wanted' \in WishRecord /\ wanted'.marked = wanted.marked
      /\ wanted'.asked = wanted.asked \cup wanted.marked
  BY <1>1, FormFacts, MoreAsked
<1>4. PICK fs \in SUBSET Attachment, ds \in SUBSET Attachment :
          fs = Form!Chosen /\ ds = sheet.marked
  BY FormFacts, SheetFields DEF Form!Chosen
<1>5. PICK r \in PostRecord :
          r = Form!Post("save", fs, ds) /\ r.kind = "save" /\ r.files = fs /\ r.deletes = ds
  BY FormFacts, NewPost
<1>6. PostFits(r, fate, wanted'.asked)
  <2>1. ds \subseteq wanted'.asked
    BY <1>3, <1>4, FormFacts DEF SheetFits
  <2>2. \A a \in fs : fate[a] # "none"
    BY <1>1, <1>4 DEF FormInv, AttachmentFits
  <2>3. QED
    BY <1>5, <2>1, <2>2 DEF PostFits
<1>7. posts' \in SUBSET PostRecord /\ Carried(posts, posts')
      /\ \A q \in posts' : q \in posts \/ q = r
  BY <1>1, <1>4, <1>5, FormFacts, CarriedWith
<1>8. SheetFits(sheet', wanted'.marked) /\ wanted.asked \subseteq wanted'.asked
  BY <1>2, <1>3, FormFacts DEF SheetFits
<1>9. QED
  BY <1>1, <1>2, <1>3, <1>6, <1>7, <1>8, FormFacts, FilesKept

LEMMA ActStep ==
    ASSUME FormInv, NEW kd \in {"act", "delete"}, Form!Act(kd)
    PROVE  FormInv'
<1>1. /\ UNCHANGED <<pending, sending, fate, tickets, stray, wanted, losses, forms>>
      /\ sheet.mode = "shown" /\ sheet' = [sheet EXCEPT !.busy = TRUE]
  BY DEF Form!Act
<1>2. PICK fs \in SUBSET Attachment : fs = IF kd = "delete" THEN Form!Chosen ELSE {}
  BY DEF Form!Chosen
<1>3. posts' = posts \cup {Form!Post(kd, fs, {})}
  BY <1>2 DEF Form!Act
<1>4. PICK r \in PostRecord : r = Form!Post(kd, fs, {}) /\ r.kind = kd /\ r.ticket = sheet.ticket
  BY FormFacts, NewPost
<1>5. PostFits(r, fate, wanted.asked)
  BY <1>1, <1>4, FormFacts DEF PostFits, SheetFits
<1>6. posts' \in SUBSET PostRecord /\ Carried(posts, posts')
      /\ \A q \in posts' : q \in posts \/ q = r
  BY <1>3, <1>4, FormFacts, CarriedWith
<1>7. /\ sheet' \in SheetRecord /\ sheet'.mode = sheet.mode /\ sheet'.ticket = sheet.ticket
      /\ sheet'.marked = sheet.marked
  BY <1>1, FormFacts, SettledSheet
<1>8. SheetFits(sheet', wanted.marked)
  BY <1>7, FormFacts DEF SheetFits
<1>9. QED
  BY <1>1, <1>5, <1>6, <1>7, <1>8, FormFacts, FilesKept

\* The form that is answered, or not.
LEMMA AnsweredSheet ==
    ASSUME FormInv, NEW r
    PROVE  /\ Form!Answered(r) \in SheetRecord /\ Form!Answered(r).mode = sheet.mode
           /\ Form!Answered(r).ticket = sheet.ticket /\ Form!Answered(r).marked = sheet.marked
           /\ SheetFits(Form!Answered(r), wanted.marked)
<1>1. PICK d : d = Form!Answered(r)
  OBVIOUS
<1>2. /\ d \in SheetRecord /\ d.mode = sheet.mode /\ d.ticket = sheet.ticket
      /\ d.marked = sheet.marked
  <2>1. CASE r.awaited /\ r.kind # "copy"
    BY <1>1, <2>1, FormFacts, SettledSheet DEF Form!Answered
  <2>2. CASE ~(r.awaited /\ r.kind # "copy")
    BY <1>1, <2>2, FormFacts DEF Form!Answered
  <2>3. QED
    BY <2>1, <2>2
<1>3. SheetFits(d, wanted.marked)
  BY <1>2, FormFacts DEF SheetFits
<1>4. QED
  BY <1>1, <1>2, <1>3

LEMMA GiveUpStep ==
    ASSUME FormInv, NEW r \in posts, Form!GiveUp(r)
    PROVE  FormInv'
<1>1. /\ UNCHANGED <<pending, sending, fate, tickets, stray, wanted, forms>>
      /\ sheet' = Form!Answered(r) /\ losses' = losses + 1
      /\ posts' = (posts \ {r}) \cup Form!Forgotten({r})
  BY DEF Form!GiveUp, Form!Loss
<1>2. r \in PostRecord /\ PostFits(r, fate, wanted.asked)
  BY FormFacts DEF FormInv
<1>3. PICK q \in PostRecord :
          /\ q = [r EXCEPT !.awaited = FALSE] /\ q.kind = r.kind /\ q.files = r.files
          /\ q.deletes = r.deletes /\ q.ticket = r.ticket /\ ~q.awaited
  BY <1>2, ForgottenPost
<1>4. Form!Forgotten({r}) = {q}
  BY <1>3 DEF Form!Forgotten
<1>5. PostFits(q, fate, wanted.asked)
  BY <1>2, <1>3 DEF PostFits
<1>6. Carried(posts, posts')
  BY <1>1, <1>3, <1>4 DEF Carried, Cancels, Copies
<1>7. posts' \in SUBSET PostRecord /\ \A o \in posts' : o \in posts \/ o = q
  BY <1>1, <1>4, FormFacts
<1>8. sheet' \in SheetRecord /\ SheetFits(sheet', wanted.marked)
  BY <1>1, AnsweredSheet
<1>9. losses' \in Nat
  BY <1>1, FormFacts
<1>10. QED
  BY <1>1, <1>5, <1>6, <1>7, <1>8, <1>9, FormFacts, FilesKept

LEMMA RefuseStep ==
    ASSUME FormInv, NEW r \in posts, Form!Refuse(r)
    PROVE  FormInv'
<1>1. /\ UNCHANGED <<pending, sending, fate, tickets, stray, wanted, losses, forms>>
      /\ sheet' = Form!Answered(r) /\ posts' = posts \ {r} /\ r.awaited
  BY DEF Form!Refuse
<1>2. Carried(posts, posts')
  BY <1>1, CarriedWithout DEF FormInv, PostFits
<1>3. posts' \in SUBSET PostRecord /\ \A o \in posts' : o \in posts
  BY <1>1, FormFacts
<1>4. sheet' \in SheetRecord /\ SheetFits(sheet', wanted.marked)
  BY <1>1, AnsweredSheet
<1>5. QED
  BY <1>1, <1>2, <1>3, <1>4, FormFacts, FilesKept

LEMMA ServeActStep ==
    ASSUME FormInv, NEW r \in posts, Form!ServeAct(r)
    PROVE  FormInv'
<1>1. PICK t \in Ticket : t = r.ticket
  BY DEF FormInv, PostFits, Form!ServeAct
<1>2. /\ UNCHANGED <<pending, sending, fate, stray, wanted, losses, forms>>
      /\ tickets' = Form!Stamped(t) /\ posts' = posts \ {r} /\ r.kind = "act"
      /\ \/ sheet' = Form!Answered(r)
         \/ sheet' = [Form!Answered(r) EXCEPT !.revision = tickets[t].revision + 1]
  BY <1>1 DEF Form!ServeAct
<1>3. PICK d \in SheetRecord : /\ d = Form!Answered(r) /\ d.mode = sheet.mode
                               /\ d.ticket = sheet.ticket /\ d.marked = sheet.marked
  BY AnsweredSheet
<1>4. tickets[t].revision \in Nat
  BY FormFacts DEF RowRecord
<1>5. /\ sheet' \in SheetRecord /\ sheet'.mode = sheet.mode /\ sheet'.ticket = sheet.ticket
      /\ sheet'.marked = sheet.marked
  <2>1. CASE sheet' = d
    BY <1>3, <2>1
  <2>2. CASE sheet' = [d EXCEPT !.revision = tickets[t].revision + 1]
    BY <1>3, <1>4, <2>2 DEF SheetRecord
  <2>3. QED
    BY <1>2, <1>3, <2>1, <2>2
<1>6. SheetFits(sheet', wanted.marked)
  BY <1>5, FormFacts DEF SheetFits
<1>7. tickets' \in [Ticket -> RowRecord]
  BY <1>2, FormFacts, StampedRow DEF Form!Stamped
<1>8. /\ Carried(posts, posts') /\ posts' \in SUBSET PostRecord
      /\ \A o \in posts' : o \in posts
  BY <1>2, FormFacts, CarriedWithout
<1>9. QED
  BY <1>2, <1>5, <1>6, <1>7, <1>8, FormFacts, FilesKept

LEMMA EditElsewhereStep ==
    ASSUME FormInv, NEW t \in Ticket, Form!EditElsewhere(t)
    PROVE  FormInv'
<1>1. /\ UNCHANGED <<sheet, pending, sending, fate, posts, stray, wanted, losses, forms>>
      /\ tickets' = Form!Stamped(t)
  BY DEF Form!EditElsewhere
<1>2. tickets' \in [Ticket -> RowRecord]
  BY <1>1, FormFacts, StampedRow DEF Form!Stamped
<1>3. QED
  BY <1>1, <1>2, FormFacts, CarriedSame, FilesKept

LEMMA FileFacts ==
    ASSUME FormInv
    PROVE  /\ pending \in [Attachment -> {"out", "waiting", "ready"}]
           /\ sending \in [Attachment -> {"none", "running", "complete", "error"}]
           /\ fate \in [Attachment -> FateOf] /\ stray \in SUBSET Attachment
           /\ \A a \in Attachment : AttachmentFits(a, pending[a], sending[a], fate[a], stray,
                                                   wanted.asked, posts)
  BY DEF FormInv, FormTyped

LEMMA UploadStep ==
    ASSUME FormInv, NEW a \in Attachment, Form!Upload(a)
    PROVE  FormInv'
<1>1. /\ UNCHANGED <<sheet, fate, tickets, posts, stray, wanted, losses, forms>>
      /\ pending' = [pending EXCEPT ![a] = "waiting"]
      /\ sending' = [sending EXCEPT ![a] = "running"]
      /\ fate[a] = "none" /\ ~Copies(posts, a)
  BY DEF Form!Upload, Form!Fresh, Copies
<1>2. /\ pending' \in [Attachment -> {"out", "waiting", "ready"}] /\ pending'[a] = "waiting"
      /\ sending' \in [Attachment -> {"none", "running", "complete", "error"}]
      /\ \A b \in Attachment : b # a => pending'[b] = pending[b] /\ sending'[b] = sending[b]
  BY <1>1, FileFacts
<1>3. AttachmentFits(a, pending'[a], sending'[a], fate'[a], stray, wanted.asked, posts)
  BY <1>1, <1>2 DEF AttachmentFits
<1>4. QED
  BY <1>1, <1>2, <1>3, FileFacts, OneFileChanges

LEMMA UploadEndsStep ==
    ASSUME FormInv, NEW a \in Attachment, Form!UploadEnds(a)
    PROVE  FormInv'
<1>1. PICK p : p = IF pending[a] = "out" THEN "out" ELSE "ready"
  OBVIOUS
<1>2. /\ UNCHANGED <<sheet, tickets, posts, stray, wanted, losses, forms>>
      /\ sending[a] = "running" /\ sending' = [sending EXCEPT ![a] = "complete"]
      /\ fate' = [fate EXCEPT ![a] = "draft"] /\ pending' = [pending EXCEPT ![a] = p]
  BY <1>1 DEF Form!UploadEnds
<1>3. /\ pending' \in [Attachment -> {"out", "waiting", "ready"}] /\ pending'[a] = p
      /\ sending' \in [Attachment -> {"none", "running", "complete", "error"}]
      /\ sending'[a] = "complete"
      /\ fate' \in [Attachment -> FateOf] /\ fate'[a] = "draft"
      /\ \A b \in Attachment : b # a => /\ pending'[b] = pending[b]
                                        /\ sending'[b] = sending[b] /\ fate'[b] = fate[b]
  BY <1>1, <1>2, FileFacts DEF FateOf
<1>4. AttachmentFits(a, pending'[a], sending'[a], fate'[a], stray, wanted.asked, posts)
  BY <1>1, <1>2, <1>3, FileFacts DEF AttachmentFits
<1>5. QED
  BY <1>2, <1>3, <1>4, OneFileChanges

LEMMA SendingStep ==
    ASSUME FormInv, NEW a \in Attachment,
           Form!UploadFails(a) \/ Form!Retry(a) \/ Form!CancelUpload(a)
    PROVE  FormInv'
<1>1. PICK s \in {"none", "running", "error"} :
          /\ sending' = [sending EXCEPT ![a] = s]
          /\ s # "none" => sending[a] \in {"running", "error"}
  BY DEF Form!UploadFails, Form!Retry, Form!CancelUpload
<1>2. UNCHANGED <<sheet, pending, fate, tickets, posts, stray, wanted, losses, forms>>
  BY DEF Form!UploadFails, Form!Retry, Form!CancelUpload
<1>3. /\ sending' \in [Attachment -> {"none", "running", "complete", "error"}]
      /\ sending'[a] = s /\ \A b \in Attachment : b # a => sending'[b] = sending[b]
  BY <1>1, FileFacts
<1>4. AttachmentFits(a, pending[a], s, fate[a], stray, wanted.asked, posts)
  BY <1>1, FileFacts DEF AttachmentFits
<1>5. QED
  BY <1>2, <1>3, <1>4, FileFacts, OneFileChanges

LEMMA PickDraftStep ==
    ASSUME FormInv, NEW a \in Attachment, Form!PickDraft(a)
    PROVE  FormInv'
<1>1. /\ UNCHANGED <<sheet, sending, fate, tickets, posts, stray, wanted, losses, forms>>
      /\ pending' = [pending EXCEPT ![a] = "ready"] /\ fate[a] = "draft"
  BY DEF Form!PickDraft
<1>2. /\ pending' \in [Attachment -> {"out", "waiting", "ready"}] /\ pending'[a] = "ready"
      /\ \A b \in Attachment : b # a => pending'[b] = pending[b]
  BY <1>1, FileFacts
<1>3. AttachmentFits(a, "ready", sending[a], fate[a], stray, wanted.asked, posts)
  BY <1>1, FileFacts DEF AttachmentFits
<1>4. QED
  BY <1>1, <1>2, <1>3, FileFacts, OneFileChanges

\* Requests are left alone as far as they do not begin here, however the files change.
LEMMA FilesChange ==
    ASSUME FormInv, sheet' \in SheetRecord, tickets' \in [Ticket -> RowRecord],
           posts' \in SUBSET PostRecord, wanted' \in WishRecord,
           losses' \in Nat, forms' \in Nat,
           SheetFits(sheet', wanted'.marked), wanted.asked \subseteq wanted'.asked,
           pending' \in [Attachment -> {"out", "waiting", "ready"}],
           sending' \in [Attachment -> {"none", "running", "complete", "error"}],
           fate' \in [Attachment -> FateOf], stray' \in SUBSET Attachment,
           \A a \in Attachment : fate[a] # "none" => fate'[a] # "none",
           \A r \in posts' : r \in posts \/ PostFits(r, fate', wanted'.asked),
           \A a \in Attachment : AttachmentFits(a, pending'[a], sending'[a], fate'[a], stray',
                                                wanted'.asked, posts')
    PROVE  FormInv'
<1>1. FormTyped'
  BY DEF FormTyped
<1>2. \A r \in posts' : PostFits(r, fate', wanted'.asked)
  <2>1. SUFFICES ASSUME NEW r \in posts', r \in posts PROVE PostFits(r, fate', wanted'.asked)
    OBVIOUS
  <2>2. r \in PostRecord /\ PostFits(r, fate, wanted.asked)
    BY <2>1 DEF FormInv, FormTyped
  <2>3. PICK w, w2, ft2 : w = wanted.asked /\ w2 = wanted'.asked /\ ft2 = fate'
    OBVIOUS
  <2>4. PostFits(r, ft2, w2)
    BY <2>2, <2>3, PostStays
  <2>5. QED
    BY <2>3, <2>4
<1>3. QED
  BY <1>1, <1>2 DEF FormInv

LEMMA CopyFileStep ==
    ASSUME FormInv, NEW a \in Attachment, Form!Copy(a)
    PROVE  FormInv'
<1>1. /\ UNCHANGED <<sheet, pending, sending, fate, tickets, stray, wanted, losses, forms>>
      /\ posts' = posts \cup {Form!About("copy", a, TRUE)} /\ sending[a] = "none"
  BY DEF Form!Copy, Form!Fresh
<1>2. PICK q \in PostRecord :
          q = Form!About("copy", a, TRUE) /\ q.kind = "copy" /\ q.files = {a}
  BY NewFilePost
<1>3. PostFits(q, fate, wanted.asked)
  BY <1>2 DEF PostFits
<1>4. posts' \in SUBSET PostRecord /\ \A r \in posts' : r \in posts \/ r = q
  BY <1>1, <1>2, FormFacts
<1>5. \A b \in Attachment : /\ Cancels(posts, b) => Cancels(posts', b)
                            /\ Copies(posts', b) => Copies(posts, b) \/ b = a
  BY <1>1, <1>2 DEF Cancels, Copies
<1>6. \A b \in Attachment : AttachmentFits(b, pending[b], sending[b], fate[b], stray,
                                           wanted.asked, posts')
  BY <1>1, <1>5, FileFacts DEF AttachmentFits
<1>7. QED
  BY <1>1, <1>3, <1>4, <1>6, FormFacts, FileFacts, FilesChange

\* What Drop makes of the files s of the form, whose requests were others before.
LEMMA DropFacts ==
    ASSUME FormInv, NEW s \in SUBSET Attachment, NEW kept \in SUBSET Attachment,
           NEW o \in SUBSET PostRecord, Form!Drop(s, kept, o)
    PROVE  /\ pending' \in [Attachment -> {"out", "waiting", "ready"}]
           /\ sending' \in [Attachment -> {"none", "running", "complete", "error"}]
           /\ posts' \in SUBSET PostRecord
           /\ \A a \in Attachment : /\ pending'[a] = IF a \in kept THEN pending[a] ELSE "out"
                                    /\ sending'[a] = IF a \in s THEN "none" ELSE sending[a]
                                    /\ a \in s /\ pending[a] = "ready" => Cancels(posts', a)
                                    /\ Cancels(o, a) => Cancels(posts', a)
                                    /\ Copies(posts', a) => Copies(o, a)
           /\ \A r \in posts' : r \in o \/ \A ft, w : PostFits(r, ft, w)
<1>1. PICK c : c = {Form!About("cancel", a, FALSE) : a \in {b \in s : pending[b] = "ready"}}
  OBVIOUS
<1>2. /\ posts' = o \cup c
      /\ pending' = [a \in Attachment |-> IF a \in kept THEN pending[a] ELSE "out"]
      /\ sending' = [a \in Attachment |-> IF a \in s THEN "none" ELSE sending[a]]
  BY <1>1 DEF Form!Drop
<1>3. \A r \in c : /\ r \in PostRecord /\ r.kind = "cancel" /\ ~r.awaited
                   /\ \E a \in Attachment : r.files = {a}
  <2>1. SUFFICES ASSUME NEW r \in c
                 PROVE  /\ r \in PostRecord /\ r.kind = "cancel" /\ ~r.awaited
                        /\ \E a \in Attachment : r.files = {a}
    OBVIOUS
  <2>2. PICK a \in s : r = Form!About("cancel", a, FALSE)
    BY <1>1
  <2>3. QED
    BY <2>2, NewFilePost
<1>4. \A a \in s : pending[a] = "ready" => Cancels(c, a)
  <2>1. SUFFICES ASSUME NEW a \in s, pending[a] = "ready" PROVE Cancels(c, a)
    OBVIOUS
  <2>2. PICK r : r = Form!About("cancel", a, FALSE) /\ r \in c
    BY <1>1, <2>1
  <2>3. r.kind = "cancel" /\ r.files = {a}
    BY <2>2, NewFilePost
  <2>4. QED
    BY <2>2, <2>3 DEF Cancels
<1>5. \A a \in Attachment : /\ a \in s /\ pending[a] = "ready" => Cancels(posts', a)
                            /\ Cancels(o, a) => Cancels(posts', a)
                            /\ Copies(posts', a) => Copies(o, a)
  BY <1>2, <1>3, <1>4 DEF Cancels, Copies
<1>6. \A r \in posts' : r \in o \/ \A ft, w : PostFits(r, ft, w)
  BY <1>2, <1>3 DEF PostFits
<1>7. /\ pending' \in [Attachment -> {"out", "waiting", "ready"}]
      /\ sending' \in [Attachment -> {"none", "running", "complete", "error"}]
  BY <1>2, FileFacts
<1>8. posts' \in SUBSET PostRecord
  BY <1>2, <1>3
<1>9. QED
  BY <1>2, <1>5, <1>6, <1>7, <1>8

\* Files that leave the form leave no draft that nobody deletes.
LEMMA DroppedFits ==
    ASSUME NEW a \in Attachment, NEW p, NEW s, NEW f, NEW x, NEW w, NEW ps,
           AttachmentFits(a, p, s, f, x, w, ps), NEW p2, NEW s2, NEW x2, NEW w2, NEW ps2,
           x \subseteq x2, w \subseteq w2, Cancels(ps, a) => Cancels(ps2, a),
           Copies(ps2, a) => Copies(ps, a), p2 = p \/ p2 = "out",
           s2 = s \/ s2 = "none",
           p2 # p => a \in x2 \/ (s2 = "none" /\ (p = "ready" => Cancels(ps2, a)))
    PROVE  AttachmentFits(a, p2, s2, f, x2, w2, ps2)
  BY DEF AttachmentFits

LEMMA RemoveStep ==
    ASSUME FormInv, NEW a \in Attachment, Form!Remove(a)
    PROVE  FormInv'
<1>1. UNCHANGED <<sheet, fate, tickets, stray, wanted, losses, forms>>
  BY DEF Form!Remove
<1>2. PICK s \in SUBSET Attachment, kept \in SUBSET Attachment, o \in SUBSET PostRecord :
          s = {a} /\ kept = Form!Chosen \ {a} /\ o = posts
  BY FormFacts DEF Form!Chosen
<1>3. Form!Drop(s, kept, o)
  BY <1>2 DEF Form!Remove
<1>4. /\ pending' \in [Attachment -> {"out", "waiting", "ready"}]
      /\ sending' \in [Attachment -> {"none", "running", "complete", "error"}]
      /\ posts' \in SUBSET PostRecord
      /\ \A b \in Attachment : /\ pending'[b] = IF b \in kept THEN pending[b] ELSE "out"
                               /\ sending'[b] = IF b \in s THEN "none" ELSE sending[b]
                               /\ b \in s /\ pending[b] = "ready" => Cancels(posts', b)
                               /\ Cancels(o, b) => Cancels(posts', b)
                               /\ Copies(posts', b) => Copies(o, b)
      /\ \A r \in posts' : r \in o \/ \A ft, w : PostFits(r, ft, w)
  BY <1>3, DropFacts
<1>5. \A b \in Attachment : AttachmentFits(b, pending'[b], sending'[b], fate[b], stray,
                                           wanted.asked, posts')
  <2>1. SUFFICES ASSUME NEW b \in Attachment
                 PROVE  AttachmentFits(b, pending'[b], sending'[b], fate[b], stray,
                                       wanted.asked, posts')
    OBVIOUS
  <2>2. AttachmentFits(b, pending[b], sending[b], fate[b], stray, wanted.asked, posts)
    BY FileFacts
  <2>3. b \notin kept => b = a \/ pending[b] = "out"
    BY <1>2 DEF Form!Chosen
  <2>4. PICK p2, s2, ps2 : p2 = pending'[b] /\ s2 = sending'[b] /\ ps2 = posts'
    OBVIOUS
  <2>5. /\ p2 = pending[b] \/ p2 = "out"
        /\ s2 = sending[b] \/ s2 = "none"
        /\ Cancels(posts, b) => Cancels(ps2, b)
        /\ Copies(ps2, b) => Copies(posts, b)
    BY <1>2, <1>4, <2>4
  <2>6. p2 # pending[b] => s2 = "none" /\ (pending[b] = "ready" => Cancels(ps2, b))
    BY <1>2, <1>4, <2>3, <2>4
  <2>7. AttachmentFits(b, p2, s2, fate[b], stray, wanted.asked, ps2)
    BY <2>2, <2>5, <2>6, DroppedFits
  <2>8. QED
    BY <2>4, <2>7
<1>6. \A r \in posts' : r \in posts \/ PostFits(r, fate', wanted'.asked)
  BY <1>2, <1>4
<1>7. QED
  BY <1>1, <1>4, <1>5, <1>6, FormFacts, FileFacts, FilesChange

LEMMA ForgottenFacts ==
    ASSUME FormInv, NEW ps \in SUBSET posts
    PROVE  /\ Form!Forgotten(ps) \in SUBSET PostRecord
           /\ \A a \in Attachment : /\ Cancels(ps, a) => Cancels(Form!Forgotten(ps), a)
                                    /\ Copies(Form!Forgotten(ps), a) => Copies(ps, a)
           /\ \A r \in Form!Forgotten(ps) : PostFits(r, fate, wanted.asked)
<1>1. \A r \in ps : r \in PostRecord /\ PostFits(r, fate, wanted.asked)
  BY FormFacts DEF FormInv
<1>2. \A q \in Form!Forgotten(ps) : \E r \in ps :
          /\ q \in PostRecord /\ q.kind = r.kind /\ q.files = r.files
          /\ q.deletes = r.deletes /\ q.ticket = r.ticket /\ ~q.awaited
  BY <1>1, ForgottenPost DEF Form!Forgotten
<1>3. \A r \in ps : \E q \in Form!Forgotten(ps) : q.kind = r.kind /\ q.files = r.files
  BY <1>1, ForgottenPost DEF Form!Forgotten
<1>4. \A r \in Form!Forgotten(ps) : PostFits(r, fate, wanted.asked)
  BY <1>1, <1>2 DEF PostFits
<1>5. QED
  BY <1>2, <1>3, <1>4 DEF Cancels, Copies

\* The form is left with nothing pending; o are the requests it leaves.
LEMMA LeavesNothing ==
    ASSUME FormInv, NEW s \in SUBSET Attachment, NEW o \in SUBSET PostRecord,
           Form!Drop(s, {}, o),
           \A a \in Attachment : /\ Cancels(posts, a) => Cancels(o, a)
                                 /\ Copies(o, a) => Copies(posts, a),
           stray \subseteq stray', Form!Chosen \ s \subseteq stray',
           wanted.asked \subseteq wanted'.asked
    PROVE  /\ pending' \in [Attachment -> {"out", "waiting", "ready"}]
           /\ sending' \in [Attachment -> {"none", "running", "complete", "error"}]
           /\ posts' \in SUBSET PostRecord
           /\ \A a \in Attachment : AttachmentFits(a, pending'[a], sending'[a], fate[a], stray',
                                                   wanted'.asked, posts')
           /\ \A r \in posts' : r \in o \/ \A ft, w : PostFits(r, ft, w)
<1>1. PICK kept \in SUBSET Attachment : kept = {}
  OBVIOUS
<1>2. /\ pending' \in [Attachment -> {"out", "waiting", "ready"}]
      /\ sending' \in [Attachment -> {"none", "running", "complete", "error"}]
      /\ posts' \in SUBSET PostRecord
      /\ \A b \in Attachment : /\ pending'[b] = IF b \in kept THEN pending[b] ELSE "out"
                               /\ sending'[b] = IF b \in s THEN "none" ELSE sending[b]
                               /\ b \in s /\ pending[b] = "ready" => Cancels(posts', b)
                               /\ Cancels(o, b) => Cancels(posts', b)
                               /\ Copies(posts', b) => Copies(o, b)
      /\ \A r \in posts' : r \in o \/ \A ft, w : PostFits(r, ft, w)
  <2>1. Form!Drop(s, kept, o)
    BY <1>1
  <2>2. QED
    BY <2>1, DropFacts
<1>3. \A a \in Attachment : AttachmentFits(a, pending'[a], sending'[a], fate[a], stray',
                                           wanted'.asked, posts')
  <2>1. SUFFICES ASSUME NEW b \in Attachment
                 PROVE  AttachmentFits(b, pending'[b], sending'[b], fate[b], stray',
                                       wanted'.asked, posts')
    OBVIOUS
  <2>2. AttachmentFits(b, pending[b], sending[b], fate[b], stray, wanted.asked, posts)
    BY FileFacts
  <2>3. PICK p2, s2, ps2, x2, w2 : /\ p2 = pending'[b] /\ s2 = sending'[b] /\ ps2 = posts'
                                   /\ x2 = stray' /\ w2 = wanted'.asked
    OBVIOUS
  <2>4. /\ p2 = "out"
        /\ s2 = sending[b] \/ s2 = "none"
        /\ Cancels(posts, b) => Cancels(ps2, b)
        /\ Copies(ps2, b) => Copies(posts, b)
        /\ stray \subseteq x2 /\ wanted.asked \subseteq w2
    BY <1>1, <1>2, <2>3
  <2>5. p2 # pending[b] => b \in x2 \/ (s2 = "none" /\ (pending[b] = "ready" => Cancels(ps2, b)))
    BY <1>2, <2>3, <2>4 DEF Form!Chosen
  <2>6. AttachmentFits(b, p2, s2, fate[b], x2, w2, ps2)
    BY <2>2, <2>4, <2>5, DroppedFits
  <2>7. QED
    BY <2>3, <2>6
<1>4. QED
  BY <1>2, <1>3

LEMMA CancelEditStep ==
    ASSUME FormInv, Form!Cancel
    PROVE  FormInv'
<1>1. /\ UNCHANGED <<fate, tickets, stray, losses, forms>>
      /\ sheet' = [sheet EXCEPT !.mode = "shown", !.marked = {}] /\ sheet.ticket # None
      /\ wanted' = [wanted EXCEPT !.marked = {}]
  BY DEF Form!Cancel
<1>2. PICK s \in SUBSET Attachment, o \in SUBSET PostRecord : s = Form!Chosen /\ o = posts
  BY FormFacts DEF Form!Chosen
<1>3. Form!Drop(s, {}, o)
  BY <1>2 DEF Form!Cancel
<1>4. wanted' \in WishRecord /\ wanted'.marked = {} /\ wanted'.asked = wanted.asked
  BY <1>1, FormFacts, MarksWished
<1>5. sheet' \in SheetRecord /\ sheet'.marked = {} /\ sheet'.ticket \in Ticket
  BY <1>1, FormFacts DEF SheetRecord
<1>6. SheetFits(sheet', wanted'.marked)
  BY <1>5 DEF SheetFits
<1>7. /\ pending' \in [Attachment -> {"out", "waiting", "ready"}]
      /\ sending' \in [Attachment -> {"none", "running", "complete", "error"}]
      /\ posts' \in SUBSET PostRecord
      /\ \A a \in Attachment : AttachmentFits(a, pending'[a], sending'[a], fate[a], stray',
                                              wanted'.asked, posts')
      /\ \A r \in posts' : r \in o \/ \A ft, w : PostFits(r, ft, w)
  BY <1>1, <1>2, <1>3, <1>4, LeavesNothing
<1>8. \A r \in posts' : r \in posts \/ PostFits(r, fate', wanted'.asked)
  BY <1>2, <1>7
<1>9. QED
  BY <1>1, <1>4, <1>5, <1>6, <1>7, <1>8, FormFacts, FileFacts, FilesChange

LEMMA CloseFormStep ==
    ASSUME FormInv, Form!Close
    PROVE  FormInv'
<1>1. /\ UNCHANGED <<fate, tickets, stray, losses, forms>>
      /\ sheet' = Form!Closed /\ wanted' = [wanted EXCEPT !.marked = {}]
  BY DEF Form!Close
<1>2. /\ Form!Forgotten(posts) \in SUBSET PostRecord
      /\ \A a \in Attachment : /\ Cancels(posts, a) => Cancels(Form!Forgotten(posts), a)
                               /\ Copies(Form!Forgotten(posts), a) => Copies(posts, a)
      /\ \A r \in Form!Forgotten(posts) : PostFits(r, fate, wanted.asked)
  BY ForgottenFacts
<1>3. PICK s \in SUBSET Attachment, o \in SUBSET PostRecord :
          s = Form!Chosen /\ o = Form!Forgotten(posts)
  BY <1>2 DEF Form!Chosen
<1>4. Form!Drop(s, {}, o)
  BY <1>3 DEF Form!Close
<1>5. wanted' \in WishRecord /\ wanted'.marked = {} /\ wanted'.asked = wanted.asked
  BY <1>1, FormFacts, MarksWished
<1>6. sheet' \in SheetRecord /\ SheetFits(sheet', wanted'.marked)
  BY <1>1, ClosedSheet DEF SheetFits
<1>7. /\ pending' \in [Attachment -> {"out", "waiting", "ready"}]
      /\ sending' \in [Attachment -> {"none", "running", "complete", "error"}]
      /\ posts' \in SUBSET PostRecord
      /\ \A a \in Attachment : AttachmentFits(a, pending'[a], sending'[a], fate[a], stray',
                                              wanted'.asked, posts')
      /\ \A r \in posts' : r \in o \/ \A ft, w : PostFits(r, ft, w)
  <2>1. /\ stray \subseteq stray' /\ wanted.asked \subseteq wanted'.asked
        /\ Form!Chosen \ s \subseteq stray'
    BY <1>1, <1>3, <1>5
  <2>2. \A a \in Attachment : /\ Cancels(posts, a) => Cancels(o, a)
                              /\ Copies(o, a) => Copies(posts, a)
    BY <1>2, <1>3
  <2>3. QED
    BY <1>4, <2>1, <2>2, LeavesNothing
<1>8. \A r \in posts' : r \in posts \/ PostFits(r, fate', wanted'.asked)
  BY <1>1, <1>2, <1>3, <1>5, <1>7
<1>9. QED
  BY <1>1, <1>5, <1>6, <1>7, <1>8, FormFacts, FileFacts, FilesChange

LEMMA ServeDeleteStep ==
    ASSUME FormInv, NEW r \in posts, Form!ServeDelete(r)
    PROVE  FormInv'
<1>1. PICK t \in Ticket : t = r.ticket
  BY DEF FormInv, PostFits, Form!ServeDelete
<1>2. PICK of \in SUBSET Attachment : of = {a \in Attachment : fate[a] = t}
  OBVIOUS
<1>3. /\ r.kind = "delete" /\ tickets' = [tickets EXCEPT ![t].row = "gone"]
      /\ fate' = [a \in Attachment |-> IF a \in of THEN "deleted" ELSE fate[a]]
      /\ wanted' = [wanted EXCEPT !.asked = @ \cup of] /\ UNCHANGED <<losses, forms>>
      /\ IF r.awaited
         THEN /\ sheet' = Form!Closed /\ stray' = stray \cup (Form!Chosen \ r.files)
              /\ Form!Drop(r.files, {}, Form!Forgotten(posts \ {r}))
         ELSE posts' = posts \ {r} /\ UNCHANGED <<sheet, pending, sending, stray>>
  BY <1>1, <1>2 DEF Form!ServeDelete
<1>4. /\ wanted' \in WishRecord /\ wanted'.marked = wanted.marked
      /\ wanted'.asked = wanted.asked \cup of
  BY <1>3, FormFacts, MoreAsked
<1>5. /\ fate' \in [Attachment -> FateOf]
      /\ \A a \in Attachment : /\ fate[a] # "none" => fate'[a] # "none"
                               /\ fate'[a] = fate[a] \/ (a \in of /\ fate'[a] = "deleted"
                                                         /\ fate[a] # "none")
  BY <1>2, <1>3, FileFacts, TicketsApart DEF FateOf
<1>6. tickets' \in [Ticket -> RowRecord]
  BY <1>3, FormFacts DEF RowRecord
<1>7. r \in PostRecord /\ r.files \in SUBSET Attachment
  BY FormFacts, PostFields
<1>8. /\ sheet' \in SheetRecord /\ SheetFits(sheet', wanted'.marked)
      /\ pending' \in [Attachment -> {"out", "waiting", "ready"}]
      /\ sending' \in [Attachment -> {"none", "running", "complete", "error"}]
      /\ posts' \in SUBSET PostRecord /\ stray' \in SUBSET Attachment
      /\ \A a \in Attachment : AttachmentFits(a, pending'[a], sending'[a], fate[a], stray',
                                              wanted'.asked, posts')
      /\ \A q \in posts' : PostFits(q, fate, wanted.asked)
  <2>1. CASE ~r.awaited
    <3>1. posts' = posts \ {r} /\ UNCHANGED <<sheet, pending, sending, stray>>
      BY <1>3, <2>1
    <3>2. Carried(posts, posts')
      BY <1>3, <3>1, CarriedWithout
    <3>3. \A a \in Attachment : AttachmentFits(a, pending[a], sending[a], fate[a], stray,
                                               wanted'.asked, posts')
      <4>1. SUFFICES ASSUME NEW a \in Attachment
                     PROVE  AttachmentFits(a, pending[a], sending[a], fate[a], stray,
                                           wanted'.asked, posts')
        OBVIOUS
      <4>2. AttachmentFits(a, pending[a], sending[a], fate[a], stray, wanted.asked, posts)
        BY FileFacts
      <4>3. PICK w2, ps2 : w2 = wanted'.asked /\ ps2 = posts'
        OBVIOUS
      <4>4. wanted.asked \subseteq w2 /\ Carried(posts, ps2)
        BY <1>4, <3>2, <4>3
      <4>5. AttachmentFits(a, pending[a], sending[a], fate[a], stray, w2, ps2)
        BY <4>2, <4>4, AttachmentStays
      <4>6. QED
        BY <4>3, <4>5
    <3>4. \A q \in posts' : PostFits(q, fate, wanted.asked)
      BY <3>1 DEF FormInv
    <3>5. sheet' \in SheetRecord /\ SheetFits(sheet', wanted'.marked)
      BY <1>4, <3>1, FormFacts
    <3>6. QED
      BY <3>1, <3>3, <3>4, <3>5, FormFacts, FileFacts
  <2>2. CASE r.awaited
    <3>1. PICK ps \in SUBSET posts : ps = posts \ {r}
      OBVIOUS
    <3>2. /\ Form!Forgotten(ps) \in SUBSET PostRecord
          /\ \A a \in Attachment : /\ Cancels(ps, a) => Cancels(Form!Forgotten(ps), a)
                                   /\ Copies(Form!Forgotten(ps), a) => Copies(ps, a)
          /\ \A q \in Form!Forgotten(ps) : PostFits(q, fate, wanted.asked)
      BY ForgottenFacts
    <3>3. PICK o \in SUBSET PostRecord : o = Form!Forgotten(ps)
      BY <3>2
    <3>4. PICK s \in SUBSET Attachment : s = r.files
      BY <1>7
    <3>5. /\ sheet' = Form!Closed /\ stray' = stray \cup (Form!Chosen \ s)
          /\ Form!Drop(s, {}, o)
      BY <1>3, <2>2, <3>1, <3>3, <3>4
    <3>6. Carried(posts, ps)
      BY <1>3, <3>1, CarriedWithout
    <3>7. \A a \in Attachment : /\ Cancels(posts, a) => Cancels(o, a)
                                /\ Copies(o, a) => Copies(posts, a)
      BY <3>2, <3>3, <3>6 DEF Carried
    <3>8. /\ stray \subseteq stray' /\ Form!Chosen \ s \subseteq stray'
          /\ wanted.asked \subseteq wanted'.asked
      BY <1>4, <3>5
    <3>9. /\ pending' \in [Attachment -> {"out", "waiting", "ready"}]
          /\ sending' \in [Attachment -> {"none", "running", "complete", "error"}]
          /\ posts' \in SUBSET PostRecord
          /\ \A a \in Attachment : AttachmentFits(a, pending'[a], sending'[a], fate[a], stray',
                                                  wanted'.asked, posts')
          /\ \A q \in posts' : q \in o \/ \A ft, w : PostFits(q, ft, w)
      BY <3>5, <3>7, <3>8, LeavesNothing
    <3>10. \A q \in posts' : PostFits(q, fate, wanted.asked)
      BY <3>2, <3>3, <3>9
    <3>11. sheet' \in SheetRecord /\ SheetFits(sheet', wanted'.marked)
      BY <3>5, ClosedSheet DEF SheetFits
    <3>12. stray' \in SUBSET Attachment
      BY <3>5, FileFacts DEF Form!Chosen
    <3>13. QED
      BY <3>9, <3>10, <3>11, <3>12
  <2>3. QED
    BY <2>1, <2>2
<1>9. \A q \in posts' : PostFits(q, fate', wanted'.asked)
  <2>1. SUFFICES ASSUME NEW q \in posts' PROVE PostFits(q, fate', wanted'.asked)
    OBVIOUS
  <2>2. q \in PostRecord /\ PostFits(q, fate, wanted.asked)
    BY <1>8
  <2>3. PICK w, w2, ft2 : w = wanted.asked /\ w2 = wanted'.asked /\ ft2 = fate'
    OBVIOUS
  <2>4. w \subseteq w2 /\ \A a \in Attachment : fate[a] # "none" => ft2[a] # "none"
    BY <1>4, <1>5, <2>3
  <2>5. PostFits(q, ft2, w2)
    BY <2>2, <2>3, <2>4, PostStays
  <2>6. QED
    BY <2>3, <2>5
<1>10. \A a \in Attachment : AttachmentFits(a, pending'[a], sending'[a], fate'[a], stray',
                                            wanted'.asked, posts')
  BY <1>4, <1>5, <1>8 DEF AttachmentFits
<1>11. wanted.asked \subseteq wanted'.asked /\ losses' \in Nat /\ forms' \in Nat
  BY <1>3, <1>4, FormFacts
<1>12. QED
  BY <1>4, <1>5, <1>6, <1>8, <1>9, <1>10, <1>11, FilesChange

LEMMA LoseCancelStep ==
    ASSUME FormInv, NEW r \in posts, Form!LoseCancel(r)
    PROVE  FormInv'
<1>1. /\ UNCHANGED <<sheet, pending, sending, fate, tickets, wanted, forms>>
      /\ losses' = losses + 1 /\ posts' = posts \ {r} /\ stray' = stray \cup r.files
      /\ r.kind = "cancel"
  BY DEF Form!LoseCancel, Form!Loss
<1>2. r.files \in SUBSET Attachment
  BY FormFacts, PostFields
<1>3. \A a \in Attachment : /\ Cancels(posts, a) => a \in r.files \/ Cancels(posts', a)
                            /\ Copies(posts', a) => Copies(posts, a)
  BY <1>1 DEF Cancels, Copies
<1>4. \A a \in Attachment : AttachmentFits(a, pending[a], sending[a], fate[a], stray',
                                           wanted.asked, posts')
  BY <1>1, <1>3, FileFacts DEF AttachmentFits
<1>5. posts' \in SUBSET PostRecord /\ stray' \in SUBSET Attachment /\ losses' \in Nat
  BY <1>1, <1>2, FormFacts, FileFacts
<1>6. \A q \in posts' : q \in posts \/ PostFits(q, fate', wanted'.asked)
  BY <1>1
<1>7. QED
  BY <1>1, <1>4, <1>5, <1>6, FormFacts, FileFacts, FilesChange

LEMMA ServeCopyStep ==
    ASSUME FormInv, NEW r \in posts, Form!ServeCopy(r)
    PROVE  FormInv'
<1>1. PICK a \in Attachment : r.files = {a} /\ r.kind = "copy"
  BY DEF FormInv, PostFits, Form!ServeCopy
<1>2. (CHOOSE b \in r.files : TRUE) = a
  BY <1>1
<1>3. /\ UNCHANGED <<sheet, sending, tickets, wanted, losses, forms>>
      /\ fate' = [fate EXCEPT ![a] = "draft"] /\ posts' = posts \ {r}
      /\ IF r.awaited THEN pending' = [pending EXCEPT ![a] = "ready"] /\ UNCHANGED stray
         ELSE stray' = stray \cup {a} /\ UNCHANGED pending
  BY <1>1, <1>2 DEF Form!ServeCopy
<1>4. /\ fate' \in [Attachment -> FateOf] /\ fate'[a] = "draft"
      /\ \A b \in Attachment : b # a => fate'[b] = fate[b]
  BY <1>3, FileFacts DEF FateOf
<1>5. /\ pending' \in [Attachment -> {"out", "waiting", "ready"}] /\ stray' \in SUBSET Attachment
      /\ stray \subseteq stray' /\ (pending'[a] = "ready" \/ a \in stray')
      /\ \A b \in Attachment : b # a => pending'[b] = pending[b]
  BY <1>3, FileFacts
<1>6. Carried(posts, posts') /\ Copies(posts, a)
  BY <1>1, <1>3, CarriedWithout DEF Copies
<1>7. \A b \in Attachment : AttachmentFits(b, pending'[b], sending'[b], fate'[b], stray',
                                           wanted'.asked, posts')
  <2>1. SUFFICES ASSUME NEW b \in Attachment
                 PROVE  AttachmentFits(b, pending'[b], sending[b], fate'[b], stray',
                                       wanted.asked, posts')
    BY <1>3
  <2>2. AttachmentFits(b, pending[b], sending[b], fate[b], stray, wanted.asked, posts)
    BY FileFacts
  <2>3. CASE b = a
    <3>1. sending[a] \notin {"running", "error"}
      BY <1>6, <2>2, <2>3 DEF AttachmentFits
    <3>2. QED
      BY <1>4, <1>5, <2>3, <3>1 DEF AttachmentFits
  <2>4. CASE b # a
    <3>1. PICK x2, ps2 : x2 = stray' /\ ps2 = posts'
      OBVIOUS
    <3>2. stray \subseteq x2 /\ Carried(posts, ps2)
      BY <1>5, <1>6, <3>1
    <3>3. AttachmentFits(b, pending[b], sending[b], fate[b], x2, wanted.asked, ps2)
      BY <2>2, <3>2, AttachmentStays
    <3>4. QED
      BY <1>4, <1>5, <2>4, <3>1, <3>3
  <2>5. QED
    BY <2>3, <2>4
<1>8. posts' \in SUBSET PostRecord /\ \A q \in posts' : q \in posts
  BY <1>3, FormFacts
<1>9. \A b \in Attachment : fate[b] # "none" => fate'[b] # "none"
  BY <1>4
<1>10. QED
  BY <1>3, <1>4, <1>5, <1>7, <1>8, <1>9, FormFacts, FileFacts, FilesChange

LEMMA ServeCancelStep ==
    ASSUME FormInv, NEW r \in posts, Form!ServeCancel(r)
    PROVE  FormInv'
<1>1. /\ UNCHANGED <<sheet, pending, sending, tickets, stray, wanted, losses, forms>>
      /\ posts' = posts \ {r} /\ r.kind = "cancel"
      /\ fate' = [a \in Attachment |-> IF a \in r.files
                                       THEN IF fate[a] = "draft" THEN "cancelled" ELSE fate[a]
                                       ELSE fate[a]]
  BY DEF Form!ServeCancel, Form!Canceled
<1>2. /\ fate' \in [Attachment -> FateOf]
      /\ \A a \in Attachment : IF a \in r.files /\ fate[a] = "draft" THEN fate'[a] = "cancelled"
                               ELSE fate'[a] = fate[a]
  BY <1>1, FileFacts DEF FateOf
<1>3. \A a \in Attachment : /\ Cancels(posts, a) => a \in r.files \/ Cancels(posts', a)
                            /\ Copies(posts', a) => Copies(posts, a)
  BY <1>1 DEF Cancels, Copies
<1>4. \A a \in Attachment : AttachmentFits(a, pending[a], sending[a], fate'[a], stray,
                                           wanted.asked, posts')
  BY <1>2, <1>3, FileFacts DEF AttachmentFits
<1>5. posts' \in SUBSET PostRecord /\ \A q \in posts' : q \in posts
  BY <1>1, FormFacts
<1>6. \A a \in Attachment : fate[a] # "none" => fate'[a] # "none"
  BY <1>2
<1>7. QED
  BY <1>1, <1>2, <1>4, <1>5, <1>6, FormFacts, FileFacts, FilesChange

LEMMA ServeSaveStep ==
    ASSUME FormInv, NEW r \in posts, NEW t \in Ticket, Form!ServeSave(r, t)
    PROVE  FormInv'
<1>1. /\ r.kind = "save" /\ tickets' = Form!Stamped(t) /\ posts' = posts \ {r}
      /\ fate' = [a \in Attachment |-> IF a \in r.files THEN t
                                       ELSE IF a \in r.deletes THEN "deleted" ELSE fate[a]]
      /\ IF r.awaited THEN Form!Saved(r, t) ELSE UNCHANGED <<sheet, pending, stray, wanted>>
      /\ UNCHANGED <<sending, losses, forms>>
      /\ \A a \in r.deletes : fate[a] = t
  BY DEF Form!ServeSave, Form!Accepts
<1>2. /\ r \in PostRecord /\ r.files \in SUBSET Attachment /\ r.deletes \subseteq wanted.asked
      /\ \A a \in r.files : fate[a] # "none"
  BY <1>1, FormFacts, PostFields DEF FormInv, PostFits
<1>3. t \notin {"none", "draft", "cancelled", "deleted"}
  BY TicketsApart
<1>4. /\ fate' \in [Attachment -> FateOf]
      /\ \A a \in Attachment : /\ fate[a] # "none" => fate'[a] # "none"
                               /\ a \in r.files => fate'[a] = t
                               /\ a \notin r.files => \/ fate'[a] = fate[a]
                                                      \/ /\ fate'[a] = "deleted" /\ fate[a] = t
                                                         /\ a \in wanted.asked
  BY <1>1, <1>2, <1>3, FileFacts DEF FateOf
<1>5. tickets' \in [Ticket -> RowRecord]
  BY <1>1, FormFacts, StampedRow DEF Form!Stamped
<1>6. /\ Carried(posts, posts') /\ posts' \in SUBSET PostRecord
      /\ \A q \in posts' : q \in posts
  BY <1>1, FormFacts, CarriedWithout
<1>7. /\ sheet' \in SheetRecord /\ wanted' \in WishRecord /\ SheetFits(sheet', wanted'.marked)
      /\ wanted'.asked = wanted.asked
      /\ pending' \in [Attachment -> {"out", "waiting", "ready"}]
      /\ stray' \in SUBSET Attachment /\ stray \subseteq stray'
      /\ \A a \in Attachment : \/ pending'[a] = pending[a]
                               \/ pending'[a] = "out" /\ (a \in r.files \/ a \in stray')
  <2>1. CASE ~r.awaited
    <3>1. UNCHANGED <<sheet, pending, stray, wanted>>
      BY <1>1, <2>1
    <3>2. QED
      BY <3>1, FormFacts, FileFacts
  <2>2. CASE r.awaited
    <3>1. /\ sheet' = [sheet EXCEPT !.mode = "shown", !.ticket = t, !.busy = FALSE, !.marked = {},
                                    !.revision = tickets[t].revision + 1]
          /\ pending' = [a \in Attachment |-> "out"]
          /\ stray' = stray \cup (Form!Chosen \ r.files)
          /\ wanted' = [wanted EXCEPT !.marked = {}]
      BY <1>1, <2>2 DEF Form!Saved
    <3>2. tickets[t].revision \in Nat
      BY FormFacts DEF RowRecord
    <3>3. sheet' \in SheetRecord /\ sheet'.marked = {} /\ sheet'.ticket = t
      <4>1. sheet \in SheetRecord
        BY FormFacts
      <4>2. sheet' = [sheet EXCEPT !.mode = "shown", !.ticket = t, !.busy = FALSE, !.marked = {},
                                   !.revision = tickets[t].revision + 1]
        BY <3>1
      <4>3. sheet' = [mode |-> "shown", ticket |-> t, revision |-> tickets[t].revision + 1,
                      busy |-> FALSE, marked |-> {}]
        BY <4>1, <4>2 DEF SheetRecord
      <4>4. QED
        BY <3>2, <4>3 DEF SheetRecord
    <3>4. wanted' \in WishRecord /\ wanted'.marked = {} /\ wanted'.asked = wanted.asked
      BY <3>1, FormFacts, MarksWished
    <3>5. SheetFits(sheet', wanted'.marked)
      BY <3>3, <3>4 DEF SheetFits
    <3>6. /\ pending' \in [Attachment -> {"out", "waiting", "ready"}]
          /\ stray' \in SUBSET Attachment /\ stray \subseteq stray'
          /\ \A a \in Attachment : \/ pending'[a] = pending[a]
                                   \/ pending'[a] = "out" /\ (a \in r.files \/ a \in stray')
      BY <3>1, FileFacts DEF Form!Chosen
    <3>7. QED
      BY <3>3, <3>4, <3>5, <3>6
  <2>3. QED
    BY <2>1, <2>2
<1>8. \A a \in Attachment : AttachmentFits(a, pending'[a], sending'[a], fate'[a], stray',
                                           wanted'.asked, posts')
  <2>1. SUFFICES ASSUME NEW a \in Attachment
                 PROVE  AttachmentFits(a, pending'[a], sending[a], fate'[a], stray',
                                       wanted.asked, posts')
    BY <1>1, <1>7
  <2>2. AttachmentFits(a, pending[a], sending[a], fate[a], stray, wanted.asked, posts)
    BY FileFacts
  <2>3. PICK p2, f2, x2, ps2 : p2 = pending'[a] /\ f2 = fate'[a] /\ x2 = stray' /\ ps2 = posts'
    OBVIOUS
  <2>4. stray \subseteq x2 /\ Carried(posts, ps2)
    BY <1>6, <1>7, <2>3
  <2>5. CASE a \in r.files
    <3>1. f2 = t /\ sending[a] \notin {"running", "error"}
      BY <1>2, <1>4, <2>2, <2>3, <2>5 DEF AttachmentFits
    <3>2. AttachmentFits(a, p2, sending[a], f2, x2, wanted.asked, ps2)
      BY <1>3, <3>1 DEF AttachmentFits
    <3>3. QED
      BY <2>3, <3>2
  <2>6. CASE a \notin r.files
    <3>1. p2 = pending[a] \/ (p2 = "out" /\ a \in x2)
      BY <1>7, <2>3, <2>6
    <3>2. f2 = fate[a] \/ (f2 = "deleted" /\ fate[a] = t /\ a \in wanted.asked)
      BY <1>4, <2>3, <2>6
    <3>3. AttachmentFits(a, pending[a], sending[a], fate[a], x2, wanted.asked, ps2)
      BY <2>2, <2>4, AttachmentStays
    <3>4. AttachmentFits(a, p2, sending[a], f2, x2, wanted.asked, ps2)
      BY <1>3, <3>1, <3>2, <3>3 DEF AttachmentFits
    <3>5. QED
      BY <2>3, <3>4
  <2>7. QED
    BY <2>5, <2>6
<1>9. QED
  BY <1>1, <1>4, <1>5, <1>6, <1>7, <1>8, FormFacts, FileFacts, FilesChange

LEMMA FormStep ==
    ASSUME FormInv, [Form!Next]_sheetVars
    PROVE  FormInv'
<1>1. CASE UNCHANGED sheetVars
  BY <1>1 DEF sheetVars, FormInv, FormTyped
<1>2. CASE \E t \in Ticket \cup {None} : Form!Open(t)
  BY <1>2, OpenStep
<1>3. CASE \E a \in Attachment :
               \/ Form!Upload(a) \/ Form!UploadEnds(a) \/ Form!Retry(a) \/ Form!CancelUpload(a)
               \/ Form!Copy(a) \/ Form!PickDraft(a) \/ Form!UploadFails(a) \/ Form!Remove(a)
               \/ Form!Mark(a)
  BY <1>3, UploadStep, UploadEndsStep, SendingStep, CopyFileStep, PickDraftStep, RemoveStep,
     MarkStep
<1>4. CASE \/ Form!Edit \/ Form!Cancel \/ Form!Close \/ Form!Save
           \/ \E kd \in {"act", "delete"} : Form!Act(kd)
  BY <1>4, EditStep, CancelEditStep, CloseFormStep, SaveFormStep, ActStep
<1>5. CASE \E r \in posts :
               \/ Form!GiveUp(r) \/ Form!LoseCancel(r) \/ Form!Refuse(r)
               \/ \E t \in Ticket : Form!ServeSave(r, t)
               \/ Form!ServeAct(r) \/ Form!ServeDelete(r) \/ Form!ServeCopy(r)
               \/ Form!ServeCancel(r)
  BY <1>5, GiveUpStep, LoseCancelStep, RefuseStep, ServeSaveStep, ServeActStep, ServeDeleteStep,
     ServeCopyStep, ServeCancelStep
<1>6. CASE \E t \in Ticket : Form!EditElsewhere(t)
  BY <1>6, EditElsewhereStep
<1>7. QED
  BY <1>1, <1>2, <1>3, <1>4, <1>5, <1>6 DEF Form!Next

LEMMA FormFollows ==
    ASSUME FormInv
    PROVE  Form!TypeOK /\ Form!NoStrayDraft /\ Form!AttachedStays
<1>1. Form!TypeOK
  <2>1. FormTyped
    BY DEF FormInv
  <2>2. sheet \in [mode : {"closed", "shown", "editing"}, ticket : Ticket \cup {None},
                   revision : Nat, busy : BOOLEAN, marked : SUBSET Attachment]
    BY <2>1, Zenon DEF FormTyped, SheetRecord
  <2>3. posts \in SUBSET [kind : {"save", "act", "delete", "copy", "cancel"},
                          ticket : Ticket \cup {None}, revision : Nat,
                          files : SUBSET Attachment, deletes : SUBSET Attachment,
                          awaited : BOOLEAN]
    BY <2>1, Zenon DEF FormTyped, PostRecord
  <2>4. posts \subseteq [kind : {"save", "act", "delete", "copy", "cancel"},
                        ticket : Ticket \cup {None}, revision : Nat,
                        files : SUBSET Attachment, deletes : SUBSET Attachment,
                        awaited : BOOLEAN]
    BY <2>3, Zenon
  <2>5. stray \subseteq Attachment
    BY <2>1 DEF FormTyped
  <2>6. /\ fate \in [Attachment -> {"none", "draft", "cancelled", "deleted"} \cup Ticket]
        /\ tickets \in [Ticket -> [row : {"none", "open", "gone"}, revision : Nat]]
        /\ wanted \in [marked : SUBSET Attachment, asked : SUBSET Attachment]
    BY <2>1, Zenon DEF FormTyped, FateOf, RowRecord, WishRecord
  <2>7. /\ pending \in [Attachment -> {"out", "waiting", "ready"}]
        /\ sending \in [Attachment -> {"none", "running", "complete", "error"}]
        /\ losses \in Nat /\ forms \in Nat
    BY <2>1, Zenon DEF FormTyped
  <2>8. QED
    BY <2>2, <2>4, <2>5, <2>6, <2>7, Zenon DEF Form!TypeOK
<1>2. Form!NoStrayDraft
  BY DEF FormInv, AttachmentFits, Cancels, Form!NoStrayDraft
<1>3. Form!AttachedStays
  BY DEF FormInv, AttachmentFits, Form!AttachedStays
<1>4. QED
  BY <1>1, <1>2, <1>3

-----------------------------------------------------------------------------
(* The page as a whole *)

LEMMA CommandsTypes == CommandsInv => Commands!TypeOK
<1> SUFFICES ASSUME CommandsInv PROVE Commands!TypeOK
  OBVIOUS
<1>1. CommandsTyped
  BY DEF CommandsInv
<1>2. QED
  BY <1>1 DEF CommandsTyped, CommandList, EditorRecord, PutRecord, Commands!TypeOK

LEMMA PressFollows == Pressed => Remote!TypeOK /\ Remote!NoRepeatAfterRelease
<1>1. ASSUME Pressed
      PROVE  DOMAIN lane = 1 .. Len(lane)
  BY <1>1, LanePresses, LenProperties
<1>2. QED
  BY <1>1 DEF Pressed, OneHold, OneCommand, Spent, Remote!NoRepeatAfterRelease

LEMMA PartsStep ==
    ASSUME [Next]_<<focus, adbVars, uploadVars, fileVars, commandVars, listVars,
                    mailVars, viewVars, chatVars, sheetVars, remoteVars>>
    PROVE  /\ [Manager!Next]_uploadVars /\ [Lists!Next]_listVars /\ [Mailbox!Next]_mailVars
           /\ [Form!Next]_sheetVars /\ [Remote!Next]_remoteVars
<1>1. CASE UNCHANGED <<focus, adbVars, uploadVars, fileVars, commandVars, listVars,
                       mailVars, viewVars, chatVars, sheetVars, remoteVars>>
  BY <1>1
<1>2. CASE Manager!Next /\ UNCHANGED <<listVars, mailVars, sheetVars, remoteVars>>
  BY <1>2
<1>3. CASE Lists!Next /\ UNCHANGED <<uploadVars, mailVars, sheetVars, remoteVars>>
  BY <1>3
<1>4. CASE Mailbox!Next /\ UNCHANGED <<uploadVars, listVars, sheetVars, remoteVars>>
  BY <1>4
<1>5. CASE Form!Next /\ UNCHANGED <<uploadVars, listVars, mailVars, remoteVars>>
  BY <1>5
<1>6. CASE Remote!Next /\ UNCHANGED <<uploadVars, listVars, mailVars, sheetVars>>
  BY <1>6
<1>7. CASE UNCHANGED <<uploadVars, listVars, mailVars, sheetVars, remoteVars>>
  BY <1>7
<1>8. QED
  BY <1>1, <1>2, <1>3, <1>4, <1>5, <1>6, <1>7 DEF Next

\* The invariants of the parts that are proved for the page together.
PageInv ==
    /\ UploadsInv /\ ListsInv /\ WindowInv /\ FormInv
    /\ DialogsInv /\ CommandsInv /\ Pressed

LEMMA PageAlways == Spec => []PageInv
<1>1. Init => PageInv
  BY UploadsInit, ListsInit, FirstPlace, FormInit, DialogsInit, CommandsInit, PressedInit,
     RemoteHolds DEF Init, PageInv
<1>2. /\ PageInv
      /\ [Next]_<<focus, adbVars, uploadVars, fileVars, commandVars, listVars,
                  mailVars, viewVars, chatVars, sheetVars, remoteVars>>
      => PageInv'
  <2>1. SUFFICES ASSUME PageInv,
                        [Next]_<<focus, adbVars, uploadVars, fileVars, commandVars, listVars,
                                 mailVars, viewVars, chatVars, sheetVars, remoteVars>>
                 PROVE  PageInv'
    OBVIOUS
  <2>2. UploadsInv'
    BY <2>1, PartsStep, UploadsStep DEF PageInv
  <2>3. ListsInv' /\ WindowInv'
    BY <2>1, PartsStep, ListsStep, WindowStep DEF PageInv
  <2>4. FormInv'
    BY <2>1, PartsStep, FormStep DEF PageInv
  <2>5. DialogsInv' /\ CommandsInv'
    BY <2>1, FilesAndCommandsStep, DialogsStep, CommandsStep DEF PageInv
  <2>6. Pressed'
    BY <2>1, PartsStep, PressedStep, RemoteHolds DEF PageInv
  <2>7. QED
    BY <2>2, <2>3, <2>4, <2>5, <2>6 DEF PageInv
<1>3. QED
  BY <1>1, <1>2, PTL DEF Spec

\* One upload saves one file, however answers are lost and jobs are resumed, and complete
\* stands for it (upload-manager.ts:384-496); a copy that was confirmed is not sent again,
\* and a key that was released is not repeated: for any number of jobs, parts and attempts.
THEOREM NothingTwiceAlways == Spec => []NothingTwice
<1>1. PageInv => NothingTwice
  BY UploadsFollow, DialogsFollow, PressFollows DEF PageInv, NothingTwice
<1>2. QED
  BY <1>1, PageAlways, PTL

\* A canceled upload leaves no open task on the server, and the form of a ticket no draft
\* that nobody deletes; discarding the form deletes nothing the ticket has
\* (upload-manager.ts:291-307, ticket-modal.tsx:100-158, ticket-attachments.tsx).
THEOREM CancelLeavesNothingAlways == Spec => []CancelLeavesNothing
<1>1. PageInv => CancelLeavesNothing
  BY UploadsFollow, FormFollows DEF PageInv, CancelLeavesNothing
<1>2. QED
  BY <1>1, PageAlways, PTL

\* Whatever the order of the answers, the lists, the mail window, the dialogs and the
\* uploads show what the controls select once nothing is awaited.
THEOREM ShownIsCurrentAlways == Spec => []ShownIsCurrent
<1>1. PageInv => ShownIsCurrent
  BY UploadsFollow, ListsFollow, WindowFollows, DialogsFollow DEF PageInv, ShownIsCurrent
<1>2. QED
  BY <1>1, PageAlways, PTL

\* The parts of the page keep their shapes, and a job that is queued has its file.
THEOREM PageTypesAlways == Spec => []TypeOK
<1>1. PageInv => /\ Manager!TypeOK /\ Browser!TypeOK /\ Commands!TypeOK /\ Lists!TypeOK
                 /\ Mailbox!TypeOK /\ Form!TypeOK /\ Remote!TypeOK
  BY UploadsFollow, DialogsFollow, CommandsTypes, ListsFollow, WindowFollows, FormFollows,
     PressFollows DEF PageInv
<1>2. Spec => [](Adb!TypeOK /\ Terminal!TypeOK /\ Assistant!TypeOK)
  BY AdbOfPage, TransportSafe, ViewOfPage, ViewSafe, AssistantOfPage, AssistantSafe, PTL
<1>3. (/\ Manager!TypeOK /\ Browser!TypeOK /\ Commands!TypeOK /\ Lists!TypeOK
       /\ Mailbox!TypeOK /\ Form!TypeOK /\ Remote!TypeOK
       /\ Adb!TypeOK /\ Terminal!TypeOK /\ Assistant!TypeOK) <=> TypeOK
  BY DEF TypeOK
<1>4. QED
  BY <1>1, <1>2, <1>3, PageAlways, PTL
=============================================================================
