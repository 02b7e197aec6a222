------------------------------ MODULE MailWindow ------------------------------
(***************************************************************************)
(* The mail window (components/workbench/mail-window.tsx): the list of a   *)
(* folder, which an effect fetches 250 ms after anything it depends on     *)
(* changed and every action fetches again, and the reader, which a click   *)
(* or a linked message opens and which also marks the mail read on the     *)
(* server.  The requests of the list carry a version, those of the effect  *)
(* can be aborted as well; the requests of the reader carry a version.     *)
(*                                                                         *)
(* Sending is the module MailDelivery.  A mail is kept in one folder, and  *)
(* the list of a folder is named by the folder and its page.               *)
(***************************************************************************)
EXTENDS Naturals

CONSTANTS
    Folder,
    Letter,    \* mails
    Nowhere,   \* no folder, no mail
    FolderOf,  \* [Letter -> Folder]
    MaxSteps   \* bound: choices of the user and answers of the poll

WindowAssumption ==
    /\ FolderOf \in [Letter -> Folder] /\ Nowhere \notin Folder \cup Letter
    /\ MaxSteps \in Nat

VARIABLES
    window,   \* the window is open
    place,    \* folder and page its controls select
    items,    \* folder and page of the rows, or Nowhere
    wait,     \* the effect's timer of 250 ms runs
    lists,    \* requests for a list: place, and whether the effect can abort it
    failed,   \* parts whose last request failed: "list", "reader"
    acting,   \* `act`: idle, acting, or listing
    letter,   \* the mail on screen, or Nowhere
    opening,  \* mails whose read request will be looked at
    writing,  \* a draft is open
    linked,   \* the mail a workbench message linked to, once opened
    chosen,   \* the mail the user chose last, or Nowhere (history)
    steps     \* bound

windowVars == <<window, place, items, wait, lists, failed, acting, letter,
                opening, writing, linked, chosen, steps>>

Place == [folder : Folder, page : 1 .. 2]

Init ==
    /\ window = TRUE
    /\ place \in {p \in Place : p.page = 1} /\ items = Nowhere /\ wait = TRUE
    /\ lists = {} /\ failed = {} /\ acting = "idle" /\ letter = Nowhere
    /\ opening = {} /\ writing = FALSE /\ linked = Nowhere /\ chosen = Nowhere
    /\ steps = 0

Count == steps < MaxSteps /\ steps' = steps + 1

-----------------------------------------------------------------------------
(* the list *)

\* The cleanup of the effect, and its next timer.
Rearm == wait' = window' /\ lists' = {l \in lists : ~l.effect}

\* What the next version leaves of the requests before it.
Newest(requests) == {}

Ask(effect) == lists' = Newest(lists) \cup {[place |-> place, effect |-> effect]}

\* setPage(response.page): the server answers with a page that exists; a page
\* that differs runs the effect again.
ListAnswers(l) ==
    /\ l \in lists /\ items' = l.place /\ failed' = failed \ {"list"}
    /\ place' = [place EXCEPT !.page = l.place.page]
    /\ IF place' = place
       THEN lists' = lists \ {l} /\ UNCHANGED wait
       ELSE wait' = window /\ lists' = {k \in lists \ {l} : ~k.effect}
    /\ UNCHANGED <<window, acting, letter, opening, writing, linked, chosen, steps>>

ListFails(l) ==
    /\ l \in lists /\ lists' = lists \ {l} /\ failed' = failed \cup {"list"}
    /\ UNCHANGED <<window, place, items, wait, acting, letter, opening, writing,
                   linked, chosen, steps>>

WaitEnds ==
    /\ wait /\ wait' = FALSE /\ Ask(TRUE)
    /\ UNCHANGED <<window, place, items, failed, acting, letter, opening, writing,
                   linked, chosen, steps>>

\* load: mailboxes and folders, every 5 s; the list is fetched again.
Load ==
    /\ window /\ Count /\ UNCHANGED window /\ Rearm
    /\ UNCHANGED <<place, items, failed, acting, letter, opening, writing, linked, chosen>>

\* The reader is left when another folder, or another search, is chosen.
ClearReader == opening' = {} /\ letter' = Nowhere /\ chosen' = Nowhere

SelectFolder(f) ==
    /\ window /\ f # place.folder /\ Count
    /\ place' = [folder |-> f, page |-> 1] /\ UNCHANGED window /\ Rearm
    /\ ClearReader /\ failed' = failed \ {"reader"}
    /\ UNCHANGED <<items, acting, writing, linked>>

TurnPage ==
    /\ window /\ ~writing /\ letter = Nowhere /\ opening = {} /\ Count
    /\ place' = [place EXCEPT !.page = 3 - @] /\ UNCHANGED window /\ Rearm
    /\ UNCHANGED <<items, failed, acting, letter, opening, writing, linked, chosen>>

\* Synchronising, rules, folders, sending: the overview and the list follow.
Act ==
    /\ window /\ acting = "idle" /\ Count /\ acting' = "acting"
    /\ UNCHANGED <<window, place, items, wait, lists, failed, letter, opening, writing,
                   linked, chosen>>

\* load and currentList run in one go, before the effect that load's data causes.
ActLists ==
    /\ acting = "acting" /\ acting' = "listing"
    /\ lists' = {[place |-> place, effect |-> FALSE]} /\ wait' = window
    /\ UNCHANGED <<window, place, items, failed, letter, opening, writing, linked, chosen, steps>>

\* The action fails, or the answer to its list came, looked at or not.
ActEnds ==
    /\ \/ acting = "acting"
       \/ acting = "listing" /\ \A l \in lists : l.effect
    /\ acting' = "idle"
    /\ UNCHANGED <<window, place, items, wait, lists, failed, letter, opening, writing,
                   linked, chosen, steps>>

-----------------------------------------------------------------------------
(* the reader *)

\* readMail: a newer version, the older requests are not looked at.
ReadMail(m) ==
    /\ opening' = Newest(opening) \cup {m} /\ chosen' = m
    /\ failed' = failed \ {"reader"}

\* A click on a row; rows are on screen only without mail and draft.
Click(m) ==
    /\ window /\ ~writing /\ letter = Nowhere /\ opening = {} /\ Count
    /\ items # Nowhere /\ items.folder = FolderOf[m]
    /\ ReadMail(m)
    /\ UNCHANGED <<window, place, items, wait, lists, acting, letter, writing, linked>>

\* A linked message opens once, and not over a draft.
OpenLinked(m) ==
    /\ window /\ ~writing /\ linked # m /\ Count /\ linked' = m
    /\ ReadMail(m)
    /\ UNCHANGED <<window, place, items, wait, lists, acting, letter, writing>>

\* The mail is shown and its mailbox selected; the load it starts is Load.
MailRead(m) ==
    /\ m \in opening /\ opening' = opening \ {m} /\ letter' = m
    /\ place' \in {place, [folder |-> FolderOf[m], page |-> 1]}
    /\ IF place' = place THEN UNCHANGED <<wait, lists>> ELSE UNCHANGED window /\ Rearm
    /\ UNCHANGED <<window, items, failed, acting, writing, linked, chosen, steps>>

ReadFails(m) ==
    /\ m \in opening /\ opening' = opening \ {m} /\ failed' = failed \cup {"reader"}
    /\ UNCHANGED <<window, place, items, wait, lists, acting, letter, writing, linked,
                   chosen, steps>>

Back ==
    /\ letter # Nowhere /\ ~writing /\ opening = {} /\ ClearReader
    /\ UNCHANGED <<window, place, items, wait, lists, failed, acting, writing, linked, steps>>

\* compose: a request of the reader is given up, the mail on screen stays behind
\* the draft.
Compose ==
    /\ window /\ ~writing /\ Count /\ writing' = TRUE
    /\ opening' = {} /\ chosen' = letter
    /\ UNCHANGED <<window, place, items, wait, lists, failed, acting, letter, linked>>

\* Sent or discarded.
EndDraft ==
    /\ writing /\ writing' = FALSE
    /\ UNCHANGED <<window, place, items, wait, lists, failed, acting, letter, opening,
                   linked, chosen, steps>>

\* Closing gives up the reader's request and the effect; opening starts both.
Close ==
    /\ window /\ Count /\ window' = FALSE /\ Rearm
    /\ opening' = {} /\ linked' = Nowhere /\ chosen' = letter
    /\ UNCHANGED <<place, items, failed, acting, letter, writing>>

Open ==
    /\ ~window /\ window' = TRUE /\ Rearm
    /\ UNCHANGED <<place, items, failed, acting, letter, opening, writing, linked, chosen, steps>>

Next ==
    \/ \E f \in Folder : SelectFolder(f)
    \/ \E m \in Letter : Click(m) \/ OpenLinked(m) \/ MailRead(m) \/ ReadFails(m)
    \/ \E l \in lists : ListAnswers(l) \/ ListFails(l)
    \/ WaitEnds \/ Load \/ TurnPage \/ Act \/ ActLists \/ ActEnds
    \/ Back \/ Compose \/ EndDraft \/ Close \/ Open

Spec == Init /\ [][Next]_windowVars

-----------------------------------------------------------------------------

\* The window, its requests and the mail on screen keep their shapes.
TypeOK ==
    /\ {window, wait, writing} \subseteq BOOLEAN
    /\ place \in Place /\ items \in Place \cup {Nowhere}
    /\ lists \subseteq [place : Place, effect : BOOLEAN]
    /\ failed \subseteq {"list", "reader"} /\ acting \in {"idle", "acting", "listing"}
    /\ {letter, linked, chosen} \subseteq Letter \cup {Nowhere}
    /\ opening \subseteq Letter /\ steps \in Nat

\* Whatever the order of the answers: once no list is awaited, an open window lists
\* the folder and page its controls select, and once no mail is awaited the mail on
\* screen is the one that was chosen last.
WindowIsCurrent ==
    /\ window /\ ~wait /\ lists = {} /\ "list" \notin failed => items = place
    /\ opening = {} /\ "reader" \notin failed => letter = chosen
=============================================================================
