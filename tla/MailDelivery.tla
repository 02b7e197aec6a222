----------------------------- MODULE MailDelivery -----------------------------
(***************************************************************************)
(* Sending a mail: the draft in the mail window                            *)
(* (components/workbench/mail-window.tsx) and the handler of the request   *)
(* (routers/workbench_mail.py, send), which talks to an SMTP server that   *)
(* may have accepted a mail although the sender saw an error.              *)
(*                                                                         *)
(* A draft has an identifier of its own; the delivery row of that          *)
(* identifier is written before the mail is handed over and is kept for    *)
(* RETENTION, longer than a draft stays open in a tab.                     *)
(***************************************************************************)
EXTENDS Naturals, FiniteSets

CONSTANTS
    Draft,       \* identifiers of drafts
    Request,     \* requests, each used once
    NoDraft,
    MaxCrashes   \* bound: deaths of the server process

MailAssumption ==
    NoDraft \notin Draft /\ IsFiniteSet(Request) /\ MaxCrashes \in Nat

VARIABLES
    draft,      \* window: the draft that is open
    sending,    \* window: the request `act` waits for, or NoDraft
    used,       \* drafts composed so far
    posts,      \* server: [pc, draft] of every request
    delivery,   \* database: status of the delivery row of a draft
    mailed,     \* SMTP server: times it accepted the mail of a draft (history)
    confirmed,  \* drafts whose sending the window reported (history)
    deaths      \* deaths of the server process so far (bound)

mailVars == <<draft, sending, used, posts, delivery, mailed, confirmed, deaths>>

Unsent == [pc |-> "new", draft |-> NoDraft]

Init ==
    /\ draft = NoDraft /\ sending = NoDraft /\ used = {}
    /\ posts = [r \in Request |-> Unsent]
    /\ delivery = [d \in Draft |-> "none"]
    /\ mailed = [d \in Draft |-> 0] /\ confirmed = {} /\ deaths = 0

-----------------------------------------------------------------------------
(* the window *)

\* compose: a new draft with a fresh identifier.
Compose(d) ==
    /\ draft = NoDraft /\ sending = NoDraft /\ d \notin used
    /\ draft' = d /\ used' = used \cup {d}
    /\ UNCHANGED <<sending, posts, delivery, mailed, confirmed, deaths>>

\* The Send button; after a failure the same draft is sent again.
Send(r) ==
    /\ draft # NoDraft /\ sending = NoDraft /\ posts[r] = Unsent
    /\ sending' = r
    /\ posts' = [posts EXCEPT ![r] = [pc |-> "arrived", draft |-> draft]]
    /\ UNCHANGED <<draft, used, delivery, mailed, confirmed, deaths>>

\* setDraft(null): only the answer of a mail that was sent closes the draft.
Answered(r) ==
    /\ sending = r /\ posts[r].pc = "sent"
    /\ sending' = NoDraft /\ draft' = NoDraft
    /\ confirmed' = confirmed \cup {posts[r].draft}
    /\ posts' = [posts EXCEPT ![r].pc = "over"]
    /\ UNCHANGED <<used, delivery, mailed, deaths>>

\* An error, no answer within 120 s, or a broken connection: the request may
\* still be under way.
SendFails(r) ==
    /\ sending = r /\ sending' = NoDraft
    /\ UNCHANGED <<draft, used, posts, delivery, mailed, confirmed, deaths>>

Discard ==
    /\ draft # NoDraft /\ sending = NoDraft /\ draft' = NoDraft
    /\ UNCHANGED <<sending, used, posts, delivery, mailed, confirmed, deaths>>

-----------------------------------------------------------------------------
(* the server *)

Goes(r, pc) == posts' = [posts EXCEPT ![r].pc = pc]

\* Mutant of Recorded: the row is only written with the outcome.
RecordedAfterwards(d) == UNCHANGED delivery

\* The row is committed before the mail is handed over.
Recorded(d) == delivery' = [delivery EXCEPT ![d] = "sending"]

\* Under the advisory lock of the draft: the first request records the
\* delivery, one that finds a row never sends again.
Begin(r) ==
    LET d == posts[r].draft IN
    /\ posts[r].pc = "arrived"
    /\ CASE delivery[d] = "none" -> Recorded(d) /\ Goes(r, "transport")
         [] delivery[d] = "sent" -> Goes(r, "sent") /\ UNCHANGED delivery
         [] OTHER -> Goes(r, "over") /\ UNCHANGED delivery
    /\ UNCHANGED <<draft, sending, used, mailed, confirmed, deaths>>

\* The SMTP server accepts the mail; saving a copy never raises.
Accepted(r) ==
    /\ posts[r].pc = "transport" /\ Goes(r, "accepted")
    /\ mailed' = [mailed EXCEPT ![posts[r].draft] = @ + 1]
    /\ UNCHANGED <<draft, sending, used, delivery, confirmed, deaths>>

\* The answer of the SMTP server is lost: it took the mail, transport.send raises.
AcceptedUnheard(r) ==
    /\ posts[r].pc = "transport" /\ Goes(r, "raised")
    /\ mailed' = [mailed EXCEPT ![posts[r].draft] = @ + 1]
    /\ UNCHANGED <<draft, sending, used, delivery, confirmed, deaths>>

Refused(r) ==
    /\ posts[r].pc = "transport" /\ Goes(r, "raised")
    /\ UNCHANGED <<draft, sending, used, delivery, mailed, confirmed, deaths>>

\* The second commit: the outcome as far as it is known.
RecordOutcome(r) ==
    /\ posts[r].pc \in {"accepted", "raised"}
    /\ delivery' = [delivery EXCEPT ![posts[r].draft] =
                        IF posts[r].pc = "accepted" THEN "sent" ELSE "unknown"]
    /\ Goes(r, IF posts[r].pc = "accepted" THEN "sent" ELSE "over")
    /\ UNCHANGED <<draft, sending, used, mailed, confirmed, deaths>>

\* The process dies: every request it served ends, the rows stay.
Crash ==
    /\ deaths < MaxCrashes /\ deaths' = deaths + 1
    /\ posts' = [r \in Request |->
                    IF posts[r] = Unsent THEN Unsent ELSE [posts[r] EXCEPT !.pc = "over"]]
    /\ UNCHANGED <<draft, sending, used, delivery, mailed, confirmed>>

Next ==
    \/ \E d \in Draft : Compose(d)
    \/ Discard \/ Crash
    \/ \E r \in Request :
           \/ Send(r) \/ Answered(r) \/ SendFails(r) \/ Begin(r)
           \/ Accepted(r) \/ AcceptedUnheard(r) \/ Refused(r) \/ RecordOutcome(r)

Spec == Init /\ [][Next]_mailVars

-----------------------------------------------------------------------------

\* The draft, the requests and the delivery rows keep their shapes.
TypeOK ==
    /\ draft \in Draft \cup {NoDraft} /\ sending \in Request \cup {NoDraft}
    /\ used \subseteq Draft /\ confirmed \subseteq Draft
    /\ posts \in [Request -> [pc : {"new", "arrived", "transport", "accepted",
                                    "raised", "sent", "over"},
                              draft : Draft \cup {NoDraft}]]
    /\ delivery \in [Draft -> {"none", "sending", "sent", "unknown"}]
    /\ mailed \in [Draft -> Nat] /\ deaths \in Nat

\* A draft reaches the recipients at most once, whatever the window repeats after an
\* answer that never came, and a draft the window closed as sent did reach them.
SentOnce ==
    /\ \A d \in Draft : mailed[d] <= 1
    /\ \A d \in confirmed : mailed[d] = 1
=============================================================================
