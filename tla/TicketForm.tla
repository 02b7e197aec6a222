----------------------------- MODULE TicketForm -----------------------------
(***************************************************************************)
(* The form of a ticket (ticket-modal.tsx, ticket-attachments.tsx): files  *)
(* are uploaded or copied as drafts while it is edited, and a save binds   *)
(* them.  An upload is its job's phase here (UploadManager has the rest),  *)
(* the moves of a save are those of TicketFiles.                           *)
(*                                                                         *)
(* A request stays in posts until the server answers it; one the client    *)
(* gave up may still arrive, or stays there.                               *)
(***************************************************************************)
EXTENDS Naturals

CONSTANTS
    Attachment,   \* files the user may attach
    Ticket,       \* tickets, each created once
    None,         \* no ticket: a form for a new one
    MaxRevision,  \* bound: revisions of a ticket
    MaxLosses,    \* bound: requests that are given up or lost
    MaxForms      \* bound: forms that are opened

FormAssumption ==
    /\ None \notin Ticket /\ Ticket \cap {"none", "draft", "cancelled", "deleted"} = {}
    /\ MaxRevision \in Nat /\ MaxLosses \in Nat /\ MaxForms \in Nat

VARIABLES
    sheet,     \* the form: mode, ticket and revision of its record, the request it awaits
               \* (busy), deletedAttachmentIds (marked)
    pending,   \* pendingAttachments: without a task (waiting), or with the id of a draft
    sending,   \* phase of the upload job; "none" when it was canceled or is not listed
    fate,      \* the server: nothing, a draft, the ticket that owns it, or how it ended
    tickets,   \* rows
    posts,     \* requests on their way
    stray,     \* history: drafts the form lost sight of
    wanted,    \* history: attachments marked in this edit, and those somebody asked to delete
    losses, forms

sheetVars == <<sheet, pending, sending, fate, tickets, posts, stray, wanted, losses, forms>>

Closed == [mode |-> "closed", ticket |-> None, revision |-> 0, busy |-> FALSE, marked |-> {}]

Init ==
    /\ sheet = Closed
    /\ pending = [a \in Attachment |-> "out"] /\ sending = [a \in Attachment |-> "none"]
    /\ fate = [a \in Attachment |-> "none"]
    /\ tickets = [t \in Ticket |-> [row |-> "none", revision |-> 0]]
    /\ posts = {} /\ stray = {} /\ wanted = [marked |-> {}, asked |-> {}] /\ losses = 0 /\ forms = 0

\* Saves, comments and the like, deletions: of the record as the form knows it.
Post(kind, fs, deletes) ==
    [kind |-> kind, ticket |-> sheet.ticket, revision |-> sheet.revision, files |-> fs,
     deletes |-> deletes, awaited |-> TRUE]

\* Copies and cancels: of one file.
About(kind, a, awaited) ==
    [kind |-> kind, ticket |-> None, revision |-> 0, files |-> {a}, deletes |-> {},
     awaited |-> awaited]

Loss == losses < MaxLosses /\ losses' = losses + 1

-----------------------------------------------------------------------------
(* the form *)

\* A new ticket is edited at once, one from the list if it was opened for that.
Open(t) ==
    /\ sheet.mode = "closed" /\ forms < MaxForms /\ forms' = forms + 1
    /\ IF t = None THEN sheet' = [Closed EXCEPT !.mode = "editing"]
       ELSE /\ tickets[t].row = "open"
            /\ \E mode \in {"shown", "editing"} :
                   sheet' = [Closed EXCEPT !.mode = mode, !.ticket = t,
                                           !.revision = tickets[t].revision]
    /\ UNCHANGED <<pending, sending, fate, tickets, posts, stray, wanted, losses>>

Edit ==
    /\ sheet.mode = "shown" /\ ~sheet.busy /\ sheet' = [sheet EXCEPT !.mode = "editing"]
    /\ UNCHANGED <<pending, sending, fate, tickets, posts, stray, wanted, losses, forms>>

Editable == sheet.mode = "editing" /\ ~sheet.busy

\* An attachment stands for one file that is sent, or copied, once.
Fresh(a) ==
    /\ pending[a] = "out" /\ sending[a] = "none" /\ fate[a] = "none"
    /\ ~\E r \in posts : r.kind = "copy" /\ a \in r.files

Upload(a) ==
    /\ Editable /\ Fresh(a)
    /\ pending' = [pending EXCEPT ![a] = "waiting"] /\ sending' = [sending EXCEPT ![a] = "running"]
    /\ UNCHANGED <<sheet, fate, tickets, posts, stray, wanted, losses, forms>>

\* The promise of the job, or the effect that watches the jobs after a retry.
UploadEnds(a) ==
    /\ sending[a] = "running" /\ sending' = [sending EXCEPT ![a] = "complete"]
    /\ fate' = [fate EXCEPT ![a] = "draft"]
    /\ pending' = [pending EXCEPT ![a] = IF @ = "out" THEN @ ELSE "ready"]
    /\ UNCHANGED <<sheet, tickets, posts, stray, wanted, losses, forms>>

\* The attachment stays pending, with an error, and keeps the form from being saved.
UploadFails(a) ==
    /\ sending[a] = "running" /\ sending' = [sending EXCEPT ![a] = "error"]
    /\ UNCHANGED <<sheet, pending, fate, tickets, posts, stray, wanted, losses, forms>>

Retry(a) ==
    /\ sending[a] = "error" /\ sending' = [sending EXCEPT ![a] = "running"]
    /\ UNCHANGED <<sheet, pending, fate, tickets, posts, stray, wanted, losses, forms>>

\* In the list of uploads an open job is canceled, or a finished one leaves the list.
CancelUpload(a) ==
    /\ sending[a] # "none" /\ sending' = [sending EXCEPT ![a] = "none"]
    /\ UNCHANGED <<sheet, pending, fate, tickets, posts, stray, wanted, losses, forms>>

Copying == \E r \in posts : r.kind = "copy" /\ r.awaited

\* A file of the personal space is copied by the server; the form goes on meanwhile.
Copy(a) ==
    /\ Editable /\ ~Copying /\ Fresh(a)
    /\ posts' = posts \cup {About("copy", a, TRUE)}
    /\ UNCHANGED <<sheet, pending, sending, fate, tickets, stray, wanted, losses, forms>>

\* A draft that an earlier form left is taken from the list of those.
PickDraft(a) ==
    /\ Editable /\ ~Copying /\ fate[a] = "draft" /\ pending[a] # "ready"
    /\ pending' = [pending EXCEPT ![a] = "ready"]
    /\ UNCHANGED <<sheet, sending, fate, tickets, posts, stray, wanted, losses, forms>>

Chosen == {a \in Attachment : pending[a] # "out"}

\* Jobs are canceled and drafts deleted; a job may have left the list of uploads.
Drop(s, kept, others) ==
    /\ pending' = [a \in Attachment |-> IF a \in kept THEN pending[a] ELSE "out"]
    /\ sending' = [a \in Attachment |-> IF a \in s THEN "none" ELSE sending[a]]
    /\ posts' = others \cup {About("cancel", a, FALSE) : a \in {b \in s : pending[b] = "ready"}}

Remove(a) ==
    /\ sheet.mode # "closed" /\ ~sheet.busy /\ a \in Chosen /\ Drop({a}, Chosen \ {a}, posts)
    /\ UNCHANGED <<sheet, fate, tickets, stray, wanted, losses, forms>>

\* An attachment of the record is marked for deletion, or the mark is taken back.
Mark(a) ==
    /\ Editable /\ sheet.ticket # None /\ fate[a] = sheet.ticket
    /\ sheet' = [sheet EXCEPT !.marked = IF a \in @ THEN @ \ {a} ELSE @ \cup {a}]
    /\ wanted' = [wanted EXCEPT !.marked = IF a \in sheet.marked THEN @ \ {a} ELSE @ \cup {a}]
    /\ UNCHANGED <<pending, sending, fate, tickets, posts, stray, losses, forms>>

\* resetDraft: the form shows the record again; a copy under way is not called back.
Cancel ==
    /\ Editable /\ sheet.ticket # None
    /\ sheet' = [sheet EXCEPT !.mode = "shown", !.marked = {}] /\ Drop(Chosen, {}, posts)
    /\ wanted' = [wanted EXCEPT !.marked = {}]
    /\ UNCHANGED <<fate, tickets, stray, losses, forms>>

\* Nobody waits for the answers any more.
Forgotten(s) == {[r EXCEPT !.awaited = FALSE] : r \in s}

\* discardAttachments, and the form is gone.
Close ==
    /\ sheet.mode # "closed" /\ ~sheet.busy /\ sheet' = Closed
    /\ Drop(Chosen, {}, Forgotten(posts)) /\ wanted' = [wanted EXCEPT !.marked = {}]
    /\ UNCHANGED <<fate, tickets, stray, losses, forms>>

\* Every pending attachment has its draft.
Save ==
    /\ Editable /\ \A a \in Chosen : pending[a] = "ready"
    /\ posts' = posts \cup {Post("save", Chosen, sheet.marked)}
    /\ sheet' = [sheet EXCEPT !.busy = TRUE]
    /\ wanted' = [wanted EXCEPT !.asked = @ \cup wanted.marked]
    /\ UNCHANGED <<pending, sending, fate, tickets, stray, losses, forms>>

\* A comment, its deletion or an analysis, or the deletion of the ticket, which remembers
\* what is pending.
Act(kind) ==
    /\ sheet.mode = "shown" /\ ~sheet.busy /\ sheet' = [sheet EXCEPT !.busy = TRUE]
    /\ posts' = posts \cup {Post(kind, IF kind = "delete" THEN Chosen ELSE {}, {})}
    /\ UNCHANGED <<pending, sending, fate, tickets, stray, wanted, losses, forms>>

Answered(r) == IF r.awaited /\ r.kind # "copy" THEN [sheet EXCEPT !.busy = FALSE] ELSE sheet

\* The request fails at the client, and may still arrive.
GiveUp(r) ==
    /\ r.awaited /\ Loss /\ sheet' = Answered(r)
    /\ posts' = (posts \ {r}) \cup Forgotten({r})
    /\ UNCHANGED <<pending, sending, fate, tickets, stray, wanted, forms>>

\* Nobody notices that a draft was not deleted.
LoseCancel(r) ==
    /\ r.kind = "cancel" /\ Loss /\ posts' = posts \ {r} /\ stray' = stray \cup r.files
    /\ UNCHANGED <<sheet, pending, sending, fate, tickets, wanted, forms>>

-----------------------------------------------------------------------------
(* the server *)

\* A request is refused: a stale revision, an attachment that is no draft any more, a
\* field, a quota, an error.
Refuse(r) ==
    /\ r.awaited /\ posts' = posts \ {r} /\ sheet' = Answered(r)
    /\ UNCHANGED <<pending, sending, fate, tickets, stray, wanted, losses, forms>>

Stamped(t) == [tickets EXCEPT ![t] = [row |-> "open", revision |-> @.revision + 1]]

\* What a save asks of the ticket and of its attachments; one it has already is skipped.
Accepts(r, t) ==
    /\ IF r.ticket = None THEN tickets[t].row = "none"
       ELSE t = r.ticket /\ tickets[t] = [row |-> "open", revision |-> r.revision]
    /\ \A a \in r.files : fate[a] = "draft" \/ (fate[a] = t /\ a \notin r.deletes)
    /\ \A a \in r.deletes : fate[a] = t

\* The form forgets what is pending, also what was added while it waited.
Saved(r, t) ==
    /\ sheet' = [sheet EXCEPT !.mode = "shown", !.ticket = t, !.busy = FALSE, !.marked = {},
                              !.revision = tickets[t].revision + 1]
    /\ pending' = [a \in Attachment |-> "out"] /\ stray' = stray \cup (Chosen \ r.files)
    /\ wanted' = [wanted EXCEPT !.marked = {}]

ServeSave(r, t) ==
    /\ r.kind = "save" /\ Accepts(r, t) /\ tickets[t].revision < MaxRevision
    /\ tickets' = Stamped(t) /\ posts' = posts \ {r}
    /\ fate' = [a \in Attachment |-> IF a \in r.files THEN t
                                      ELSE IF a \in r.deletes THEN "deleted" ELSE fate[a]]
    /\ IF r.awaited THEN Saved(r, t) ELSE UNCHANGED <<sheet, pending, stray, wanted>>
    /\ UNCHANGED <<sending, losses, forms>>

\* The record is fetched again, which may fail.
ServeAct(r) ==
    LET t == r.ticket IN
    /\ r.kind = "act" /\ tickets[t].row = "open" /\ tickets[t].revision < MaxRevision
    /\ tickets' = Stamped(t) /\ posts' = posts \ {r}
    /\ \/ sheet' = Answered(r)
       \/ r.awaited /\ sheet' = [Answered(r) EXCEPT !.revision = tickets[t].revision + 1]
    /\ UNCHANGED <<pending, sending, fate, stray, wanted, losses, forms>>

\* The ticket goes with its attachments, and the form with what was pending when the
\* deletion was asked for.
ServeDelete(r) ==
    LET of == {a \in Attachment : fate[a] = r.ticket} IN
    /\ r.kind = "delete" /\ tickets[r.ticket] = [row |-> "open", revision |-> r.revision]
    /\ tickets' = [tickets EXCEPT ![r.ticket].row = "gone"]
    /\ fate' = [a \in Attachment |-> IF a \in of THEN "deleted" ELSE fate[a]]
    /\ wanted' = [wanted EXCEPT !.asked = @ \cup of]
    /\ IF r.awaited
       THEN /\ sheet' = Closed /\ stray' = stray \cup (Chosen \ r.files)
            /\ Drop(r.files, {}, Forgotten(posts \ {r}))
       ELSE posts' = posts \ {r} /\ UNCHANGED <<sheet, pending, sending, stray>>
    /\ UNCHANGED <<losses, forms>>

\* The copy joins what is pending in the form that asked for it, whatever it shows now.
ServeCopy(r) ==
    LET a == CHOOSE b \in r.files : TRUE IN
    /\ r.kind = "copy" /\ fate' = [fate EXCEPT ![a] = "draft"] /\ posts' = posts \ {r}
    /\ IF r.awaited THEN pending' = [pending EXCEPT ![a] = "ready"] /\ UNCHANGED stray
       ELSE stray' = stray \cup r.files /\ UNCHANGED pending
    /\ UNCHANGED <<sheet, sending, tickets, wanted, losses, forms>>

\* An attachment that a ticket owns is managed there: cancel refuses it.
Canceled(f) == IF fate[f] = "draft" THEN "cancelled" ELSE fate[f]

ServeCancel(r) ==
    /\ r.kind = "cancel" /\ posts' = posts \ {r}
    /\ fate' = [a \in Attachment |-> IF a \in r.files THEN Canceled(a) ELSE fate[a]]
    /\ UNCHANGED <<sheet, pending, sending, tickets, stray, wanted, losses, forms>>

\* Somebody else saves the ticket.
EditElsewhere(t) ==
    /\ tickets[t].row = "open" /\ tickets[t].revision < MaxRevision /\ tickets' = Stamped(t)
    /\ UNCHANGED <<sheet, pending, sending, fate, posts, stray, wanted, losses, forms>>

Next ==
    \/ \E t \in Ticket \cup {None} : Open(t)
    \/ \E a \in Attachment :
           \/ Upload(a) \/ UploadEnds(a) \/ Retry(a) \/ CancelUpload(a) \/ Copy(a) \/ PickDraft(a)
           \/ UploadFails(a) \/ Remove(a) \/ Mark(a)
    \/ Edit \/ Cancel \/ Close \/ Save \/ \E kind \in {"act", "delete"} : Act(kind)
    \/ \E r \in posts :
           \/ GiveUp(r) \/ LoseCancel(r) \/ Refuse(r) \/ \E t \in Ticket : ServeSave(r, t)
           \/ ServeAct(r) \/ ServeDelete(r) \/ ServeCopy(r) \/ ServeCancel(r)
    \/ \E t \in Ticket : EditElsewhere(t)

Spec == Init /\ [][Next]_sheetVars

-----------------------------------------------------------------------------

\* The form, its attachments and the requests keep their shapes.
TypeOK ==
    /\ sheet \in [mode : {"closed", "shown", "editing"}, ticket : Ticket \cup {None},
                  revision : Nat, busy : BOOLEAN, marked : SUBSET Attachment]
    /\ pending \in [Attachment -> {"out", "waiting", "ready"}]
    /\ sending \in [Attachment -> {"none", "running", "complete", "error"}]
    /\ fate \in [Attachment -> {"none", "draft", "cancelled", "deleted"} \cup Ticket]
    /\ tickets \in [Ticket -> [row : {"none", "open", "gone"}, revision : Nat]]
    /\ posts \subseteq [kind : {"save", "act", "delete", "copy", "cancel"}, ticket : Ticket \cup {None},
                        revision : Nat, files : SUBSET Attachment,
                        deletes : SUBSET Attachment, awaited : BOOLEAN]
    /\ stray \subseteq Attachment /\ wanted \in [marked : SUBSET Attachment, asked : SUBSET Attachment]
    /\ losses \in Nat /\ forms \in Nat

\* A draft is shown as pending or is being deleted, however the form ended, unless its
\* deletion was lost, or its copy was given up or came while the form was being saved, was
\* being deleted or was gone.
NoStrayDraft ==
    \A a \in Attachment : fate[a] = "draft" =>
        \/ a \in stray \/ pending[a] = "ready"
        \/ \E r \in posts : r.kind = "cancel" /\ a \in r.files

\* "Cancel editing to keep it" (ticket-attachments.tsx): what a ticket has is deleted only
\* by a save with its mark or with the ticket, also when a form is discarded whose save
\* was given up and arrives before or after the deletions of its drafts.
AttachedStays == \A a \in Attachment : fate[a] = "deleted" => a \in wanted.asked
=============================================================================
