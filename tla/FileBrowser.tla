------------------------------ MODULE FileBrowser ------------------------------
(***************************************************************************)
(* The dialogs of the file browser (components/files/file-browser.tsx):    *)
(* the one that previews and edits a text file, the one that shares a      *)
(* file, the one that copies several entries, and the files picked for     *)
(* upload.  Its listing is in the module PageLists.                       *)
(*                                                                         *)
(* A text is a number; its revision, a hash of the bytes in the code, is   *)
(* the number itself.  `reads` holds the requests whose answer will be     *)
(* looked at.                                                              *)
(***************************************************************************)
EXTENDS Naturals, FiniteSets

CONSTANTS
    File,      \* text files
    Raw,       \* those the editor offers to edit by their name, .json and .sh
    Nothing,   \* no file or text
    MaxTexts,  \* bound: texts written
    Uploads    \* bound: files of one selection for upload

BrowserAssumption ==
    /\ Raw \subseteq File /\ Nothing \notin File \cup Nat
    /\ IsFiniteSet(File) /\ MaxTexts \in Nat /\ Uploads \in Nat

VARIABLES
    dialog,   \* the dialog: modal, file, content, revision, ... (see NoDialog)
    reads,    \* requests of the dialog under way
    work,     \* what `busy` stands for: the operation under way
    asking,   \* whose question conflictResolve answers
    picked,   \* uploadFiles: pc and the files left to look at
    texts,    \* texts written so far, by this page or by others
    stored,   \* server: text of every file
    seen,     \* texts that were on the screen (history)
    copied    \* entries whose copy was confirmed for this dialog (history)

browserVars == <<dialog, reads, work, asking, picked, texts, stored, seen, copied>>

NoDialog ==
    [modal |-> "none", file |-> Nothing, loading |-> FALSE, loaded |-> FALSE,
     editing |-> FALSE, conflict |-> FALSE, latest |-> Nothing, content |-> Nothing,
     revision |-> Nothing, shares |-> Nothing, batch |-> {}]

Idle == [pc |-> "idle", entry |-> Nothing, done |-> {}, text |-> Nothing, revision |-> Nothing]

Init ==
    /\ dialog = NoDialog /\ reads = {} /\ work = Idle
    /\ asking = "nobody" /\ picked = [pc |-> "idle", left |-> 0]
    /\ texts = 0 /\ stored = [f \in File |-> 0] /\ seen = {} /\ copied = {}

-----------------------------------------------------------------------------
(* preview and editor *)

\* What is left of the requests when another one replaces them.
Aborted(requests) == {}

Read(modal, f) ==
    reads' = Aborted(reads) \cup {[modal |-> modal, file |-> f]}

\* open(entry).  The revision of an earlier file stays until the text is read.
OpenFile(f) ==
    /\ dialog.modal = "none"
    /\ dialog' = [NoDialog EXCEPT !.modal = "preview", !.file = f, !.loading = TRUE,
                                  !.revision = dialog.revision, !.shares = dialog.shares]
    /\ Read("preview", f)
    /\ UNCHANGED <<work, asking, picked, texts, stored, seen, copied>>

\* The text of the file as it is when the server answers.
TextRead(r) ==
    /\ r \in reads /\ r.modal = "preview" /\ reads' = reads \ {r}
    /\ dialog' = [dialog EXCEPT !.content = stored[r.file], !.loading = FALSE,
                                !.revision = stored[r.file], !.loaded = TRUE]
    /\ seen' = seen \cup {stored[r.file]}
    /\ UNCHANGED <<work, asking, picked, texts, stored, copied>>

ReadFails(r) ==
    /\ r \in reads /\ reads' = reads \ {r}
    /\ dialog' = [dialog EXCEPT !.loading = FALSE]
    /\ UNCHANGED <<work, asking, picked, texts, stored, seen, copied>>

ToggleEdit ==
    /\ dialog.modal = "preview" /\ ~dialog.loading
    /\ dialog.loaded \/ dialog.file \in Raw
    /\ dialog' = [dialog EXCEPT !.editing = ~dialog.editing]
    /\ UNCHANGED <<reads, work, asking, picked, texts, stored, seen, copied>>

Type ==
    /\ dialog.editing /\ ~dialog.loading /\ work.pc = "idle" /\ texts < MaxTexts
    /\ texts' = texts + 1 /\ dialog' = [dialog EXCEPT !.content = texts + 1]
    /\ UNCHANGED <<reads, work, asking, picked, stored, seen, copied>>

\* Confirm in the editor: PUT of the content with the revision.
SaveText ==
    /\ dialog.modal = "preview" /\ dialog.editing /\ ~dialog.conflict /\ ~dialog.loading
    /\ work.pc = "idle" /\ dialog.content # Nothing
    /\ work' = [Idle EXCEPT !.pc = "put", !.entry = dialog.file,
                            !.text = dialog.content, !.revision = dialog.revision]
    /\ UNCHANGED <<dialog, reads, asking, picked, texts, stored, seen, copied>>

\* write_text compares the revision under the storage lock.
PutArrives ==
    /\ work.pc = "put"
    /\ IF work.revision = stored[work.entry]
       THEN /\ stored' = [stored EXCEPT ![work.entry] = work.text]
            /\ work' = [work EXCEPT !.pc = "saved"]
       ELSE work' = [work EXCEPT !.pc = "refused"] /\ UNCHANGED stored
    /\ UNCHANGED <<dialog, reads, asking, picked, texts, seen, copied>>

\* 409: the draft stays and the dialog asks to look at the latest text.
Conflict ==
    /\ work.pc = "refused" /\ work' = Idle
    /\ dialog' = [dialog EXCEPT !.conflict = TRUE]
    /\ UNCHANGED <<reads, asking, picked, texts, stored, seen, copied>>

Closed == [NoDialog EXCEPT !.revision = dialog.revision, !.shares = dialog.shares]

TextSaved ==
    /\ work.pc = "saved" /\ work' = Idle /\ dialog' = Closed
    /\ UNCHANGED <<reads, asking, picked, texts, stored, seen, copied>>

\* The answer is lost, or the request itself: the dialog stays as it is.
SaveBreaks ==
    /\ work.pc \in {"put", "saved", "refused", "latest"} /\ work' = Idle
    /\ UNCHANGED <<dialog, reads, asking, picked, texts, stored, seen, copied>>

LoadLatest ==
    /\ dialog.conflict /\ dialog.editing /\ dialog.latest = Nothing /\ work.pc = "idle"
    /\ work' = [Idle EXCEPT !.pc = "latest"]
    /\ UNCHANGED <<dialog, reads, asking, picked, texts, stored, seen, copied>>

\* Mutant of Compared: the draft is saved over whatever the server holds then.
ComparedUnread(text) ==
    dialog' = [dialog EXCEPT !.revision = text, !.conflict = FALSE] /\ UNCHANGED seen

\* setLatestFile: the latest text is shown beside the draft.
Compared(text) == dialog' = [dialog EXCEPT !.latest = text] /\ seen' = seen \cup {text}

LatestRead ==
    /\ work.pc = "latest" /\ work' = Idle /\ Compared(stored[dialog.file])
    /\ UNCHANGED <<reads, asking, picked, texts, stored, copied>>

\* "Keep my draft" and "Use latest version".
Settle(use) ==
    /\ dialog.latest # Nothing /\ dialog.editing
    /\ dialog' = [dialog EXCEPT !.revision = dialog.latest, !.latest = Nothing,
                                !.conflict = FALSE,
                                !.content = IF use THEN dialog.latest ELSE dialog.content]
    /\ UNCHANGED <<reads, work, asking, picked, texts, stored, seen, copied>>

Close ==
    /\ dialog.modal # "none" /\ work.pc = "idle"
    /\ reads' = Aborted(reads) /\ dialog' = Closed
    /\ UNCHANGED <<work, asking, picked, texts, stored, seen, copied>>

\* Somebody else saves the file, in the terminal or in another tab.
OtherEdit(f) ==
    /\ texts < MaxTexts /\ texts' = texts + 1
    /\ stored' = [stored EXCEPT ![f] = texts + 1]
    /\ UNCHANGED <<dialog, reads, work, asking, picked, seen, copied>>

-----------------------------------------------------------------------------
(* sharing *)

\* show("share", f).  The list of an earlier file stays until the new one is read.
ShowShares(f) ==
    /\ dialog.modal = "none"
    /\ dialog' = [Closed EXCEPT !.modal = "share", !.file = f, !.loading = TRUE]
    /\ Read("share", f)
    /\ UNCHANGED <<work, asking, picked, texts, stored, seen, copied>>

SharesRead(r) ==
    /\ r \in reads /\ r.modal = "share" /\ reads' = reads \ {r}
    /\ dialog' = [dialog EXCEPT !.shares = r.file, !.loading = FALSE, !.loaded = TRUE]
    /\ UNCHANGED <<work, asking, picked, texts, stored, seen, copied>>

-----------------------------------------------------------------------------
(* copying several entries, and the names of picked files *)

ShowCopy(entries) ==
    /\ dialog.modal = "none" /\ entries # {}
    /\ dialog' = [Closed EXCEPT !.modal = "copy", !.batch = entries]
    /\ reads' = Aborted(reads) /\ copied' = {}
    /\ UNCHANGED <<work, asking, picked, texts, stored, seen>>

\* The next entry, or the end: the dialog closes.
Step(done) ==
    IF dialog.batch \subseteq done
    THEN work' = Idle /\ dialog' = Closed
    ELSE /\ \E e \in dialog.batch \ done :
                work' = [Idle EXCEPT !.pc = "exists", !.entry = e, !.done = done]
         /\ UNCHANGED dialog

SubmitCopy ==
    /\ dialog.modal = "copy" /\ work.pc = "idle" /\ Step({})
    /\ UNCHANGED <<reads, asking, picked, texts, stored, seen, copied>>

\* The name is free, or a question is asked and conflictResolve is the batch's.
NameChecked(exists) ==
    /\ work.pc = "exists"
    /\ work' = [work EXCEPT !.pc = IF exists THEN "asked" ELSE "sending"]
    /\ asking' = IF exists THEN "batch" ELSE asking
    /\ UNCHANGED <<dialog, reads, picked, texts, stored, seen, copied>>

CopyAnswered(keep) ==
    /\ asking = "batch" /\ work.pc = "asked" /\ asking' = "nobody"
    /\ IF keep THEN work' = [work EXCEPT !.pc = "sending"] /\ UNCHANGED dialog
               ELSE Step(work.done \cup {work.entry})
    /\ UNCHANGED <<reads, picked, texts, stored, seen, copied>>

CopySent ==
    /\ work.pc = "sending" /\ Step(work.done \cup {work.entry})
    /\ copied' = copied \cup {work.entry}
    /\ UNCHANGED <<reads, asking, picked, texts, stored, seen>>

Remaining(done) == dialog.batch \ done

\* "retry will process only the remaining items"
CopyFails ==
    /\ work.pc \in {"exists", "sending"} /\ work' = Idle
    /\ dialog' = [dialog EXCEPT !.batch = Remaining(work.done)]
    /\ UNCHANGED <<reads, asking, picked, texts, stored, seen, copied>>

PickFiles ==
    /\ picked.pc = "idle" /\ work.pc = "idle" /\ dialog.modal = "none" /\ Uploads > 0
    /\ picked' = [pc |-> "exists", left |-> Uploads]
    /\ UNCHANGED <<dialog, reads, work, asking, texts, stored, seen, copied>>

PickNext(left) ==
    picked' = [pc |-> IF left = 0 THEN "idle" ELSE "exists", left |-> left]

\* The file is queued for upload, or the page asks whether to keep both.
PickChecked(exists) ==
    /\ picked.pc = "exists"
    /\ IF exists THEN asking' = "upload" /\ picked' = [picked EXCEPT !.pc = "asked"]
                 ELSE PickNext(picked.left - 1) /\ UNCHANGED asking
    /\ UNCHANGED <<dialog, reads, work, texts, stored, seen, copied>>

PickAnswered ==
    /\ asking = "upload" /\ asking' = "nobody" /\ PickNext(picked.left - 1)
    /\ UNCHANGED <<dialog, reads, work, texts, stored, seen, copied>>

PickFails ==
    /\ picked.pc = "exists" /\ PickNext(0)
    /\ UNCHANGED <<dialog, reads, work, asking, texts, stored, seen, copied>>

-----------------------------------------------------------------------------

Next ==
    \/ \E f \in File : OpenFile(f) \/ OtherEdit(f) \/ ShowShares(f)
    \/ \E r \in reads : TextRead(r) \/ ReadFails(r) \/ SharesRead(r)
    \/ ToggleEdit \/ Type \/ SaveText \/ PutArrives \/ Conflict \/ TextSaved \/ SaveBreaks
    \/ LoadLatest \/ LatestRead \/ Close \/ \E use \in BOOLEAN : Settle(use)
    \/ \E entries \in SUBSET File : ShowCopy(entries)
    \/ SubmitCopy \/ CopySent \/ CopyFails \/ PickFiles \/ PickAnswered \/ PickFails
    \/ \E yes \in BOOLEAN : NameChecked(yes) \/ CopyAnswered(yes) \/ PickChecked(yes)

Spec == Init /\ [][Next]_browserVars

-----------------------------------------------------------------------------

Text == 0 .. MaxTexts

\* The dialog, its requests, the batch of copies and the texts keep their shapes.
TypeOK ==
    /\ dialog \in [modal : {"none", "preview", "share", "copy"}, file : File \cup {Nothing},
                   loading : BOOLEAN, loaded : BOOLEAN, editing : BOOLEAN,
                   conflict : BOOLEAN, latest : Text \cup {Nothing},
                   content : Text \cup {Nothing}, revision : Text \cup {Nothing},
                   shares : File \cup {Nothing}, batch : SUBSET File]
    /\ reads \subseteq [modal : {"preview", "share"}, file : File]
    /\ work \in [pc : {"idle", "put", "saved", "refused", "latest", "exists", "asked",
                       "sending"},
                 entry : File \cup {Nothing}, done : SUBSET File,
                 text : Text \cup {Nothing}, revision : Text \cup {Nothing}]
    /\ asking \in {"nobody", "batch", "upload"}
    /\ picked \in [pc : {"idle", "exists", "asked"}, left : 0 .. Uploads]
    /\ texts \in Text /\ stored \in [File -> Text] /\ seen \subseteq Text
    /\ copied \subseteq File

\* A list of shares that was read belongs to the file of the dialog, and a dialog that
\* waits has its own request under way (file-browser.tsx:529-648).
DialogIsSelected ==
    /\ dialog.modal = "share" /\ dialog.loaded => dialog.shares = dialog.file
    /\ dialog.modal # "none" /\ dialog.loading
         => \E r \in reads : r.modal = dialog.modal /\ r.file = dialog.file

\* A save replaces a text that was on the screen, also after a conflict, a lost answer
\* and edits of others between the two (file-browser.tsx:649-761, 2127-2169).
NoBlindOverwrite ==
    [][\A f \in File : PutArrives /\ stored'[f] # stored[f] => stored[f] \in seen]_browserVars

\* A copy that was confirmed is not made again by the retry after a partial failure
\* (file-browser.tsx:737-754).
RetryOnlyRest == dialog.modal = "copy" /\ work.pc \in {"exists", "asked", "sending"}
                   => work.entry \notin copied
=============================================================================
