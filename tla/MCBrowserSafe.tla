---------------------------- MODULE MCBrowserSafe ----------------------------
(* What the page shows and sends: the ADB transport, uploads, the file      *)
(* browser, quick commands, the lists of several pages, the mail window,    *)
(* the terminal view, the assistant, the form of a ticket and the remote    *)
(* control.  They share no state, so a behaviour is one of the part in      *)
(* focus, and the other parts keep their initial states.                    *)
EXTENDS Naturals, Sequences, TLC

CONSTANTS
    MaxAttempts, MaxWrites, MaxOutputs,
    Job, Nobody, Parts, MaxBreaks, MaxExpiries, MaxSessions,
    File, Raw, Nothing, MaxTexts, Uploads,
    MaxIds, Body, Absent, MaxOthers, MaxSaves,
    None, Queries, MaxChanges,
    m1, m2, g1, g2, Folder, Letter, Nowhere, MaxSteps,
    Limit, Piece, Burst, MaxEmitted, MaxClears, MaxMounts,
    Providers, Retries, Chunks, MaxHistory, MaxAsked,
    Attachment, Ticket, MaxRevision, MaxLosses, MaxForms,
    MaxPresses, MaxPlugs

\* One mail in each of two folders.
FolderOf == (m1 :> g1) @@ (m2 :> g2)

VARIABLES
    focus,
    usb, adb, stream, writes, armed, chunk, toDevice, toHost, remote, acked, outputs, asked,
    jobs, run, net, task, restoring, files, gap, breaks, expiries, sessions,
    dialog, reads, work, asking, picked, texts, stored, seen, copied,
    commands, revision, failure, editor, request, catalog, ids, others, saves,
    kind, choice, shown, loading, error, timer, requests, last, changes,
    window, place, items, wait, lists, failed, acting, letter, opening, writing, linked,
    chosen, steps,
    emitted, clearedAt, transcript, view, screen, clears, mounts,
    chat, carried, thinking, reading, events, broken, route,
    sheet, pending, sending, fate, tickets, posts, stray, wanted, losses, forms,
    presses, repeats, hold, clock, timers, lane, plug, panel, down, after

adbVars == <<usb, adb, stream, writes, armed, chunk, toDevice, toHost, remote, acked,
             outputs, asked>>
uploadVars == <<jobs, run, net, task, restoring, files, gap, breaks, expiries, sessions>>
fileVars == <<dialog, reads, work, asking, picked, texts, stored, seen, copied>>
commandVars ==
    <<commands, revision, failure, editor, request, catalog, ids, others, saves>>
listVars == <<kind, choice, shown, loading, error, timer, requests, last, changes>>
mailVars == <<window, place, items, wait, lists, failed, acting, letter, opening, writing,
              linked, chosen, steps>>
viewVars == <<emitted, clearedAt, transcript, view, screen, clears, mounts>>
chatVars == <<chat, carried, thinking, reading, events, broken, route>>
sheetVars == <<sheet, pending, sending, fate, tickets, posts, stray, wanted, losses, forms>>
remoteVars == <<presses, repeats, hold, clock, timers, lane, plug, panel, down, after>>

Adb == INSTANCE AdbTransport
Manager == INSTANCE UploadManager
Browser == INSTANCE FileBrowser
Commands == INSTANCE QuickCommands
Lists == INSTANCE PageLists
Mailbox == INSTANCE MailWindow
Terminal == INSTANCE TerminalView
Assistant == INSTANCE AiChat
Form == INSTANCE TicketForm
Remote == INSTANCE RemotePress

ASSUME AdbHolds == Adb!AdbAssumption
ASSUME UploadsHold == Manager!ManagerAssumption
ASSUME FilesHold == Browser!BrowserAssumption
ASSUME CommandsHold == Commands!CommandsAssumption
ASSUME ListsHold == Lists!ListAssumption
ASSUME MailHolds == Mailbox!WindowAssumption
ASSUME TerminalHolds == Terminal!ViewAssumption
ASSUME AssistantHolds == Assistant!ChatAssumption
ASSUME FormHolds == Form!FormAssumption
ASSUME RemoteHolds == Remote!RemoteAssumption

\* A part that does not move begins in one of its initial states, whichever.
Settled ==
    /\ focus # "adb" => ~stream.v2
    /\ focus # "commands" => ids = 0
    /\ focus # "lists" => kind = "files" /\ \A q \in 1 .. Queries : last[q] = 1
    /\ focus # "mail" => place.folder = g1

Init ==
    /\ focus \in {"adb", "uploads", "files", "commands", "lists",
                 "mail", "terminal", "assistant", "form", "remote"}
    /\ Adb!Init /\ Manager!Init /\ Browser!Init /\ Commands!Init
    /\ Lists!Init /\ Mailbox!Init /\ Terminal!Init /\ Assistant!Init
    /\ Form!Init /\ Remote!Init
    /\ Settled

Next ==
    \/ /\ focus = "adb" /\ Adb!Next
       /\ UNCHANGED <<focus, uploadVars, fileVars, commandVars, listVars,
                      mailVars, viewVars, chatVars, sheetVars, remoteVars>>
    \/ /\ focus = "uploads" /\ Manager!Next
       /\ UNCHANGED <<focus, adbVars, fileVars, commandVars, listVars,
                      mailVars, viewVars, chatVars, sheetVars, remoteVars>>
    \/ /\ focus = "files" /\ Browser!Next
       /\ UNCHANGED <<focus, adbVars, uploadVars, commandVars, listVars,
                      mailVars, viewVars, chatVars, sheetVars, remoteVars>>
    \/ /\ focus = "commands" /\ Commands!Next
       /\ UNCHANGED <<focus, adbVars, uploadVars, fileVars, listVars,
                      mailVars, viewVars, chatVars, sheetVars, remoteVars>>
    \/ /\ focus = "lists" /\ Lists!Next
       /\ UNCHANGED <<focus, adbVars, uploadVars, fileVars, commandVars,
                      mailVars, viewVars, chatVars, sheetVars, remoteVars>>
    \/ /\ focus = "mail" /\ Mailbox!Next
       /\ UNCHANGED <<focus, adbVars, uploadVars, fileVars, commandVars,
                      listVars, viewVars, chatVars, sheetVars, remoteVars>>
    \/ /\ focus = "terminal" /\ Terminal!Next
       /\ UNCHANGED <<focus, adbVars, uploadVars, fileVars, commandVars,
                      listVars, mailVars, chatVars, sheetVars, remoteVars>>
    \/ /\ focus = "assistant" /\ Assistant!Next
       /\ UNCHANGED <<focus, adbVars, uploadVars, fileVars, commandVars,
                      listVars, mailVars, viewVars, sheetVars, remoteVars>>
    \/ /\ focus = "form" /\ Form!Next
       /\ UNCHANGED <<focus, adbVars, uploadVars, fileVars, commandVars,
                      listVars, mailVars, viewVars, chatVars, remoteVars>>
    \/ /\ focus = "remote" /\ Remote!Next
       /\ UNCHANGED <<focus, adbVars, uploadVars, fileVars, commandVars,
                      listVars, mailVars, viewVars, chatVars, sheetVars>>

Spec ==
    /\ Init
    /\ [][Next]_<<focus, adbVars, uploadVars, fileVars, commandVars, listVars,
                 mailVars, viewVars, chatVars, sheetVars, remoteVars>>

-----------------------------------------------------------------------------
(* Properties *)

\* Every part keeps its shapes.
TypeOK ==
    /\ Adb!TypeOK /\ Manager!TypeOK /\ Browser!TypeOK /\ Commands!TypeOK
    /\ Lists!TypeOK /\ Mailbox!TypeOK /\ Terminal!TypeOK /\ Assistant!TypeOK
    /\ Form!TypeOK /\ Remote!TypeOK

\* An acknowledgement resolves the chunk the device acknowledged: one that comes late,
\* after its write was given up, never resolves a later write; and the end of a shell
\* that was opened is always reported to its session.
AckMatchesWrite == Adb!AckMatchesWrite /\ Adb!EndReported

\* Once disconnect and the connect it interrupted have both ended, the interface is
\* free for the next connection, whatever the handshake was doing.
InterfaceFreed == Adb!InterfaceFreed

\* What succeeded or is over is not done again: however answers are lost and jobs are
\* resumed, one upload saves one file, which complete stands for; a copy that was
\* confirmed is left out when the rest of a batch is tried again; and a key of the remote
\* control that was released is not repeated.
NothingTwice ==
    /\ Manager!OneFilePerJob /\ Manager!CompleteIsSaved /\ Browser!RetryOnlyRest
    /\ Remote!NoRepeatAfterRelease

\* A canceled upload leaves no open task on the server once everything in flight has
\* ended, also when it was canceled while its task was being created; unless a create
\* or a DELETE of it failed at the client.  Nor does the form of a ticket leave a draft
\* behind, and discarding it deletes nothing that the ticket has.
CancelLeavesNothing ==
    Manager!CancelLeavesNothing /\ Form!NoStrayDraft /\ Form!AttachedStays

\* A save replaces a text, and a quick command, that was on its author's screen, also
\* after a conflict, a lost answer and edits of others between the two.
NoBlindOverwrite == Browser!NoBlindOverwrite /\ Commands!ReviewedFirst

\* Whatever the order of the answers, lists, mails, dialogs and uploads on the screen
\* are those the controls select once nothing is awaited.
ShownIsCurrent ==
    /\ Lists!RowsAreChosen /\ Mailbox!WindowIsCurrent
    /\ Browser!DialogIsSelected /\ Manager!ShownIsWorkedOn

\* Whatever arrives, is cleared or overflows while a piece is being parsed, the screen
\* ends up as an unbroken tail of the output since the last clear.
ScreenFollows == Terminal!ScreenFollows

\* "Never concatenate different attempts once output is visible": what the panel shows
\* of an answer is the beginning of one attempt, in order, whatever failed and was tried
\* again; an answer that is kept is a whole one, and only those are carried as history.
AnswerFromOneAttempt == Assistant!AnswerFromOneAttempt
=============================================================================
