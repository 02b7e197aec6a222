# Friendly AI Explorer: verification development

TLA+ models of the parts of Friendly AI Explorer in which several actors work
on one state: workers that die, requests that overtake each other, locks held
across remote calls, files and rows that are not written together, and pages
whose answers come late, twice or not at all. Every definition follows the
source; `PROJECT.json` maps it to its lines.

## 1. The system

A FastAPI backend (`src/backend/app`), a worker process of the same code base
(`workbench_worker.py`: enqueue scheduled checks every 5 s, run a check and an
automation job every second, clean up every minute), PostgreSQL with its
advisory locks as the only coordination between processes, a storage directory
on disk, and a Next.js frontend (`src/frontend`) that drives serial and ADB
devices from the browser.

The server:

| component | source | state | operations | hard behaviour | what makes it correct |
|---|---|---|---|---|---|
| check queue | `services/workbench_checks.py`, `workbench_schedule.py` | `workbench_checks`, advisory lock 74182101, one lock per user | `enqueue_manual`, `enqueue_due_checks`, `process_check` | two tabs and the scheduler insert at once; a worker or its connection dies; the user lock is taken by a mailbox refresh | one unfinished row per user and origin; only the oldest row runs; every row ends |
| collection | `services/workbench_collection.py` | `workbench_messages`, `workbench_mails` | `run_collection`, `refresh_resource`, `finish` | a row lock held over a remote call; a message changes while a job works on it | no update is hidden; locks are taken in one order |
| automation jobs | `services/workbench_service.py`, `routers/workbench.py` | `workbench_jobs`, advisory locks 74182102 and 74182103 | submit, retry, dismiss, restore, `automation_once`, `execute_step`, `cleanup` | crash between a step and its checkpoint, automation edited before a retry, rotation between automations | one active job per message, one ticket per job, executed steps are final, every queued job ends |
| mail | `services/workbench_mail_service.py`, `routers/workbench_mail.py` | mail caches, deliveries | sync, send | a lost answer of the SMTP server | an uncertain delivery is never repeated |
| uploads | `services/upload_service.py` | `upload_tasks`, part files, receipts | create, write part, finish, cancel | crash between rename and commit, lost answers | a complete task has its file; no file is lost or taken twice |
| storage | `storage_service.py`, `storage_maintenance.py`, `storage_listing.py` | entries, garbage, files | every mutation under one advisory lock; sweep, drain, reconcile | file system and database are not atomic | rows and files agree after recovery; no live file is deleted |
| tickets, attachments | `ticket_service.py`, `ticket_attachments.py` | tickets, transfer journals | create, attach, delete | moves of several files | the journal leads to the file until the row does |
| knowledge index | `knowledge_service.py` | documents, chunks, Markdown files | create, update, reload, reindex | a document changes while it is embedded | the chunks are those of the stored text, and somebody owns the index that is due |
| AI router | `ai/router.py`, `routers/ai.py` | attempts of an answer | `stream` | failures in the middle of an answer | attempts are never mixed |

The browser:

| component | source (`src/frontend/src`) | state | operations | hard behaviour | what makes it correct |
|---|---|---|---|---|---|
| device session | `lib/device-session.ts` | connection, generation, command queue, paste | connect, send, paste, disconnect | the port is replaced while a command waits; disconnect while connecting | nothing is sent to another connection; a link always has an owner |
| ADB | `lib/adb-webusb.ts` | USB handle, handshake, streams | connect, open, write, disconnect | late acknowledgements; disconnect within a handshake | an acknowledgement belongs to its write; the interface is freed |
| terminal view | `components/debug/terminal-view.tsx` | pending output, write in progress | write, clear, mount, unmount | overflow or clear during a write | the screen follows the output |
| terminal recorder | `lib/terminal-recording.ts` | cache, pending bytes, file | append, save, rotate, stop, recover | the tab dies between file and cache | output is neither lost nor duplicated |
| quick commands | `components/debug/quick-commands.tsx`, backend `command_files.py` | catalog, revision, draft | load, edit, save, conflict | others edit the file; a reload fails | nobody's change is overwritten unseen |
| upload manager | `lib/upload-manager.ts` | jobs, the run, tasks of the server | add, pause, resume, cancel | answers that arrive after a cancel | a cancelled upload leaves nothing; one file per job |
| file browser | `components/files/file-browser.tsx` | dialog, revision, batch | preview, edit, share, copy, upload | a text changes under its editor; part of a batch fails | reviewed before overwritten; only the rest is repeated |
| listing pages | ticket, catalog, device log and job pages | choice, rows | filter, turn page, poll | answers out of order | the rows are those of the choice |
| mail window | `components/workbench/mail-window.tsx` | folder, list, reader, draft | select, open, act, send | answers of an earlier folder or letter | what is shown is what is selected |
| overview | `components/workbench/workbench-page.tsx` | selection, cards, polls | select, act, drag, save an order | quiet answers during a drag, rollback | the page catches up |
| ticket form | `components/tickets/ticket-modal.tsx`, `components/files/ticket-attachments.tsx` | record, pending and marked attachments, the request awaited | edit, attach, mark, save, comment, cancel, delete | drafts and copies end while the form is saved, canceled or closed | no draft is forgotten; nothing attached is lost |
| remote control | `lib/remote-press.ts`, `components/debug/remote-control.tsx` | the press held, a timer | press, repeat, release | a command waits in the session's queue when its key is released | a released key is not repeated |
| assistant panel | `components/ai/chat-panel.tsx` | turns, the answer that is read | ask, read, new conversation | an answer that breaks off | only whole answers become history |

Interaction: a check (check queue) runs `run_collection`, which refreshes
messages; a user submits a message as a job; the worker executes it and may
create a ticket; `finish` compares the message with what the job read. Uploads,
tickets and the knowledge base meet in the storage directory and its lock. The
upload manager, the mail window and quick commands each run against a server
that may have done what the browser was told failed; the device session owns an
ADB or serial link and feeds the terminal view and the recorder, and takes the commands of the remote control. The
ticket form uploads through the upload manager and saves what `TicketFiles` moves.

## 2. Modules

| module | models | state and actions |
|---|---|---|
| `WorkbenchJobs` | messages, jobs, worker, collector, cleanup, requests | one record per row; one action per transaction. A transaction that reads before it locks, or holds a row lock during a remote call, has one action per part (`BeginRetry`, `LockRetry`, `CommitRetry`), and `MessageLocked`/`JobLocked` say which row locks exist in between |
| `UpdateInbox` | what a user may rely on: a message is offered, taken, or set aside, and an update is never hidden | abstract specification; `WorkbenchJobs` implements it (`Inbox`, `ImplementsInbox`) |
| `JobRotation` | `pick_job`'s choice of automation and job | positions, the pointer of the last automation, queues; refines the arbitrary choice of `WorkbenchJobs!PickJob` |
| `CheckQueue` | the two enqueuers, `process_check`, `run_collection`'s user lock, `sync_background` | checks, locks by holder, what each worker does; a lost connection frees the lock and leaves the collection running |
| `MailDelivery` | `send` of the router and the mail window's draft | the delivery row committed before the SMTP dialogue; the answer of SMTP, of the router and the process itself may each be lost |
| `UploadSession` | upload tasks of one user, the folder they are saved to, the garbage ledger, the sweep | rows change at a commit and files at once: a crash or a failure undoes only the rows. `finish` is one action per part (`BeginFinish`, `Publish`, `CommitFinish`), and so is `write_part`, which streams a request under a row lock (`BeginPart`, `StorePart`, `CommitPart`); everything else that owns the storage lock is one action |
| `TicketFiles` | attachments bound to a ticket, their journals, rollback, deletion, sweep and drain | a save writes a journal and moves a file per attachment, then commits; the server may die, and a move, a rollback or a commit fail, at each of these steps |
| `KnowledgeIndex` | edits of a document by page and by file, reload, rebuild, index | an operation reads, waits for the lock, commits, embeds without a lock, and replaces the chunks if the row still is what it read |
| `TerminalRecorder` | one recording of a terminal: memory, cache record, log files, recoveries | output is 1, 2, 3...; `jobs` is the promise chain `this.job` and `stage` the await its head is in; every put, write and removal may fail; the tab may die anywhere, and `recoverCachedRecording` continues with the cache record |
| `DeviceSession` | connect and disconnect calls, reader, recovery, write queue, paste | a step runs to its next await; `epoch` is the generation a call compares with, a link is a port or an ADB shell |
| `AdbTransport` | handshake, read loop, one shell, disconnect | packets in both directions are queues; the device is external |
| `TerminalView` | the pump from session to screen | `view.pending`, the piece being parsed, the transcript for a remount |
| `UploadManager` | jobs of the queue, `perform` with its retries, cancel, change of user | `run` is where `perform` awaits; requests stay in `net` until the server handled or lost them |
| `FileBrowser` | text dialog, shares, batch copy, picked uploads | `reads` are the requests whose answers count, `work` the operation `busy` stands for |
| `QuickCommands` | terminal commands against the shared catalog file | the list, its revision, the draft and its conflict; others edit the file |
| `PageLists` | five listing pages, one open at a time | a choice, the rows shown, requests that are aborted, ignored or awaited as each page's effect does |
| `MailWindow` | list and reader of the mail window | two version counters, aborted and late requests, the polls |
| `Overview` | the workbench overview | version counter, polls of a visible tab, the card in the air, the order and its save |
| `TicketForm` | the form of a ticket with its attachments, and the server's answers | `posts` are the requests, with what they were sent with; `stray` and `wanted` record which drafts the form lost by a step of its own, and what somebody asked to delete |
| `RemotePress` | the press controller, the component that feeds it and the session's queue | a press is a number, `lane` the commands that wait, `after` counts those that leave after a release |
| `AiChat` | panel, event stream and router | attempts of the router over providers, the events of an answer, turns carried as history |
| `MCWorkbenchJobs`, `MCUploadSession`, `MCServerLive`, `MCServerSafe`, `MCServerFiles`, `MCBrowserLive`, `MCBrowserSafe` | instances for TLC | constants, symmetry, and several modules side by side (section 3) |
| `WorkbenchJobsProofs`, `CheckQueueProofs` | proofs about the modules they are named after; the first also of the refinement of `UpdateInbox` | |
| `ServerSafeProofs`, `ServerLiveProofs`, `ServerFilesProofs`, `BrowserSafeProofs`, `BrowserPageProofs`, `BrowserLiveProofs` | proofs about the instances `MCServerSafe`, `MCServerLive`, `MCServerFiles`, `MCBrowserSafe` (two modules) and `MCBrowserLive`: what each part keeps, and from there what the properties of the runs say; the proofs about `UploadSession` alone are the first part of `ServerFilesProofs` | |

Abstractions. A message body is a revision number; a step is its kind; the
remote answer of a step is success or `RaiseError`; a clock is the action
`Expire` or the Boolean of an open schedule. Revisions grow by one or two per
refresh. READ COMMITTED is kept where it matters: the cleanup's `DELETE` uses
the list of its snapshot (`victims`) and rechecks only the row it waited for,
and autoflush takes the job's row lock before the message's (`FlushStatus`).

In `UploadSession` a file is who wrote it, and two writers have the same bytes
or not (`Bytes`); sizes are counted in files; the names of the folder are the
wanted one and its numbered variants. `expires_at` is the Boolean `live` and the
age of a parts folder the Boolean `old`; a folder can only be old when its task
has expired, since both run for 48 hours and a part renews the folder before the
row. The drain that follows a deletion, a cancel or a sweep starts a transaction
of its own after their commit, so it is an action, as a crash or a listing may
come in between. Task rows are kept: their removal days after they ended changes
nothing that the properties read.

In the browser modules a step is what runs between two awaits, and a React
effect runs in the same step as the state change that triggers it: an answer
that arrives between a render and its effect is an interleaving the models leave
out. A file's or a catalog's revision, a hash in the code,
is the content itself. A request is a record that is handled later: what the
client does when an answer is late, out of order or missing is an action each.

## 3. Runs

Parts that share no row and no state are checked in one run: a variable `focus`
is chosen in the initial state, only the part in focus moves, and the others
keep their initial state (`Settled` fixes it, where a part has several). A
behaviour of such a run is a behaviour of exactly one part, so its invariants are
conjunctions of theirs, and the states are the sum of the parts' states, not the
product. Parts are given the same model values for their processes and rows, so
that one symmetry set serves all of them. Fairness of a part that rests is
vacuous, as none of its fair actions is enabled in its initial state; `Overview`
is the exception and its fairness names the focus.

| run | instance | shows |
|---|---|---|
| `jobs_races` | two workers, two requests, one message, two jobs, two refreshes, a crash | `OneActiveJob`, `OnlyFailedRequeued`, `UpdateNeverHidden` and the refinement of `UpdateInbox` |
| `server_live` | jobs: one job of two steps, two saved plans, a crash; checks: one user with both origins, two tabs, two workers, two lost connections, a mailbox refresh; rotation: three automations of one user and one of another, with a reordering | `TicketOnce`, `CompletedPrefixFixed`; a queued job ends (`QueuedJobEnds`), an overtaking update surfaces (`UpdateSurfaces`), a check ends (`EveryCheckEnds`), rotation is fair (`BoundedOvertaking`, `EveryAutomationServed`) |
| `server_safe` | jobs: two messages with a job each, two workers, a crash; checks: two users, two tabs, two workers, two lost connections; mail: two drafts, three requests, a death of the server; index: two operations, two pages, two versions, a death | `OneRunningJob`: the row a dead worker left is taken over first; `ChecksInOrder`, `TickOnlyWhenIdle`; `SentOnce`; `IndexIsCurrent` |
| `server_files` | uploads: two tasks of the same bytes, two names, a file placed from outside, a crash, a lost commit; tickets: two attachments, a ticket, a fault, a crash | an open upload keeps its parts (`PartsKept`), rows have their files (`RowsHaveFiles`), a repeated completion leaves a second copy only after a crash (`OneCopyPerCrash`) |
| `browser_live` | recorder: five pieces of output, rotation at two, a queue of three, two recoveries; session: serial or ADB, two connect calls, a disconnect, a paste of two chunks, a typed command, a read error; overview: two selections, two moves, three changes, a failure | output cached or filed is never lost (`NeverForgotten`), files are the output (`FileIsOutput`), "stopped" means saved; `NothingReplayed`, `EnterEndsWholePaste`, `NoOrphanLink`; stops and disconnects end (`RequestsEnd`); the overview `CatchesUp` |
| `browser_safe` | ADB: two handshakes, two writes; uploads: one job of two parts, two attempts, a break, an expiry, a change of user; files: two texts, one of them raw, two writers' texts; commands: three ids, two bodies, two changes of others, three saves; lists: two queries, four changes; mail: a letter in each of two folders, five steps; view: seven pieces, a limit of three, two clears, two mounts; assistant: two providers, a retry each, two questions; form: two attachments, a ticket, two forms, two revisions, a lost request; remote control: three presses, three changes of the line | `AckMatchesWrite`, `InterfaceFreed`; one file per upload, no copy of a batch and no released key repeated (`NothingTwice`); no task and no draft left behind (`CancelLeavesNothing`); `NoBlindOverwrite`, `ShownIsCurrent`, `ScreenFollows`, `AnswerFromOneAttempt` |
| `jobs_lock_order` | violated | the end of a job locks job, then message; a refresh locks message, then job |
| `jobs_cleanup` | violated | a job submitted while the cleanup waits for its message is deleted |
| `uploads_ledger` | violated | a deleted file that a folder listing finds before its unlink leaves the ledger and stays |
| `commands_wiped` | violated | after a reload that failed, a save sends a catalog without the others' commands, under a revision the server accepts |
| `index_unowned` | violated | the second of two concurrent edits works from a stale row: the published document has no chunks and no operation that will make them |
| `ticket_moves` | violated | a ticket saved again before the sweep overwrites the journal that leads to the file of a move cut short |

Bounds: `MaxVisits` refreshes and `MaxCrashes` crashes. One refresh suffices
to overtake a job, a second one reopens the message it finished; a crash in
any state of a worker is covered by one; two requests, two workers and two jobs
are what a race between two of them needs. The races are over pairs: a third
request can only repeat what the second does, since each is over before a
message lock is granted to the next.

In the uploads of `server_files` one part per task is enough, because parts are
sequential and the properties look at the last one; two tasks meet in a name, the
quota of two files refuses a reservation while two names are used; one crash is
what separates a rename from its commit, and one foreign file what makes a
receipt point to other bytes. Two properties leave out states, by a history
variable the specification sets where the code does it: `SavedHasBytes` leaves
out tasks, and `AttachmentsKept` behaviours, whose commit was reported as a
failure (`lost`), because the rollback then moves files the rows count on and no
text of the source promises anything for this case; `AttachmentsKept` also leaves
out behaviours in which a journal was written over the one that led to a file
(`replaced`), which is the finding of `ticket_moves`.

In the recorder five pieces of output fill a file, rotate, and overflow the queue
behind a batch in flight; a second recovery file is what a repeated recovery
writes. Two connect calls are what one generation has to tell apart, and two
chunks of a paste what an interrupt can come between. In `browser_safe` a second
attempt, folder, draft, clear or provider is always what the stale answer of the
first one meets; `MaxSteps`, `MaxChanges` and `MaxEmitted` let the first answer
arrive after two further choices. `NoStrayDraft` leaves out drafts whose deletion
was lost, and copies that were given up or arrived while the form was being saved,
was being deleted or was gone (`stray`): the form then forgets them, and they wait
in the list of unused drafts until they expire. Two forms let the second one meet
what the first one left on its way. Deadlock is not checked in the runs whose
systems end: bounded users, a recording that was stopped, a ticket that was
deleted.

What `ChecksInOrder` does not say: that the collection of a check is over when the
next check begins. The global lock belongs to a connection, and a collection whose
connection was lost goes on under its user's lock (`LoseConnection`); the source
promises only that the queue starts checks in order.

Fairness. The worker loop polls forever, so `PickJob` and the worker's steps
are weakly fair; `Finish` and the choice of a job are strongly fair because
row locks are granted in order and the rotation reaches every row
(`EveryAutomationServed`). Requests and tracker calls have timeouts, hence
weak fairness of `AbandonRequest` and `AbortRefresh`. In `CheckQueue` a mailbox
refresh ends, a free global lock is taken by a loop that polls again and again
(strong fairness), and a connection is lost at most a bounded number of times. In
`TerminalRecorder` promises settle and timers fire while the tab lives (weak
fairness of `TimerFires` and `JobStep`); that a save finds two seconds gone since
the last file commit is strongly fair, because the clock moves on between timers.
In `DeviceSession` the browser settles a write, a closing and an opening of a port,
and the timer that a disconnect wakes. In `Overview` a visible tab polls, requests
are answered, and a card that was picked up is dropped. Users, devices that are
plugged in, submissions, crashes and lost connections are never fair.

## 4. Proofs

Each proof holds for every value of the constants the named assumptions allow.
A theorem about an instance of section 3 rests on theorems about its parts: a
behaviour of the instance is a behaviour of each part (the part in focus, or one
that never moves), which is the lemma that carries an invariant over, and what
the modules about instances use.

### Automation jobs

`WorkbenchJobsProofs` proves `Spec => []TypeOK`. The inductive invariant is
`Typed == TypeOK /\ References`: `References` says that whoever is in a
transaction refers to an existing row, which the types of `job[worker[w].job]`
and `msg[client[c].message]` need. Two inductive invariants rest on it.

* `Exclusive`: two jobs are never active for one message. It is not inductive
  by itself: a submit checks `submitted`, not the jobs. `ActiveSubmitted` says
  that an active job's message is submitted or dismissed, `SubmitAlone` that a
  submit in flight is the only owner of its message and finds no active job,
  `RetryOfRow` that a retry locks the message of its own job, and `OneHolder`
  that a message has one lock holder.
* `Checkpointed`: `made[j]` is at most one, the ticket step lies in the
  executed prefix whenever a ticket was made, and a plan has one ticket step.
  `CommitRetry` keeps the prefix, so a second ticket step is never reached.

From these and a lemma on how one row moves in a step follow
`OneActiveJobAlways`, `OneRunningJobAlways`, `TicketOnceAlways`,
`CompletedPrefixFixedAlways` and `OnlyFailedRequeuedAlways`.

Its last section proves the refinement `Spec => ImplementsInbox`: initial
states map to initial states, and each action to one of the inbox or to a
stutter. The mapping needs the invariant `Mapped`, which adds to `Exclusive`

* `Locked`: the owner of a message's row lock finds the row as it was when the
  lock was granted. A submit checked `submitted` in an earlier step than the one
  that sets it; only this invariant makes its commit a `Take` of the inbox;
* `Present`: a message that is not there has no active job and no mark, and what
  the cleanup is about to delete is there;
* `InputsRead`: no job has read a revision that is still to come, so that the
  newest update is answered by no earlier job.

`UpdateNeverHiddenAlways` then takes one line of argument: in the inbox
`NothingHidden` is inductive, and the refinement carries it over. So the property
of five interleaved actors is proved about six actions of an abstract one.

`ServerLiveProofs` proves `BoundedOvertakingAlways` of the rotation between
automations. The count of jobs that went before the oldest one is not bounded by
itself; `TurnsLeft` says that this count and the turns that are still before the
oldest job are together fewer than the automations of its user. A job that overtakes
it had an earlier turn, and all turns are counted from that one afterwards
(`AfterServed`), so what the count gains the turns lose. A job that arrives does not
move the oldest one, and another order of the automations lets the count begin again.

### Check queue, mail and index

`CheckQueueProofs` proves `TypeCorrect`, `ChecksInOrderAlways` and
`TickOnlyWhenIdleAlways`. None of the three parts of `ChecksInOrder` is inductive
alone: a request commits an insert it decided on before. `LockedOnce` says that the
row lock of a user's preference has one owner among tabs and the scheduler's batch,
and `StillMissing` that what its owner found missing is missing until it inserts it.
`OnlyOldestRuns` and `HolderOwnsOldest` support each other: the row may be removed
because it is the oldest, and stays the oldest because rows are appended.
`StillMissing` is also what `TickOnlyWhenIdle` needs, since the scheduler inserts in
a later step than the one in which it found a user idle.

`ServerSafeProofs` proves `SentOnceAlways` and `IndexIsCurrentAlways`.

* Mail: `OneSender` says that the row in status `sending` keeps all requests but
  one away from the SMTP server, and `Counted` what rows and requests know of the
  mails that left; counting the mails themselves is not inductive.
* Index: `IndexOwed` says that as long as the chunks of a document are not those of
  its stored text, some operation owes them: it has not compared the row yet
  (`Owes(o)`), or a death or an abort of the owner is on record. It holds at every
  step, while the property speaks of the end only, when nobody owes anything.

### Files

`ServerFilesProofs` begins with `UploadSession` alone, and proves `TypeCorrect` and
`PartsKeptAlways`. `PartsKept` is about the parts of open uploads; the sweep, however, decides by a folder's age.
`Folders` connects the two: an upload that is open, or writes a part, has a folder
that is not old and holds the parts its row counts, also while its task expires
behind it, and what a sweep or a cancel still removes belongs to a task that ended.
The least free number of a name exists by well-foundedness of `<`.

It also proves `SavedHasBytesAlways` and `OneCopyPerCrashAlways`, which depend on who
may still rename a file into the folder. `Renamed` says that the finish that owns
the lock works on an active task, and that the file it has renamed lies in a place no
completed task names, so that its rollback removes no other upload's bytes.
`Counted` counts the copies of an upload: at most one more than the server died, and
none more for a task that may still rename one. The step that renames uses up what
that task had left; a crash gives it back and is counted.

For the disk as a whole it proves `TicketFilesSafe` and with it `RowsHaveFilesAlways`.
`AttachmentsKept` says where the file of a row is; it is not inductive, because a
move, its undoing and the sweep decide by journals. `FilesInv` has three parts:

* `TxShaped` and `RowsShaped`: what the transaction in progress has moved and still
  has to move, and which rows and journals may exist beside it;
* `Distinct`: a file lies in one place at most, and only after its upload. That a
  folder has more names than there are files then gives every move a free name;
* `FilesPlaced`: what rows, folders of drafts, the garbage ledger and journals say of
  the disk, at each step of a save, a rollback and a deletion. A journal that a dead
  server left leads to the file it moved, so the sweep brings back the right one.

`FilesPlaced` is asked for only until a commit was reported as a failure or a journal
was overwritten (`unsure`, `replaced`), as `AttachmentsKept` itself is.

### Devices and the assistant

`BrowserSafeProofs` and `BrowserPageProofs` are about the ten parts of `MCBrowserSafe`:
the first takes the transport, the terminal view, the assistant, the remote control, the
dialogs and the commands, the second the lists, the mail window, the upload manager and
the form of a ticket.

* ADB (`AckMatchesWriteAlways`, `InterfaceFreedAlways`). `HandleInv`: a handle that a
  disconnect released is claimed again only by a connect that will close it itself.
  `ShellInv`: while the shell lives, at most one OKAY is still to come, and it answers
  the chunk that is awaited (`OneAnswer`), and the answer to OPEN comes before any
  output (`OpenFirst`). Both speak of the two packet queues, the device and the
  stream at once: a write that was given up must end the shell, as its OKAY may still come.
* Terminal view (`ScreenFollowsAlways`). `PartsFollow`: what is pending, the piece
  being parsed and the screen are consecutive outputs each and fit end to end; their
  length `Ahead` lies between that of the transcript and what was emitted since the
  clear. `EraseResets` says that an erasing chunk waits only while a reset is due,
  always as the first. `ScreenFollows` says it of the concatenation; lemmas on
  cutting and joining consecutive sequences connect the two.
* Assistant (`AnswerFromOneAttemptAlways`). `Whole` is the text the panel has read
  followed by the text events it has not read: reading does not change it. `OneAttempt(Whole,
  route.attempt)` is then invariant, because a router that retries has emitted
  nothing, so that `Whole` is empty. `CarriedAnswered` says that the history sent with
  a question holds answered turns only, and the pairs before them.
* Remote control (`NoRepeatAfterReleaseAlways`). `OneHold` says that only the press
  under the finger has a timer, `OneCommand` that a press is in the queue once or
  waits for its timer, and `Spent` that a press which sent something after its release
  has no command left that could still leave, and never comes back under the finger.
* File browser and quick commands (`NoBlindOverwriteAlways`, `DialogsAlways`). The server
  compares revisions, so the proof has to show that the revision a save carries was on
  the screen. `DialogsInv` says so of every revision a dialog holds (`RevisionsSeen`), also
  of one that a closed dialog leaves to the next, and that a dialog which loads has one
  request under way, its own (`OwnRequest`). `CommandsInv` says that a draft began from,
  or is compared with, what the revision held for its id (`BaseOfRevision`). That needs
  `RequestOfEditor`, or a late answer would meet another editor, and `CommandsMade`: a new
  id is in no revision yet, although others create commands while the draft is edited.
* Upload manager. The job is an entry of the queue, a run of the pump, requests in
  flight and up to two tasks on the server, and none knows the state of the others.
  `JobFits` says of one job at a time what each may assume, so that a step at one job
  leaves the others as they are.
  - `SecondAfterFirst`: a second task exists, is known or is on its way only if the first
    was canceled or has expired. With `FileOfTask`, that a task which is complete has
    saved one file, this is one file per job: a part or a `complete` of the first that
    arrives late meets a task that is over.
  - `PartsSent`: the parts the run counts are on the server; the converse is false, since
    an answer may be lost, and that is why the run asks again before it repeats a part.
  - `OpenIsKnown`: an open task is known to its job. For a job that was canceled it is
    being deleted, or the run will undo it once the create is answered. This ends
    with the first request that fails at the client (`gap`).
  - `RequestKept`: once a second task is asked for, the first is not asked for again, and
    a run that has not read its job anew still goes by what the job knows.
* Listing pages and mail window. `OneRequest` and `OfChoice` say that the request that
  is not aborted is that of the present choice; `RowsFirst` that the usage of a folder
  is asked for after its rows. In the mail window the same holds only while no
  timer runs (`ListOfPlace`), and for the reader always (`ReaderOfChoice`).
* Form of a ticket. `AttachmentFits`: a draft is seen in the form, lost by a named step or
  being canceled by a request, and an upload under way has its place in the form.
  `PostFits`: what a save deletes was marked, and what it attaches is on the server. Each
  file has its own instance of the invariant, since the answers of the uploads and of
  the save come in any order.

`PageInv` joins these with the dialogs, the commands and the remote control, and yields
`NothingTwiceAlways`, `CancelLeavesNothingAlways`, `ShownIsCurrentAlways` and
`PageTypesAlways`.

`BrowserLiveProofs` is about the device session, the recorder and the overview of
`MCBrowserLive`.

* Links (`NoOrphanLinkAlways`). `LinkInv` says that a generation is given to one call
  only, which states of session, reader and release go with which state of the link,
  and that a link which is open has an owner that will close it, or is in use.
* Commands (`NothingReplayedAlways`). `ItemsInv`: an item in the queue that would still
  pass the two comparisons of `enqueue` was asked for on the connection that is open
  now. For ADB nobody compares a writer; there the closed shell refuses the item.
* Pastes (`EnterEndsWholePasteAlways`). `PasteInv`: at most one item of the paste is in
  the queue, and what stands on the wire behind its opening is the part of the text
  its state says (`Covers`, `Whole`), with nothing else in between on its connection.
  `Aside` is what every step beside the writes leaves as it is, so each such step is
  one lemma for all three parts of `SessionInv`.
* Recorder (`StoppedIsSavedAlways`, `NeverForgottenAlways`). `RecInv` says which jobs
  and stages go together (`JobsShaped`), that the save of a stop leaves nothing in
  memory (`Emptied`), that the record stands at the end of its file and everything
  behind that file is empty, so that a write cannot replace anything (`Fits`), that
  what was accepted or cached is in a file or in memory while the recorder lives
  (`Kept`), and that a recovery removes the cache only once its content is in a file
  (`Recovering`). What `Committed` leaves out of a recovery is in the original
  file already (`CommittedThere`); without that, comparing would lose output.
* Log files (`FileIsOutputAlways`). `OutputInv` has three parts. `LogInv`: there is a
  number up to which the output stands in the files, in order, and what the record and
  the buffer hold is all that follows it; a write moves that number on (`LogGrows`),
  whether or not the cache learns of it. `CacheInv`: where the cache lags behind
  the file, what the file already holds of the cached text stands where the text
  would be written, and in no other file (`Follows`), so that a recovery which
  compares leaves out all of it (`CommittedSkips`). `RecoveredInv`: a recovery adds
  what no log file holds, and one that adds a file either succeeds, and nothing is
  left to recover, or is counted as interrupted.
* Types (`DeviceTypesAlways`), of all three. `BoundsInv` says that the end of the record's
  file and what waits behind it are no further than the output received
  (`MemoryFits`); `CardsInv` that a card is moved only where cards are shown.

### Assumptions, and what is only model-checked

The assumptions are those of the modules, named where the constants are declared: a
plan is a non-empty sequence of steps with at most one ticket step (`bound_steps`
refuses others); the markers `None`, `Free`, `Mail`, `Outside` and `NoDraft` are no
rows, processes, places, choices or cache records, and the reader of a device is no
connect call; users, requests and files are finite sets, files are no tickets, and the
id of a ticket is no status of a file; the bounds are naturals.

Only model-checked are the liveness properties: the provers handle neither fairness nor
`ENABLED`. Every invariant and every action property of the runs is a theorem.

## 5. What is left

Worth doing next, in this order:

1. Reservations in bytes with the lapse and the renewal of a reservation by a
   late part (`upload_service.py:246`): several users of one quota.
2. Uploads that end in another table: device logs and knowledge files.
3. `UploadManager` composed with `UploadSession` instead of with the reduced
   server it has now.
4. Moves, renames and the public recycle bin of the storage service.

Not modelled, with the reason:

* Log uploads (`log-upload-task.ts`) and terminal profiles: values
  in the browser's storage, and calls of components that are modelled.
* Administration, accounts, catalog records, presets and application
  logs: one request and a reload each, on rows that no protocol above
  shares. The listing pages among them are in `PageLists`.
* Embedding, retrieval and prompts: numerical, without state besides the chunks of
  `KnowledgeIndex`.
* IMAP operations and the mail cache: one account at a time under one lock, with
  the state on a foreign server; reading and moving show in `MailWindow` only as
  requests.
* Rendering, wording, formatting, layout, settings forms, the initial schema and
  deployment. More than half of the source lines are TSX markup and styling of
  this kind; of the components above, the lines with state, guards and requests are
  mapped and the markup between them is not.

Hazards without a property are listed in `PROJECT.json` with the reason: the edit
of a draft after a lost answer, the renewal of a reservation, and the overflow of
the recorder during a save; a commit whose answer is lost is modelled, and left
out of the properties about files.
